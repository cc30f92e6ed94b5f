# FIKA: a verification project

TLA+ models, TLC runs and TLAPS proofs for File Ingest Key Analyser: five
processes on one machine (`qm`, `ingestd`, `detect`, `parse`, and the
`supervisor` that owns the other four), a command-line client `fika`, and the
boost message queues and files through which they meet. Paths below are
relative to the repository's inner `src/` directory.

## 1. The system

An upload reaches `ingestd` over HTTP, is written to the spool directory
`incoming` and renamed into `new`, and a job record is sent to the inbox of
`qm`. `qm` runs the job's state machine and sends the job to `detect`, which
asks libmagic for the file's type and answers into qm's inbox; `qm` sends it on
to `parse`, which looks up a parser and answers; `qm` then logs the outcome and
removes the file of a job that is done.

```
 client --HTTP--> ingestd --inbox--> qm --q:qm.to.detect--> detect --+
                                     ^  --q:qm.to.parse---> parse  --+
                                     +---------- inbox --------------+
 fika --fika_supervisor_mq--> supervisor --spawn, stop job, wait--> the four workers
      <--supervisor_fika_mq--
```

| component | source | state it keeps | operations |
|---|---|---|---|
| job record, MIME tables | `global/include/file_job.h`, `global/src/file_job.cpp`, `global/include/mime_type.h` | the fixed-size `file_job_shm` | conversions between the record and `file_job` |
| state machine, qm | `qm/src/{state_machine,qm,qm_service}.cpp` | the transition table, `jobs_in_memory`, the sender map | `add_job`, `process_results`, `handle_event`, `handle` |
| Service runtime | `global/src/service.cpp` | `running_`, the thread pool, the open queues | `receiveLoop`, `run`, `send` |
| detect | `detect/src/*` | one libmagic handle, shared by the pool | the detector chain, `handle` |
| parse | `parse/src/*` | the parser registry (empty at this commit) | `handle` |
| ingestd | `ingestd/src/*`, `util/src/pickup.cpp` | httplib's thread pool, the two spool directories | `POST /upload`, `handle_file`, `move_file` |
| supervisor | `supervisor/src/*` | per worker a process handle and Running/Stopped; the command table | start, stop, restart, ping, `monitor_once`, `reset_queues`, `create_queues` |
| pid file | `util/src/pid_file.cpp` | a file and an advisory lock on it | `create_and_lock`, `is_locked`, `read_pid` |
| command-line client | `fika/src/*` | nothing between invocations | ping, start a supervisor, send a command |
| names and fields | `util/src/qn_rslv.cpp`, `global/src/file_job.cpp`, `global/include/commands.h` | nothing | spell and take apart a queue's name, copy a string into a fixed-size field |
| options, configuration, the mains | `global/src/cli_parser.cpp`, `fika/src/cli.cpp`, `global/include/config_loader.hpp`, `*/src/main.cpp` | the option table and its values | from the command line to the open queues |
| PDF parser program | `parsers/pdf/src/*` | nothing | print what poppler finds in one document |
| logging | `util/src/msg.cpp` | nothing | output only |

What is hard, and what would make each component correct:

- **qm and the services.** Every service has one receive loop and a pool of
  `hardware_concurrency` threads that run the handlers in any order and block
  in `send` while a queue is full. qm sends to detect and parse, which send to
  qm: only because the pool's task list is unbounded does no circle of blocked
  threads close. Correct means: a job is in one place at a time, always at a
  service that can treat it, follows the transition table, and gets an outcome;
  a stop loses nothing, a crash loses only what that process held.
- **Shared data without a lock.** All qm threads insert into one
  `unordered_map`, all detect threads call one libmagic handle.
- **ingestd.** Open, write, rename and send are steps of several HTTP threads,
  with no recovery between them; file names have a resolution of one second;
  the directories are created by another process; every error ends in "Job
  submitted". Correct means: a clash touches only the uploads of its second,
  at least one of them gets a job, that job finds a file, and every request is
  answered.
- **Supervisor.** A single thread executes commands and monitors; a stop
  sends a message and waits without a timeout. Children crash at any time,
  stop jobs outlive the process they were sent to, a new child runs before the
  old one is destroyed, and only the pid-file lock keeps two processes from
  serving one queue. Correct means: one server per worker, Stopped means no
  process of this supervisor, Running means a process that serves again after any crash, a wait
  that has something to wait for, commands that complete.
- **Bootstrap.** The client decides from the lock and from a ping whether a
  supervisor lives, removes its queues if not, and starts one. The lock probe
  takes the lock for a moment; a ping times out while the supervisor is busy; a
  removed queue lives on for those who opened it. Correct means: one supervisor,
  named by the pid file, that reads the queue the clients send to.
- **Start-up of every program.** Five programs spell out the same queue names one
  by one, take the lock before they touch anything, and hand names on through
  fields that cut them down. Correct means: who serves is connected to the
  others, who does not get that far has changed nothing, and a shortened name
  is not somebody else's.

The hazards in `PROJECT.json` name the line of each.

## 2. The modules

| specification | is built on | checked in | proved about in |
|---|---|---|---|
| `Pipeline` | `FileJob`, `JobLifecycle` (abstract) | `MCPipeline` | `PipelineProofs`, `LifecycleProofs` |
| `Supervisor` | `CommandSteps` | `MCSupervisor` | `CommandStepsProofs`, `SupervisorProofs` |
| `System` | `Pipeline`, `CommandSteps` | `MCSystem` | `SystemProofs` |
| `Bootstrap` | | `MCBootstrap` | `BootstrapProofs` |
| `Ingest` | | `MCIngest` | `IngestProofs` |
| `Programs` | `Names` | `MCPrograms` | `ProgramsProofs` |

### FileJob: the data and the pure code

`FileJobShm` is the record; `DefaultJob` the value-initialised one, whose every
enumeration is the zero value (NEW, DETECTOR, Unknown). `Transitions` and
`Transition` are the table of `state_machine.cpp` and the functions stored in
it; `HandleEvent`, `AddJob` and `ProcessResults` are the methods of `qm.cpp`
and give the queue and the job of the reply; `MapType`, `DetectFile`,
`DetectReply` the detector chain; `FindParser`, `ParseReply` the parser lookup.
A job stands for its file, so the path is left out (it is in `Names` and
`Ingest`), and so is `attempts`, which no code changes. `ParseReply` takes the error and the value of `find_parser`
without running a parser, as the handler does.

Two constants say what the environment brings: `MagicResults` (what libmagic
may answer; `MagicNull` is the null pointer of an error) and `Parsers` (the mime
types with a parser: none at this commit, so no job is ever DONE; one run gives
`{"Pdf"}`, the parser the registry's code is prepared for, to reach the rest of
qm).

### Pipeline: ingestd and the three services

| variable | code |
|---|---|
| `queue[s]` | the boost queue s receives from; in shared memory, so it survives every process |
| `phase[w]` | the process: down, `receiveLoop` (or HTTP server) running, or in `pool_.join()` |
| `pool[s]`, `thread[s][t]` | the pool's posted tasks, and what each thread does: idle, in the handler, in `send` |
| `registered` | the keys of `jobs_in_memory` |
| `file[j]`, `fate[j]` | the file in `new` ("kept" once nobody is left who would remove it), and a history variable: which log line last concerned j |

| action | code |
|---|---|
| `Upload`, `Submit` | `handle_file`: the rename, then the blocking send |
| `Receive`, `ReceivePill`, `Exit` | `receiveLoop`: post a job; end on a stop job; return from the join |
| `Begin`, `HandleQm`, `HandleDetect`, `HandleParse`, `Send` | a pool task: taken, the handler up to its send, the blocking send |
| `RemoveFile` | the end of qm's handler for a DONE job: `remove_file`, which may fail unnoticed; a crash before it leaves the file (`Die`) |
| `RaceCrash`, and the choice in `Registrations` | the data races: an insertion is lost, or the process dies |
| `Start`, `SendStopJob`, `Crash` | the supervisor and the machine |

A handler is one step up to its `send`, or to its `remove_file`, because what it shares with other
threads is exactly what `Touches` names: the races there are modelled by their
outcomes. A spoiled libmagic answer needs nothing more, since `HandleDetect`
takes any answer.

### JobLifecycle: what the pipeline promises of a job

The abstract specification: `stage[j]` is absent, moved into `new`, one of the
five statuses, or an outcome. It steps by the state machine's table only,
leaves it by qm's conclusions, by a detector exception, or lost with a process.
`Pipeline` implements it with `stage` mapped to the status field of the one
copy of the job, wherever that copy is. That is a real obligation: detect and
parse write the status field themselves and raise no event.

### CommandSteps: the loops over the workers

`Targets` are the workers a loop of `start_workers` or `stop_workers` acts on
(those of the command's name, or all), `Pairs` the two steps it takes for each,
in order. `Supervisor` and `System` build their `todo` of them.

### Supervisor: commands, monitor, children

`run` is one thread, so what it has left to do is a sequence `todo` of steps.
`PollCommand` and `PollNothing` fill it: the steps of the command in worker
order, then one `watch` per worker (`monitor_once`). Each step is an action, so
that children boot, take messages, block, drain and die between any two of
them, in particular between the stop job and the wait, and between the spawn of
a new child and the destruction of the old one. `child[w]` holds both: `cur` is
the process behind the handle, `old` the one being replaced, which the
assignment in `worker::start` terminates. `orphan[w]` is a child of a dead
supervisor: it keeps its pid-file lock, but its queues have been unlinked.
`queue` and `pending` are the load: just enough of `Pipeline` to know when a
queue is full and when a task is blocked.

| action | code |
|---|---|
| `PollNothing`, `PollCommand`, `PollFault` | `supervisor::run`: `try_receive`, `handle_command`; `name()` through a null process |
| `Spawn`; `Started`, `Revived` | `worker::start`: `factory_()`, then the assignment; by `start_workers` or by `monitor_once` |
| `SendPill`, `Wait`, `PassOver`; `Watch` | `stop_workers`, which passes over a worker without an entry in `binary_to_queue` (ingestd); `monitor_once` |
| `Boot` | a worker's `main`: `create_and_lock`, or return -1 |
| `TakeJob`, `TakePill`, `Forward`, `Leave` | a Service, reduced to the room its jobs take |
| `Submit`, `Kill`, `Post`, `SupCrash`, `SupStart`, `OrphanLeaves` | ingestd, the machine, the client and the operator |

Ping and its pong touch nothing modelled here and are in `Bootstrap`. Reload, Status and Logs are commands without a handler: they execute
to nothing.

### Bootstrap: how a command finds a supervisor

An element of `Clients` is one invocation of `fika` with its command, and names
the supervisor it may spawn. `client[c]` and `sup[c]` say where in `main` each
of the two is; every system call that others can see is a step.

| variable | code |
|---|---|
| `pidFile`, `lock` | `/tmp/fika_supervisor.pid`: the pid in it (`Nobody`: no file), and who holds the advisory lock |
| `named`, `queues`, `opened` | the queues: which has the name `fika_supervisor_mq` or `supervisor_fika_mq`, their messages, which each process has opened |
| `executed`, `overlap` | history: the commands taken; whether an invocation began beside another one or a starting supervisor, or gave up on a live supervisor |

| action | code |
|---|---|
| `Probe`, `Unprobe` | `is_locked`: no file, or try the lock and give it back |
| `Open`, `Ping`, `Pong`, `Timeout` | the rest of `is_supervisor_running` |
| `RemoveCmd`, `RemoveReply`, `Spawn`, `Send` | `start_supervisor`, `send_command` |
| `Check`, `Create`, `Lock`, `Write` | `create_and_lock` |
| `OpenCmd`, `OpenReply`, `PollPing`, `PollCommand`, `Finish` | the supervisor's constructor, `run` and `ping_command` |
| `SupDies`, `Interrupt` | a kill of either |

Any command may keep the supervisor busy for longer than the ping's timeout
(`Supervisor` says when: a stop waits for its worker). An idle supervisor with
the client's queues always answers in time.

The overlap of two startups breaks the bootstrap for good, and the code has no
means against it: the queues of the first are removed by the second, whose
supervisor then exits at the lock. `NoSplit`, `PidNamesServer` and
`CommandsArrive` say what holds until such an overlap; `OneSupervisor` and
`ClientsEnd` hold through it. `overlap` is wider than it need be: it is set by
any two invocations at once, also by two that only ping a running supervisor.

### Ingest: uploads, file names and the spool

The inside of `Pipeline`'s `Upload` and `Submit`, with what can make them go
wrong. Each request is served by one thread of httplib's pool, and each system
call of the handler is a step. A file is known by the upload that created it,
so that a rename, an overwriting open and a write through an old handle can be
told apart.

| variable | code |
|---|---|
| `now`, `name[u]` | the clock in seconds, and the second in the upload's file name |
| `dirs` | the spool directories that exist: qm creates them, ingestd needs them |
| `request[u]`, `handle[u]` | how far the handler has come, and the file its `ofstream` is open on |
| `incoming`, `spool` | the directories `incomming` and `new`: the file under each name |
| `bytes[f]` | whose bodies are in a file |
| `inbox`, `job[u]`, `seen[u]` | qm's inbox (with results of detect and parse), how far the job has come, and what detect read for it |
| `early`, `born` | history: named before the directories existed; in which life of ingestd |

| action | code |
|---|---|
| `Arrive`, `Refuse`, `Name` | the request, a body that is empty, the file name |
| `Open`, `Write` | `ofstream` (truncates, or fails unnoticed), `write` and `close` |
| `Move`, `Send`, `Answer` | `move_file` (may fail: then no job), the blocking send, "Job submitted" |
| `MakeDir`, `Take`, `Inspect`, `Conclude` | qm's `setup`; qm and detect, as far as they touch the spool |
| `Tick`, `Crash`, `Restart` | the clock; ingestd's death or replacement, and its next start |

### System: the pipeline under its supervisor

`System` extends `Pipeline` and takes its `Start`, `SendStopJob`, `Crash`,
`Exit` away from the environment: they happen when the supervisor's commands,
its monitor or a booting child say so. `todo` is as in `Supervisor`; `booting`
are the children that have not tried the pid lock yet, `old` the workers whose
serving process has a successor beside it. `Supervisor` asks what processes
there are; `System` asks what that does to the jobs. Here the load is the real
one, and a supervisor never crashes: orphans are in `Supervisor`.

| action | code |
|---|---|
| `Command`, `Watch` | `handle_command`, `monitor_once` |
| `Spawn`; `Started`, `Revived` | `worker::start`; the replaced child is terminated with what it holds |
| `Pill`, `Wait` | `stop_workers`: the stop job, the wait |
| `Boot` | a worker's `main`: the lock and the queues, or return -1 |
| `Work`, `Leave`, `Fault` | the steps of Pipeline's processes; a return from the join; a crash, by a data race or otherwise |

### Names and Programs: from the command line to the open queues

`Names` has the pure functions: `qn_rslv`, `Field` (a string copied into a char
array), the conversions of the job record, `CommandMessage`. A name is a
sequence of characters here, because where it is split and cut is the question;
`Spell` gives the sequence of a string in the code.

`Programs` runs one process of any program. `Init` chooses its command line and
what it finds: whether its lock is held, whether the queues exist, the
configuration, the files on disk. `options` and `vm` are the option table and
boost's `variables_map`; `locked`, `receiver`, `senders`, `message`, `output`
are what it has got hold of or given away; `at` is the place in `main`.

| action | code |
|---|---|
| `initialize`, `set_options_description`, `Store`, `Notify`, `HelpOrVersion` | `cli_parser`, as each main uses it |
| `parse_command_line` | the client's `main`, up to its message |
| `CreateAndLock` | every daemon's `main` (step by step in `Bootstrap`) |
| `load`, `CreateQueues` | the supervisor's: `config::load`, `reset_queues`, `create_queues` |
| `OpenReceiver`, `OpenSenders` | the workers': `MsgQueueReceiver`, `add_sender` |
| `ParsePdf` | the PDF parser program's `main` and `pdf_parser::parse` |
| `Resolve` | a caller of `qn_rslv`'s parsers: tests only, so far |

## 3. The runs

| run | instance | shows |
|---|---|---|
| `pipeline_core` | 2 jobs, 2 threads, queues of 1, 1 crash, 1 stop job | types; `WellRouted`, `SingleCopy`, `NothingVanishes` |
| `pipeline_lifecycle` | as above with 1 thread and a PDF parser, fair | `SpoolMatchesFate` (removals that fail or are cut off included), the refinement `ImplementsLifecycle`, `EveryUploadSettles` through a crash and a restart |
| `pipeline_settle` | 4 jobs, 1 thread, queues of 1, no crash, fair | `EveryUploadSettles`: no circle of blocked sends |
| `pipeline_concluded` | 2 jobs, no crash, fair | *violated:* `EveryJobConcluded` |
| `supervisor_safety` | 3 workers, 3 commands of every kind, 2 jobs, a worker crash and a supervisor crash | types; `OneServer`, `StoppedMeansDown`, `StopIsHeard`, `FaultsOnlyBeforeStart` |
| `supervisor_live` | 4 workers, start and restart of detect, 2 jobs, 1 crash, fair | `RunningServes`, `CommandsComplete` |
| `supervisor_stopall` | 4 workers, stop of all under 3 jobs, fair | *violated:* `CommandsComplete` |
| `bootstrap_startup` | 3 clients, 1 kill or interruption, fair | types; `OneSupervisor`, `NoSplit`, `PidNamesServer`, `CommandsArrive`, `ClientsEnd` |
| `bootstrap_dead` | 2 clients | *violated:* `DeadMeansDead` |
| `ingest_uploads` | 3 uploads (one empty), 2 HTTP threads, an inbox of 1, 2 seconds, a death of ingestd, fair | types; `InspectsOwn`, `SomeoneSubmitted`, `JobFindsFile`, `EveryRequestAnswered` |
| `system_restart` | 1 job, 1 thread, queues of 1, a start of all, a restart of all or of detect, a crash, fair | types; `RestartKeepsJobs`, `StartIsFair`, `UploadSettles` |
| `programs_start` | every program, up to 3 of 11 arguments, fields of 6 to 9 characters, 17 names | types; `WiredTogether`, `OnlyOwnerResets`, `ReachesOnlyNamed`, `PrintsNamed`, `NamesRoundTrip` |

**Bounds.** Queues of one message make every sender block as soon as two meet;
the code's 100 changes when that happens, not what follows. Two threads suffice
for every race between two handlers, two jobs for every pair of jobs in one
place. `pipeline_settle` takes four jobs: with queues of one, that is what it
takes to fill both queues between qm and detect while a thread of each blocks in
send on the other's (the circle does close if the pool is bounded, as the run's
mutant shows). One crash anywhere gives every pair of a state and a death; `supervisor_safety` adds
one of the supervisor. It leaves parse out: it is the second of two workers with
the same code, and `supervisor_live` has it. In `bootstrap_startup` three
clients are one to start a supervisor, one to ping and be interrupted, and one
to find what those left behind; two suffice for every overlap.
In `ingest_uploads` two uploads with a body meet in every order, in one second
and in two; the inbox may be full of other results, so that both block in their
send and the third request finds no thread. `system_restart` has one job, to be
anywhere when a command comes; a stop that meets full queues of several is in
`supervisor_live` and `supervisor_stopall`. Its bounds on crashes and stop jobs (`MaxCrashes`, `MaxPills`) are above what the
commands can need and only keep `Pipeline`'s counters finite (`SystemAssumption`
says so). In `programs_start` three arguments give every pair of options with a
third that is wrong; the fields are short so that names around their size are
few, and `WorkersFit` says that, as in the code, no worker's name fills one.
The names hold the separator, end in a part of it or begin with one.

**Fairness.** Receive loops, pool threads, booting children and the supervisor's
loop are OS threads that keep running; a blocked send or receive resumes when
room or a message appears, and the runs send finitely many messages, so weak
fairness of each action is enough. In `Pipeline` `Start` is fair because of the
monitor's 50 ms poll, and because the one stop job of `pipeline_lifecycle` is
taken to be that of a restart command, whose start follows; after a plain stop
nothing has to run again. `System` discharges this assumption: `StartIsFair` says
that its supervisor provides it, or hangs in a stop. In `Ingest` the threads of
the HTTP pool keep running and a waiting request gets a free one; qm takes
from its inbox; clock, clients and deaths owe nothing. In `Bootstrap` every process that has begun runs on,
and a command ends. Nothing makes the environment act: no upload,
command or crash must come, and no supervisor must be restarted, except the
first.

**Deadlock** is checked in the pipeline, where `Quiescent` names the one state
in which nothing is left to do, and in the bootstrap. It is not checked in
`supervisor_safety`, `supervisor_live`, `supervisor_stopall` and
`system_restart`, where the supervisor really may wait for ever. In `Programs`
`Ended` is the end of the process.

**What the violations say.**
`EveryJobConcluded`: an exception in a handler is logged (`service.cpp:59`) and
qm never hears of the job; DETECTION_FAIL is raised nowhere.
`CommandsComplete` (stop of all): qm is stopped first, a detect task then blocks
on its full inbox, and `wait()` has no timeout (`supervisor.cpp:109-113`); a
stop of all, unlike a restart of one, therefore may never complete.
`DeadMeansDead`: "Supervisor is dead and queues are in a good state"
(`main.cpp:70`), says a client whose ping was not answered in 20 s, of one that
is busy with a command, and goes on to remove its queues. (When a queue has no
name the client says only that the supervisor is dead "or queues are in a bad
state", which is true.)

**What the passing runs leave open on purpose.** These defects are in the models
and in the exceptions of their properties. Two handlers in `add_job` race on the
map (`qm.cpp:30`): `Registrations` loses an insertion, `RaceCrash` ends qm.
`worker::name()` reads a null process as long as a worker was never started
(`PollFault`); `FaultsOnlyBeforeStart` says that this can only happen before a
start of all. After a supervisor crash the new children find the lock of the
orphans and are restarted for ever, so `RunningServes` is checked without one; for the same
reason `StoppedMeansDown` is about the processes of the present supervisor: it
knows nothing of an orphan, and only a supervisor that was killed leaves any.
A failed or cut-off removal leaves a done job's file in `new`
(`SpoolMatchesFate` says that these are the only two ways). An upload whose job
dies in ingestd's memory is "lost", which `EveryUploadSettles` counts as an
outcome.
In `Ingest` uploads of one second overwrite each other (`Rivals` in
`InspectsOwn`), and an upload named before qm made the directories is
answered "Job submitted" without a job (`early` in `SomeoneSubmitted`). In
`System` a start over running services loses what they hold; `RestartKeepsJobs`
puts every loss between a start and the next command down to it. In `Bootstrap`
`overlap` excepts the loser's pid in the pid file, the supervisor that exits
because a client probes the lock, and the removal of a live one's queues.

`RunningServes` in `supervisor_live` excepts a supervisor that hangs in a stop.
`CommandsComplete` excepts a command sent before any start: the supervisor dies
of it (`worker.cpp:46`), it is dropped, and the next supervisor wipes those
queued behind it (`Faulted`). And it excepts a crash: a worker that dies behind a full queue blocks
`send_stop_job`, and one whose peer is dead blocks in its own send and never
ends, in both cases with the one thread that could restart the dead.

## 4. The proofs

Every invariant of the passing runs, both refinements (`ImplementsLifecycle`,
`SystemSpec => Spec`) and every action property is proved, for any jobs,
threads, capacities, libmagic answers, parsers, workers, commands, clients,
uploads, names, field sizes and crashes. TLC was asked first whether each
inductive invariant holds.

The assumptions are the named ones of the modules: `NoId` is no job and
`PoisonPill` no job record (the two alternatives of the variant); there is a
pool thread; capacities and field sizes are positive; the worker list has no
duplicates and only known names (as `supervisor.json`); `Nobody` is no client;
in `Names` the two prefixes differ in a character both have (`PrefixesDiffer`);
in `Programs` no worker's name fills the message's field or runs into the
separator (`WorkersFit`). TLC computes the last two for the names in the code.

**Pipeline** (`PipelineProofs`, `LifecycleProofs`).

- `TypeCorrect`, Spec => []TypeOK: nearly inductive; its one subtle part is that
  a pool never holds a stop job, because `Receive` takes only what is not one.
  Lemmas type the pure operators (`Transition`, `HandleEvent`,
  `ProcessResults`, the replies) once.
- `WellRoutedAlways`: `TypeOK /\ WellRouted` is inductive. `Fits` says which jobs
  each service may be handed, and the heart is the lemma that `ProcessResults`
  turns a job that fits qm into one that fits where it is sent: this is what
  excludes the value-initialised job that a refused event would emit
  (`qm.cpp:67`). Each queue operation then preserves `Fits` place by place.
- `SingleCopyAlways`, `NothingVanishesAlways`: the runs' properties count
  copies, and counts are hard to induct on. `AllTracked` says the same without
  numbers: no two different places (an index of a queue or pool, or a thread)
  hold one job, and some place holds it exactly while its fate is `accepted`.
  There is one lemma per way a record moves (off a queue, into a pool, into a
  thread, out of a send), and `WellRouted` is needed besides, because a
  conclusion must be about a job whose fate is still open.
- `SpoolMatchesFateAlways`: a thread of qm that removes a file is the only one
  that does (`OneRemover`): the job it has logged DONE was in flight until then,
  so by `AllTracked` it was nowhere else, and nothing that is not in flight comes
  back. So a file is touched only by its upload, by its one remover, or by the
  death of that.
- `ImplementsLifecycleAlways`, Spec => ImplementsLifecycle: the stage is read off
  the one record of a job, so the abstract variable is well defined by
  `AllTracked`. Each action either only moves records (stages unchanged), or
  rewrites the one record in a thread, along the table by
  `Transition`/`DetectReply`/`ParseReply`, or ends jobs: a `Crash` loses all
  those of one process in one abstract `Lose`.

**Supervisor** (`CommandStepsProofs`, `SupervisorProofs`).

- `OneServerAlways`: with the types of `child` and `orphan`, `OneServer` is
  inductive worker by worker. The steps that matter are `Boot`, which needs the
  lock; `Spawn`, which moves a living child to `old` and starts one that does
  not hold the lock; and `SupStart`, which turns holders into orphans and
  forgets the children.
- `CommandStepsProofs` proves of `Targets` and `Pairs` that what they build is
  `Shaped`: a first step of a pair is followed by the second for the same
  worker, and a second one preceded by its first, also of every rest of it.
- `TypeOKAlways`, `StoppedMeansDownAlways`, `StopIsHeardAlways`,
  `FaultsOnlyBeforeStartAlways` follow from `CommandInv`: types, `Shaped(todo)`,
  and what the processes are between two steps of a command. `LeftByCrash` adds who
  leaves orphans: a supervisor that dies of a command does so while no worker has
  a process. `RevivesRunning`:
  a revival in progress is of a worker that should run. `OldIsReplaced`: there
  is an old process only between a spawn and its mark. `Down`, `Heard`: as the
  runs' properties, but also while no supervisor runs, or they would not survive
  its restart. `Named`: a worker without a process will be spawned by what is
  left to do, unless none has a process and none is to get one, which is what
  confines the fault of `name()` to the time before a start of all.

**System** (`SystemProofs`).

- `ImplementsPipeline`, SystemSpec => Spec: each step of `System` is one of
  `Pipeline` or leaves it alone. The one case to look at is `Replace`, which is
  a death or nothing. `SystemWellRouted`, `SystemKeepsJobs` and
  `SystemImplementsLifecycle` carry the results of `Pipeline` over. The fairness
  of `Start`, which this does not give, is TLC's `StartIsFair`.
- `ControlTypeOKAlways`, `RestartKeepsJobsAlways`: `ControlInv` adds to the shape of
  `todo` that no worker is spawned twice (`OnceEach`), that who is being replaced
  is at the step that replaces it (`OldIsReplaced`), that a stop and a restart
  replace no service (`NoneReplaced`), and, the reason for that, that every
  service they have yet to spawn is dead or will be waited for first
  (`SpawnsReady`). A job is then lost only with a start over running services or
  a crash.

**Bootstrap** (`BootstrapProofs`).

- `OneSupervisorAlways`: the strengthening says who holds the lock: every
  supervisor past `create_and_lock` and every client inside `is_locked`; so a
  client that gives the lock back cannot free a supervisor's.
- `NoSplitAlways`, `PidNamesServerAlways`: neither is near inductive: they hold
  because, until startups overlap, things happen one at a time. `QInv` adds the
  types of the queues and their handles (`MemType`) and, while `overlap` is
  FALSE, two facts. `Alone`: one invocation is active and one supervisor alive,
  none is starting when an invocation begins, and none lives while the queues
  are removed. `Found`: what a supervisor has written and opened is what has
  the name. Each supports the other: a client that probes goes on to remove
  the queues only if the pid, the lock or a name is missing, and by `Found` no
  supervisor then lives; and by `Alone` nobody else can change the names of the
  one that does.
- `TypeOKAlways` (with `TInv`): that a supervisor only ever executes commands is a
  fact about queues, not about types. No queue is one process's command queue
  and another's reply queue (`Apart`), so a pong is never in a command queue
  (`NoPong`); and a supervisor past its two `open_or_create` has both
  (`Opened`).

**Ingest** (`IngestProofs`).

- `TypeOKAlways`, `JobFindsFileAlways`, `SomeoneSubmittedAlways`,
  `InspectsOwnAlways` follow from `IngestInv`. `Named` says which requests have a
  name and from which life of ingestd; `Queued`: a job is in the inbox once, and only until it is taken;
  `Filed`, `Unopened`: a file and a handle carry the name of the upload they
  belong to. `Findable` is `JobFindsFile` from the moment of the rename, `Renamed`
  is `SomeoneSubmitted` from the opening of the file, with `Early` for the missing
  directories. `Own` is the hard one: an upload without rivals owns the file
  under its name in either directory at every step, although an earlier
  ingestd may have left a part of a file, or a moved one, under that name; it
  holds because opening truncates and a rename overwrites.

**Programs** (`ProgramsProofs`).

- `NamesRoundTripAlways`: `RoundTrip` states for names of any characters and
  length when `parse_direct_queue` gives back the two ends of
  `get_direct_queue`: exactly when both are nonempty and the separator behind
  the sender is the first one (`Clean`). It rests on the least
  element of the occurrences (`MinOf`, from the well-foundedness of Nat) and on
  lemmas that look up concatenations and parts by index.
- `ReachesOnlyNamedAlways`: `FieldAddresses`, that a name cut to the field is
  that of a worker, or empty, only if the whole name is; `SInv` carries it to
  the message.
- `TypeOKAlways`, `WiredTogetherAlways`, `PrintsNamedAlways`,
  `OnlyOwnerResetsAlways`: `PInv` says which programs are where with what in
  hand: the lock (`Phased`), the queues of their main (`Wired`), the document
  (`Printed`), the ends of a name (`Resolved`).

**Only model-checked** is liveness (`EveryUploadSettles`, `RunningServes`,
`CommandsComplete`, `CommandsArrive`, `ClientsEnd`, `EveryRequestAnswered`,
`StartIsFair`, `UploadSettles`): it needs fairness and ENABLED, which are out of
the prover's reach. The three violations are counterexamples, so there is
nothing to prove.

## 5. Abstractions, and what is not modelled

- A process killed while it holds the mutex inside a boost queue, which blocks
  everyone else on that queue, is not modelled: sends and receives are atomic.
- The commands of `Supervisor` and `System` name a known worker or all, although
  the command line takes any string; `ReachesOnlyNamed` (Programs) says that
  another string addresses nobody.
- A second supervisor started by hand with another `--pidfile` gets a lock of
  its own and resets the queues (`supervisor/src/main.cpp:46-48,81`):
  `OnlyOwnerResets` is about the owner of the lock it was given, and the client
  always gives the same.
- Job ids are distinct (a millisecond and 16 random bits in the code). In
  `Pipeline` a rename never fails and names do not clash; that is in `Ingest`.
- In `Ingest` a body is written by one system call, which does not fail once
  the file is open (the code would not notice, `ingestd.cpp:114-115`: a short
  file would be moved and submitted like a partial one); only a failed open is
  modelled. The clock does not go back,
  and qm, detect and parse are reduced to the steps that touch inbox and spool.
- A job still in ingestd's memory when it dies is "lost" although its file stays
  in `new`: nothing ever reads that directory again.
- Queue priorities are all 0, so the queues are FIFO; the registration order of
  receivers and the queue names are fixed at start-up.
- Fewer than 100 messages wait in a queue of the client (each invocation sends
  two), so those sends do not block. `Open` and the pid file's write are one
  step each.
- In `Pipeline` and `Supervisor` processes find their queues; failing to, or to
  read the configuration, is in `Programs`. A failing `fork` is not modelled.
- How boost splits a command line (short options, prefixes, positional words,
  which it drops) is external: an argument is an option and its value.
- The children of a dead supervisor have finished booting when the next one
  resets the queues (`SupStart`): milliseconds against a restart by hand.
- In `Supervisor` a task dies with its process, and the tasks of `cur` and `old`
  of a worker are counted together: by `OneServer` at most one has any.
- Not modelled: logging (`msg`, output only); `add_option` and its callbacks,
  `read_pid` and `mimeInfos`, which the programs do not use; the contents of a PDF
  document, which `pdf_parser` only copies from poppler to the output; JSON
  itself, of which only a missing file or key is told apart.

## 6. Plan

1. Done: every component that keeps state (FileJob, JobLifecycle, Pipeline,
   Supervisor, Bootstrap, Ingest), the pure code and the start-up (Names,
   Programs), the composition of pipeline and supervisor (System), the proofs of
   every safety property.
2. `Supervisor`'s load (`queue`, `pending`) shown to abstract `Pipeline`'s, and
   `Ingest`'s uploads shown to implement `Pipeline`'s `Upload` and `Submit` for
   names that do not clash: both by a refinement mapping, checked and then
   proved.
3. The steps that carry the liveness properties, as far as they are safety: what
   a blocked send waits for, in `Pipeline` and in `Supervisor`.
