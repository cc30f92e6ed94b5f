------------------------------ MODULE Bootstrap ------------------------------
(***************************************************************************)
(* How a command finds a supervisor: the invocations of the client fika    *)
(* (fika/src/main.cpp), the supervisors they spawn up to their main loop   *)
(* (supervisor/src/main.cpp), the pid file with its lock (pid_file.cpp),   *)
(* and the two queues between them.                                        *)
(*                                                                         *)
(* A queue is a shared-memory segment that has a name until it is removed, *)
(* and lives on, nameless, for those who opened it; so a name and a handle *)
(* are two things here.  What a command does is in Supervisor.tla.         *)
(***************************************************************************)
EXTENDS Naturals, Sequences

CONSTANTS
  Clients,     \* the invocations of fika; each sends one command
  Nobody,      \* no client: the lock's holder, or the pid, when there is none
  MaxCrashes   \* bound on supervisors killed and clients interrupted

ASSUME BootstrapAssumption ==
  /\ Nobody \notin Clients
  /\ "ping" \notin Clients /\ "pong" \notin Clients
  /\ MaxCrashes \in Nat

VARIABLES
  client,    \* client[c]: where the invocation c is
  sup,       \* sup[c]: where the supervisor that c spawned is
  pidFile,   \* the pid in /tmp/fika_supervisor.pid, or "missing"
  lock,      \* the process that holds the lock: <<"sup" or "cli", c>>
  named,     \* named.cmd, named.reply: the queue that has the name, 0 if none
  queues,    \* queues[i]: the messages of queue i
  opened,    \* opened[p]: the queues process p has opened, 0 before it does
  executed,  \* the commands some supervisor has taken to execute
  overlap,   \* history: a client began beside another invocation or a starting
             \* supervisor (also if all of them only ping), or gave up on a live one
  crashes

vars == <<client, sup, pidFile, lock, named, queues, opened, executed, overlap, crashes>>

Process == {"sup", "cli"} \X Clients
Free == <<"none", Nobody>>
NoQueues == [cmd |-> 0, reply |-> 0]

ClientState == {"idle", "probe", "locked", "open", "ping", "wait",
                "removeCmd", "removeReply", "spawn", "send", "done"}
SupState == {"none", "check", "create", "lock", "write", "openCmd", "openReply",
             "run", "busy", "dead"}

\* create_and_lock has succeeded.
Holds(s) == sup[s] \in {"write", "openCmd", "openReply", "run", "busy"}
Serves(s) == sup[s] \in {"run", "busy"}
Starting(s) == sup[s] \notin {"none", "run", "busy", "dead"}
Active(c) == client[c] \notin {"idle", "done"}

Handles == [cmd : 0..Len(queues), reply : 0..Len(queues)]

TypeOK ==
  /\ client \in [Clients -> ClientState]
  /\ sup \in [Clients -> SupState]
  /\ pidFile \in Clients \union {Nobody}
  /\ lock \in Process \union {Free}
  /\ queues \in Seq(Seq(Clients \union {"ping", "pong"}))
  /\ named \in Handles
  /\ opened \in [Process -> Handles]
  /\ \A s \in Clients : Serves(s) => opened[<<"sup", s>>].cmd # 0 /\ opened[<<"sup", s>>].reply # 0
  /\ executed \subseteq Clients
  /\ overlap \in BOOLEAN
  /\ crashes \in Nat

Init ==
  /\ client = [c \in Clients |-> "idle"]
  /\ sup = [c \in Clients |-> "none"]
  /\ pidFile = Nobody
  /\ lock = Free
  /\ named = NoQueues
  /\ queues = <<>>
  /\ opened = [p \in Process |-> NoQueues]
  /\ executed = {}
  /\ overlap = FALSE
  /\ crashes = 0

files == <<pidFile, lock>>
memory == <<named, queues, opened>>
history == <<executed, overlap, crashes>>

Close(p) == opened' = [opened EXCEPT ![p] = NoQueues]
GoClient(c, to) == client' = [client EXCEPT ![c] = to]
GoSup(s, to) == sup' = [sup EXCEPT ![s] = to]

----------------------------------------------------------------------------
(* is_supervisor_running *)

\* An invocation begins.
Begin(c) ==
  /\ client[c] = "idle"
  /\ GoClient(c, "probe")
  /\ overlap' = (overlap \/ \E d \in Clients : Active(d) \/ Starting(d))
  /\ UNCHANGED <<sup, files, memory, executed, crashes>>

\* Mutant: is_locked finds every lock free.
ProbeUnlocked(c) ==
  /\ client[c] = "probe"
  /\ GoClient(c, "removeCmd")
  /\ UNCHANGED <<sup, files, memory, history>>

\* is_locked tries the lock: if nobody holds it, the client does for a moment.
Probe(c) ==
  /\ client[c] = "probe"
  /\ IF pidFile = Nobody THEN GoClient(c, "removeCmd") /\ UNCHANGED lock
     ELSE IF lock = Free THEN GoClient(c, "locked") /\ lock' = <<"cli", c>>
     ELSE GoClient(c, "open") /\ UNCHANGED lock
  /\ UNCHANGED <<sup, pidFile, memory, history>>

\* The destructor of temp_lock gives it back: there was no supervisor.
Unprobe(c) ==
  /\ client[c] = "locked"
  /\ lock' = Free
  /\ GoClient(c, "removeCmd")
  /\ UNCHANGED <<sup, pidFile, memory, history>>

\* open_only throws if either queue has no name.
Open(c) ==
  /\ client[c] = "open"
  /\ IF named.cmd # 0 /\ named.reply # 0
     THEN GoClient(c, "ping") /\ opened' = [opened EXCEPT ![<<"cli", c>>] = named]
     ELSE GoClient(c, "removeCmd") /\ UNCHANGED opened
  /\ UNCHANGED <<sup, files, named, queues, history>>

Put(q, msg) == queues' = [queues EXCEPT ![q] = Append(@, msg)]

Ping(c) ==
  /\ client[c] = "ping"
  /\ Put(opened[<<"cli", c>>].cmd, "ping")
  /\ GoClient(c, "wait")
  /\ UNCHANGED <<sup, files, named, opened, history>>

\* Any pong will do: it carries no id.
Pong(c) ==
  LET reply == opened[<<"cli", c>>].reply
  IN  /\ client[c] = "wait"
      /\ queues[reply] # <<>>
      /\ queues' = [queues EXCEPT ![reply] = Tail(@)]
      /\ GoClient(c, "send")
      /\ Close(<<"cli", c>>)
      /\ UNCHANGED <<sup, files, named, history>>

\* Mutant: the wait has no timeout.
TimeoutNever(c) == FALSE /\ client[c] = "wait" /\ UNCHANGED vars

\* timed_receive gives up after 20 s, far longer than an idle supervisor
\* takes to answer: it is dead, busy with a command, or has other queues.
Timeout(c) ==
  LET mine == opened[<<"cli", c>>]
  IN  /\ client[c] = "wait"
      /\ queues[mine.reply] = <<>>
      /\ ~\E s \in Clients : sup[s] = "run" /\ opened[<<"sup", s>>] = mine
      /\ GoClient(c, "removeCmd")
      /\ Close(<<"cli", c>>)
      /\ overlap' = (overlap \/ \E s \in Clients : Holds(s))
      /\ UNCHANGED <<sup, files, named, queues, executed, crashes>>

----------------------------------------------------------------------------
(* start_supervisor, send_command *)

RemoveCmd(c) ==
  /\ client[c] = "removeCmd"
  /\ named' = [named EXCEPT !.cmd = 0]
  /\ GoClient(c, "removeReply")
  /\ UNCHANGED <<sup, files, queues, opened, history>>

RemoveReply(c) ==
  /\ client[c] = "removeReply"
  /\ named' = [named EXCEPT !.reply = 0]
  /\ GoClient(c, "spawn")
  /\ UNCHANGED <<sup, files, queues, opened, history>>

Spawn(c) ==
  /\ client[c] = "spawn"
  /\ GoSup(c, "check")
  /\ GoClient(c, "send")
  /\ UNCHANGED <<files, memory, history>>

\* open_or_create, then the command; main returns.
Send(c) ==
  /\ client[c] = "send"
  /\ IF named.cmd = 0
     THEN /\ queues' = Append(queues, <<c>>)
          /\ named' = [named EXCEPT !.cmd = Len(queues) + 1]
     ELSE Put(named.cmd, c) /\ UNCHANGED named
  /\ GoClient(c, "done")
  /\ UNCHANGED <<sup, files, opened, history>>

----------------------------------------------------------------------------
(* The supervisor: create_and_lock *)

Check(s) ==
  /\ sup[s] = "check"
  /\ GoSup(s, IF pidFile = Nobody THEN "create" ELSE "lock")
  /\ UNCHANGED <<client, files, memory, history>>

\* The file is created with a pid in it, before the lock is tried.
Create(s) ==
  /\ sup[s] = "create"
  /\ pidFile' = s
  /\ GoSup(s, "lock")
  /\ UNCHANGED <<client, lock, memory, history>>

\* Mutant: main ignores the answer of create_and_lock.
LockIgnored(s) ==
  /\ sup[s] = "lock"
  /\ IF lock = Free THEN lock' = <<"sup", s>> ELSE UNCHANGED lock
  /\ GoSup(s, "write")
  /\ UNCHANGED <<client, pidFile, memory, history>>

\* try_lock; main returns -1 if another process holds the lock.
Lock(s) ==
  /\ sup[s] = "lock"
  /\ IF lock = Free THEN GoSup(s, "write") /\ lock' = <<"sup", s>>
     ELSE GoSup(s, "dead") /\ UNCHANGED lock
  /\ UNCHANGED <<client, pidFile, memory, history>>

\* Mutant: the pid written at creation is taken to be enough.
WriteNothing(s) ==
  /\ sup[s] = "write"
  /\ GoSup(s, "openCmd")
  /\ UNCHANGED <<client, files, memory, history>>

Write(s) ==
  /\ sup[s] = "write"
  /\ pidFile' = s
  /\ GoSup(s, "openCmd")
  /\ UNCHANGED <<client, lock, memory, history>>

----------------------------------------------------------------------------
(* The supervisor: its queues and its loop *)

\* open_or_create of the queue called which.
OpenOrCreate(s, which) ==
  LET q == IF named[which] = 0 THEN Len(queues) + 1 ELSE named[which]
  IN  /\ queues' = IF named[which] = 0 THEN Append(queues, <<>>) ELSE queues
      /\ named' = [named EXCEPT ![which] = q]
      /\ opened' = [opened EXCEPT ![<<"sup", s>>][which] = q]

\* Mutant: open_only of a queue that may have no name.
OpenCmdOnly(s) ==
  /\ sup[s] = "openCmd"
  /\ opened' = [opened EXCEPT ![<<"sup", s>>].cmd = named.cmd]
  /\ GoSup(s, "openReply")
  /\ UNCHANGED <<client, files, named, queues, history>>

\* Mutant: the supervisor starts from an empty command queue of its own.
OpenCmdFresh(s) ==
  /\ sup[s] = "openCmd"
  /\ queues' = Append(queues, <<>>)
  /\ named' = [named EXCEPT !.cmd = Len(queues) + 1]
  /\ opened' = [opened EXCEPT ![<<"sup", s>>].cmd = Len(queues) + 1]
  /\ GoSup(s, "openReply")
  /\ UNCHANGED <<client, files, history>>

OpenCmd(s) ==
  /\ sup[s] = "openCmd"
  /\ OpenOrCreate(s, "cmd")
  /\ GoSup(s, "openReply")
  /\ UNCHANGED <<client, files, history>>

OpenReply(s) ==
  /\ sup[s] = "openReply"
  /\ OpenOrCreate(s, "reply")
  /\ GoSup(s, "run")
  /\ UNCHANGED <<client, files, history>>

\* The loop receives a ping and sends a pong.
PollPing(s) ==
  LET mine == opened[<<"sup", s>>]
      taken == [queues EXCEPT ![mine.cmd] = Tail(@)]
  IN  /\ sup[s] = "run"
      /\ queues[mine.cmd] # <<>> /\ Head(queues[mine.cmd]) = "ping"
      /\ queues' = [taken EXCEPT ![mine.reply] = Append(@, "pong")]
      /\ UNCHANGED <<client, sup, files, named, opened, history>>

\* The loop receives a command and is busy with it, for long if it is a stop.
PollCommand(s) ==
  LET mine == opened[<<"sup", s>>]
  IN  /\ sup[s] = "run"
      /\ queues[mine.cmd] # <<>> /\ Head(queues[mine.cmd]) # "ping"
      /\ executed' = executed \union {Head(queues[mine.cmd])}
      /\ queues' = [queues EXCEPT ![mine.cmd] = Tail(@)]
      /\ GoSup(s, "busy")
      /\ UNCHANGED <<client, files, named, opened, overlap, crashes>>

Finish(s) ==
  /\ sup[s] = "busy"
  /\ GoSup(s, "run")
  /\ UNCHANGED <<client, files, memory, history>>

----------------------------------------------------------------------------

\* A process that ends gives back its lock and closes its queues.
Unlock(p) == lock' = IF lock = p THEN Free ELSE lock

\* A supervisor is killed.
SupDies(s) ==
  /\ sup[s] \notin {"none", "dead"}
  /\ crashes < MaxCrashes
  /\ crashes' = crashes + 1
  /\ GoSup(s, "dead")
  /\ Unlock(<<"sup", s>>)
  /\ Close(<<"sup", s>>)
  /\ UNCHANGED <<client, pidFile, named, queues, executed, overlap>>

\* A client is interrupted.
Interrupt(c) ==
  /\ Active(c)
  /\ crashes < MaxCrashes
  /\ crashes' = crashes + 1
  /\ GoClient(c, "done")
  /\ Unlock(<<"cli", c>>)
  /\ Close(<<"cli", c>>)
  /\ UNCHANGED <<sup, pidFile, named, queues, executed, overlap>>

\* Everybody is done: supervisors poll empty queues.
Quiescent ==
  /\ \A c \in Clients : client[c] = "done" /\ sup[c] \in {"none", "run", "dead"}
  /\ UNCHANGED vars

ClientStep(c) ==
  \/ Probe(c) \/ Unprobe(c) \/ Open(c) \/ Ping(c) \/ Pong(c) \/ Timeout(c)
  \/ RemoveCmd(c) \/ RemoveReply(c) \/ Spawn(c) \/ Send(c)

SupStep(s) ==
  \/ Check(s) \/ Create(s) \/ Lock(s) \/ Write(s) \/ OpenCmd(s) \/ OpenReply(s)
  \/ PollPing(s) \/ PollCommand(s) \/ Finish(s)

Next ==
  \/ \E c \in Clients : Begin(c) \/ ClientStep(c) \/ SupStep(c) \/ SupDies(c) \/ Interrupt(c)
  \/ Quiescent

Spec == Init /\ [][Next]_vars

\* A process that has begun runs on, and a command ends; Supervisor.tla says
\* when one does.  Nobody has to type a command, and nothing has to crash.
FairSpec == Spec /\ \A c \in Clients : WF_vars(ClientStep(c)) /\ WF_vars(SupStep(c))

----------------------------------------------------------------------------
(* Safety *)

\* At most one supervisor gets past create_and_lock, however many clients
\* start one at once and whatever probes the lock meanwhile (pid_file.cpp:41).
OneSupervisor == \A s, t \in Clients : Holds(s) /\ Holds(t) => s = t

\* Unless two invocations overlapped, or a client gave up on a busy supervisor,
\* the serving supervisor listens where the clients will send, also after
\* earlier supervisors were killed (main.cpp:83-103).
NoSplit ==
  ~overlap => \A s \in Clients : Serves(s) => opened[<<"sup", s>>] = named

\* Under the same proviso, and with the write that follows the lock
\* (pid_file.cpp:54), the pid in the file is the serving supervisor's, not
\* that of a dead one.
PidNamesServer == ~overlap => \A s \in Clients : Serves(s) => pidFile = s

----------------------------------------------------------------------------
(* Liveness; an invocation is made once, so what holds from some time on is *)
(* what each of them leads to                                              *)

\* Under the same proviso a command that was sent gets executed, unless
\* something crashed: also one sent before its supervisor was up.
CommandsArrive ==
  <>[](\A c \in Clients : client[c] = "done" => c \in executed \/ overlap \/ crashes > 0)

\* No invocation hangs: the ping that nobody answers times out (main.cpp:63).
ClientsEnd == <>[](\A c \in Clients : ~Active(c))

----------------------------------------------------------------------------
(* What the repository says and the code does not keep *)

\* "Supervisor is dead and queues are in a good state" (main.cpp:70): when a
\* client says so, because its ping timed out, no supervisor lives.
DeadMeansDead ==
  [][\A c, s \in Clients :
       client[c] = "wait" /\ client'[c] = "removeCmd" => ~Holds(s)]_vars
=============================================================================
