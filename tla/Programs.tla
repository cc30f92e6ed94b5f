------------------------------ MODULE Programs ------------------------------
(***************************************************************************)
(* Every program of the project from its command line to the point where   *)
(* it serves, has sent its message, has printed, or has ended: option      *)
(* parsing (cli_parser.cpp, cli.cpp), the main functions up to their       *)
(* service's start, and the names and fields they hand on (Names.tla).     *)
(*                                                                         *)
(* One process runs.  What it finds on the machine, a pid file that is     *)
(* locked, queues, a configuration, files, is chosen at its start.  An     *)
(* argument is an option with or without a value, as boost splits them.    *)
(* A queue, a path, and the service a command names, is the sequence of    *)
(* its characters, as in Names.tla.                                        *)
(***************************************************************************)
EXTENDS Names

CONSTANTS
  Arguments,    \* the arguments a user may give: [option, value] records
  MaxArgs,      \* bound on their number
  Paths,        \* the paths the PDF parser may be given
  NoValue,      \* an option without a value
  EndNames      \* the names a caller of qn_rslv may use for two ends

ASSUME ProgramsAssumption ==
  /\ MaxArgs \in Nat
  /\ \A a \in Arguments : DOMAIN a = {"option", "value"}
  /\ \A a \in Arguments :
       a.option = "service" /\ a.value # NoValue => a.value \in Seq(Characters)
  /\ Paths \subseteq Seq(Characters) /\ EndNames \subseteq Seq(Characters)

Services == {"qm", "detect", "parse"}
Workers == Services \union {"ingestd"}
Daemons == Workers \union {"supervisor"}

\* "resolver" is whoever takes a queue's name apart: only tests do, so far.
Program == Daemons \union { "fika", "pdf", "resolver"}

\* No worker's name fills the field: one that did would also be what a longer
\* name is cut down to.  And none is empty or holds the separator.
ASSUME WorkersFit ==
  \A w \in Workers :
    /\ Spell(w) \in Seq(Characters) \ {<<>>}
    /\ Len(Spell(w)) < ServiceNameMaxLen - 1
    /\ Clean(Spell(w))

VARIABLES
  program,  \* which program runs
  args,     \* its command line
  held,     \* somebody else has the lock on its pid file
  queues,   \* the service queues that exist
  config,   \* supervisor.json: whether it can be read, and the keys of each entry
  disk,     \* the paths that name a readable document
  options,  \* desc_: the options by kind
  vm,       \* the variables_map: the value of every option present
  locked,   \* it holds the lock on its pid file
  receiver, \* the queue it receives from
  senders,  \* the queue opened for each destination
  message,  \* the CommandMessage it has sent
  output,   \* the document whose text it has printed, or the ends it found
  at

vars == <<program, args, held, queues, config, disk, options, vm, locked,
          receiver, senders, message, output, at>>
machine == <<held, config, disk>>

\* In the end: an exit code from the command line (-1), the lock (-1), an
\* unknown command (1) or a queue (1), or an exception nobody catches.
Final == {"usage", "locked_out", "rejected", "failed", "aborted", "serving", "sent", "printed",
          "resolved"}
Phases == {"initialize", "commands", "store", "notify", "check", "main", "prepare", "create", "open"} \union Final

Keys == {"name", "path", "args"}
Unreadable == [readable |-> FALSE, entries |-> <<>>]
Configs ==
  {Unreadable} \union
    [readable : {TRUE}, entries : {<<>>, <<Keys, Keys>>, <<Keys, {"name", "path"}>>}]

\* worker_config::fromJson wants every key of every entry.
fromJson(entries) == \A i \in DOMAIN entries : Keys \subseteq entries[i]

TypeOK ==
  /\ program \in Program
  /\ held \in BOOLEAN /\ locked \in BOOLEAN
  /\ locked => ~held
  /\ config \in Configs
  /\ at \in Phases
  /\ at \in {"serving", "prepare", "create", "open"} => locked

\* The names the mains spell out: qm's queue to a service, and its own.
DirectQueue(service) == get_direct_queue(Spell("qm"), Spell(service))
InboxQueue == get_inbox_queue(Spell("qm"))

\* The queues of supervisor/main.cpp.
Created ==
  {DirectQueue("detect"), DirectQueue("parse"), InboxQueue}

\* Where the supervisor sends a stop job.
binary_to_queue ==
  [s \in Services |-> IF s = "qm" THEN InboxQueue ELSE DirectQueue(s)]

CommandLines == UNION {[1..n -> Arguments] : n \in 0..MaxArgs}

Init ==
  /\ program \in Program
  /\ args \in CASE program = "pdf"      -> {<<>>} \union {<<p>> : p \in Paths}
               [] program = "resolver" -> EndNames \X EndNames
               [] OTHER                -> CommandLines
  /\ held \in IF program \in Daemons THEN BOOLEAN ELSE {FALSE}
  /\ queues \in IF program \in Daemons THEN {{}, Created} ELSE {{}}
  /\ config \in IF program = "supervisor" THEN Configs ELSE {Unreadable}
  /\ disk \in IF program = "pdf" THEN SUBSET (Paths \union {Field(MaxPathSize, p) : p \in Paths})
              ELSE {{}}
  /\ options = <<>> /\ vm = <<>>
  /\ locked = FALSE
  /\ receiver = <<>> /\ senders = <<>>
  /\ message = <<>> /\ output = <<>>
  /\ at = IF program \in Daemons \union {"fika"} THEN "initialize" ELSE "main"

Become(next) == at' = next
Keeps(variables) == UNCHANGED <<program, args, machine, variables>>

----------------------------------------------------------------------------
(* cli_parser, cli.cpp *)

\* The default_option flags each main asks for.
Flags ==
  CASE program = "supervisor" -> {"pidfile", "help"}
    [] program = "fika"       -> {"help", "version"}
    [] OTHER                  -> {"pidfile"}

Kind(option) ==
  CASE option \in {"pidfile", "command"}  -> "required"
    [] option = "service"                 -> "value"
    [] option \in {"verbose", "version"}  -> "switch"
    [] option = "help"                    -> "flag"

initialize ==
  /\ at = "initialize"
  /\ options' = [o \in Flags |-> Kind(o)]
  /\ Become(IF program = "fika" THEN "commands" ELSE "store")
  /\ Keeps(<<queues, vm, locked, receiver, senders, message, output>>)

\* The client's own options, and their merge into those asked for.
command_description == {"command", "service"}

set_options_description ==
  /\ at = "commands"
  /\ options' = [o \in DOMAIN options \union command_description |-> Kind(o)]
  /\ Become("store")
  /\ Keeps(<<queues, vm, locked, receiver, senders, message, output>>)

Given == {args[i].option : i \in DOMAIN args}

\* What boost's parse_command_line and store accept: known options, each at
\* most once, with a value just where one is taken.
Storable ==
  /\ Given \subseteq DOMAIN options
  /\ \A i, k \in DOMAIN args : args[i].option = args[k].option => i = k
  /\ \A i \in DOMAIN args :
       args[i].value # NoValue <=> options[args[i].option] \in {"required", "value"}

ValueOf(option) == args[CHOOSE i \in DOMAIN args : args[i].option = option].value

\* The variables_map holds what was given, and every switch.
Store ==
  /\ at = "store"
  /\ IF Storable
     THEN /\ vm' = [o \in Given \union {s \in DOMAIN options : options[s] = "switch"} |->
                      IF options[o] = "switch" THEN o \in Given ELSE ValueOf(o)]
          /\ Become("notify")
     ELSE Become("usage") /\ UNCHANGED vm
  /\ Keeps(<<queues, options, locked, receiver, senders, message, output>>)

Notify ==
  /\ at = "notify"
  /\ Become(IF \E o \in DOMAIN options \ DOMAIN vm : options[o] = "required"
            THEN "usage" ELSE "check")
  /\ Keeps(<<queues, options, vm, locked, receiver, senders, message, output>>)

\* --help, then --version: usage, and std::nullopt.
HelpOrVersion ==
  /\ at = "check"
  /\ Become(IF "help" \in DOMAIN vm \/ ("version" \in DOMAIN vm /\ vm["version"])
            THEN "usage" ELSE "main")
  /\ Keeps(<<queues, options, vm, locked, receiver, senders, message, output>>)

----------------------------------------------------------------------------
(* main of the command line client *)

command_map == {"start", "stop", "restart", "reload", "status", "logs"}

\* parse_command_line, then (once a supervisor runs, see Bootstrap) the send.
parse_command_line ==
  /\ at = "main" /\ program = "fika"
  /\ IF vm["command"] \in command_map
     THEN /\ message' = CommandMessage(vm["command"],
                          IF "service" \in DOMAIN vm THEN vm["service"] ELSE <<>>)
          /\ Become("sent")
     ELSE Become("rejected") /\ UNCHANGED message
  /\ Keeps(<<queues, options, vm, locked, receiver, senders, output>>)

----------------------------------------------------------------------------
(* main of the supervisor and of the workers *)

\* Mutant: main goes on without the lock.
CreateAndLockIgnored ==
  /\ at = "main" /\ program \in Daemons
  /\ locked' = TRUE
  /\ Become("prepare")
  /\ Keeps(<<queues, options, vm, receiver, senders, message, output>>)

\* Mutant: the queues are reset before main looks at the lock.
CreateAndLockResets ==
  /\ at = "main" /\ program \in Daemons
  /\ locked' = ~held
  /\ queues' = IF program = "supervisor" THEN {} ELSE queues
  /\ Become(IF held THEN "locked_out" ELSE "prepare")
  /\ Keeps(<<options, vm, receiver, senders, message, output>>)

\* pidfile_lock::create_and_lock
CreateAndLock ==
  /\ at = "main" /\ program \in Daemons
  /\ locked' = ~held
  /\ Become(IF held THEN "locked_out" ELSE "prepare")
  /\ Keeps(<<queues, options, vm, receiver, senders, message, output>>)

\* config::load throws if the file cannot be opened or decoded, outside of any
\* try of main, and so ends the process.
load ==
  /\ at = "prepare" /\ program = "supervisor"
  /\ Become(IF config.readable /\ fromJson(config.entries) THEN "create" ELSE "aborted")
  /\ Keeps(<<queues, options, vm, locked, receiver, senders, message, output>>)

\* reset_queues and create_queues, before run.
CreateQueues ==
  /\ at = "create"
  /\ queues' = Created
  /\ Become("serving")
  /\ Keeps(<<options, vm, locked, receiver, senders, message, output>>)

\* Mutant: the parse service is given detect's queue.
ReceivesFromDetects ==
  CASE program = "qm"      -> InboxQueue
    [] program = "ingestd" -> <<>>
    [] OTHER               -> DirectQueue("detect")

\* The queue each service's MsgQueueReceiver opens.
ReceivesFrom ==
  CASE program = "qm"      -> InboxQueue
    [] program = "ingestd" -> <<>>
    [] program = "detect"  -> DirectQueue("detect")
    [] program = "parse"   -> DirectQueue("parse")

OpenReceiver ==
  /\ at = "prepare" /\ program \in Services
  /\ IF ReceivesFrom \in queues
     THEN receiver' = ReceivesFrom /\ Become("open")
     ELSE UNCHANGED receiver /\ Become("failed")
  /\ Keeps(<<queues, options, vm, locked, senders, message, output>>)

\* add_sender: the queue for each destination (null_sender opens none).
SendsTo ==
  IF program = "qm" THEN [d \in {"detect", "parse"} |-> DirectQueue(d)]
  ELSE [d \in {"qm"} |-> InboxQueue]

\* open_only throws without the queue: a service returns 1, ingestd, whose
\* only queue this is, does not catch it.
OpenSenders ==
  /\ at = "open" \/ (at = "prepare" /\ program = "ingestd")
  /\ IF {SendsTo[d] : d \in DOMAIN SendsTo} \subseteq queues
     THEN senders' = SendsTo /\ Become("serving")
     ELSE UNCHANGED senders /\ Become(IF program = "ingestd" THEN "aborted" ELSE "failed")
  /\ Keeps(<<queues, options, vm, locked, receiver, message, output>>)

----------------------------------------------------------------------------
(* The PDF parser program *)

\* pdf_parser::parse opens the path of the job record it was handed.
Opened ==
  to_file_job(from_file_job([job_id |-> <<>>, path |-> args[1], status |-> "NEW"])).path

\* Poppler opens the document or parse throws, which main does not catch.
ParsePdf ==
  /\ at = "main" /\ program = "pdf"
  /\ IF args = <<>> THEN Become("usage") /\ UNCHANGED output
     ELSE IF Opened \in disk THEN output' = <<Opened>> /\ Become("printed")
     ELSE Become("aborted") /\ UNCHANGED output
  /\ Keeps(<<queues, options, vm, locked, receiver, senders, message>>)

\* The ends of the direct queue between the two given.
Resolve ==
  /\ at = "main" /\ program = "resolver"
  /\ output' = parse_direct_queue(get_direct_queue(args[1], args[2]))
  /\ Become("resolved")
  /\ Keeps(<<queues, options, vm, locked, receiver, senders, message>>)

\* The process serves or has ended.
Ended == at \in Final /\ UNCHANGED vars

Next ==
  \/ initialize \/ set_options_description \/ Store \/ Notify \/ HelpOrVersion
  \/ parse_command_line \/ CreateAndLock \/ load \/ CreateQueues
  \/ OpenReceiver \/ OpenSenders \/ ParsePdf \/ Resolve
  \/ Ended

Spec == Init /\ [][Next]_vars

----------------------------------------------------------------------------
(* Properties *)

\* Whoever serves is wired to the others: it receives where the supervisor
\* sends its stop jobs, under a name that resolves to itself, and sends to
\* each destination where that one receives.  The four mains and the
\* supervisor spell these names out one by one.
WiredTogether ==
  at = "serving" /\ program \in Workers =>
    /\ program \in Services => receiver = binary_to_queue[program]
    /\ program \in {"detect", "parse"} => parse_direct_queue(receiver) = <<Spell("qm"), Spell(program)>>
    /\ program = "qm" => parse_inbox_queue(receiver) = <<Spell("qm")>>
    /\ \A d \in DOMAIN senders : senders[d] = binary_to_queue[d]

\* Only the holder of the pid-file lock touches the queues: a supervisor that
\* is started beside another, with a wrong command line or without its
\* configuration leaves those of the first alone (supervisor/main.cpp:48-82).
OnlyOwnerResets == [][queues' # queues => locked /\ locked']_vars

\* The workers a command addresses, by supervisor.cpp:71 and :89.
Addressed(service) == {w \in Workers : service \in {<<>>, Spell(w)}}

\* A command for a named service reaches that service or none: no name, however
\* long, is cut down to that of another one or to none at all, which would
\* address all of them (commands.h:50, supervisor.cpp:71).
ReachesOnlyNamed ==
  at = "sent" /\ "service" \in DOMAIN vm =>
    Addressed(message.service_name) \subseteq Addressed(vm["service"])

\* The document printed is the one that was named, as long as its path fits
\* the record (file_job.cpp:38); a longer path opens the document, if any,
\* that its first characters name.
PrintsNamed ==
  at = "printed" =>
    /\ Len(args[1]) < MaxPathSize => output = <<args[1]>>
    /\ output[1] = SubSeq(args[1], 1, Len(output[1]))
    /\ Len(output[1]) < MaxPathSize

\* A direct queue's name leads back to its two ends just if both have a name
\* and the separator is not already in the sender's, nor ends across it; what
\* is accepted is always spelled the same again (qn_rslv.cpp:32).
NamesRoundTrip ==
  at = "resolved" =>
    LET queue == get_direct_queue(args[1], args[2])
    IN  /\ output = args <=> <<>> \notin {args[1], args[2]} /\ Clean(args[1])
        /\ output # NoName => get_direct_queue(output[1], output[2]) = queue
        /\ parse_inbox_queue(queue) = NoName
=============================================================================
