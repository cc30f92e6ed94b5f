---------------------------- MODULE SystemProofs ----------------------------
(***************************************************************************)
(* The pipeline under its supervisor is a pipeline: whatever the commands, *)
(* the monitor and the booting children do, every step of System is one of *)
(* Pipeline or leaves it alone, so that what is proved there holds here.   *)
(***************************************************************************)
EXTENDS System, LifecycleProofs, CommandStepsProofs

\* Putting a child in the place of another one is at most a death.
LEMMA ReplaceSteps ==
  ASSUME NEW w \in Workers, Replace(w)
  PROVE  [Next]_vars
<1>1. CASE w \in old
  BY <1>1 DEF Replace, Next
<1>2. CASE w \notin old
  BY <1>2 DEF Replace
<1> QED
  BY <1>1, <1>2

LEMMA LoopSteps == Loop => [Next]_vars
<1>1. ASSUME NEW w \in Workers, Spawn(w) \/ Watch(w) \/ PassOver(w) \/ Wait(w)
      PROVE  [Next]_vars
  BY <1>1 DEF Spawn, Watch, PassOver, Wait
<1>2. ASSUME NEW w \in Workers, Started(w) \/ Revived(w)
      PROVE  [Next]_vars
  BY <1>2, ReplaceSteps DEF Started, Revived
<1>3. ASSUME NEW s \in Services, Pill(s)
      PROVE  [Next]_vars
  BY <1>3 DEF Pill, Next
<1> QED
  BY <1>1, <1>2, <1>3 DEF Loop

LEMMA ProcessSteps ==
  /\ \A w \in Workers : Boot(w) \/ Fault(w) => [Next]_vars
  /\ \A s \in Services : Leave(s) => [Next]_vars
<1>1. ASSUME NEW w \in Workers, Boot(w)
      PROVE  [Next]_vars
  <2>1. CASE phase[w] = "down"
    BY <1>1, <2>1 DEF Boot, Next
  <2>2. CASE phase[w] # "down"
    BY <1>1, <2>2 DEF Boot
  <2> QED
    BY <2>1, <2>2
<1>2. ASSUME NEW w \in Workers, Fault(w)
      PROVE  [Next]_vars
  BY <1>2 DEF Fault, Next
<1>3. ASSUME NEW s \in Services, Leave(s)
      PROVE  [Next]_vars
  BY <1>3 DEF Leave, Next
<1> QED
  BY <1>1, <1>2, <1>3

\* Every step of the system is a step of the pipeline or none.
LEMMA SystemSteps == [SystemNext]_sysVars => [Next]_vars
<1>1. CASE Work
  BY <1>1 DEF Work, Next
<1>2. ASSUME NEW c \in Commands, Command(c)
      PROVE  [Next]_vars
  BY <1>2 DEF Command
<1>3. CASE UNCHANGED sysVars
  BY <1>3 DEF sysVars
<1> QED
  BY <1>1, <1>2, <1>3, LoopSteps, ProcessSteps DEF SystemNext

\* What the supervisor's commands and its monitor do with the processes
\* (supervisor.cpp:69-118, worker.cpp:26-44) is what Pipeline lets the
\* environment do: System implements it.
THEOREM ImplementsPipeline == SystemSpec => Spec
<1>1. SystemInit => Init
  BY DEF SystemInit
<1> QED
  BY <1>1, SystemSteps, PTL DEF SystemSpec, Spec

\* So no command, and no order in which children boot, are replaced and die,
\* hands a service a job it does not work on (qm.cpp:67, supervisor.cpp:72).
THEOREM SystemWellRouted == SystemSpec => []WellRouted
BY ImplementsPipeline, WellRoutedAlways, PTL

\* A start over running services kills the old ones, yet no job is ever in two
\* places, none is gone without an outcome, and no file but that of a job
\* logged DONE leaves "new", whatever the commands are; what a killed qm had
\* logged DONE and not yet removed stays there.
THEOREM SystemKeepsJobs == SystemSpec => [](SingleCopy /\ NothingVanishes /\ SpoolMatchesFate)
BY ImplementsPipeline, SingleCopyAlways, NothingVanishesAlways, SpoolMatchesFateAlways, PTL

\* Each job moves only along the transitions of the state machine
\* (state_machine.cpp:23), whatever commands come and whoever they terminate.
THEOREM SystemImplementsLifecycle == SystemSpec => ImplementsLifecycle
BY ImplementsPipeline, ImplementsLifecycleAlways

----------------------------------------------------------------------------
(* The supervisor's own state: what is left of a command, and who is being *)
(* replaced.                                                               *)

SysStep == {"spawn", "started", "revived", "pill", "wait"} \X Workers
AtStep(op, w) == todo # <<>> /\ Head(todo) = <<op, w>>

\* A worker is being replaced only between its spawn and the mark after it.
OldIsReplaced == \A w \in old : AtStep("started", w) \/ AtStep("revived", w)

\* Neither a stop nor a restart replaces a serving process of a service.
NoneReplaced == command # "Start" => old \intersect Services = {}

\* Because every service such a command is yet to spawn is dead, or waited for
\* before its turn comes.
Ready == {w \in Workers : w \notin Services \/ Dead(w)}
SpawnsReady == command # "Start" => Waits(todo, Ready)

ControlInv ==
  /\ ControlTypeOK
  /\ Shaped(todo)
  /\ OnceEach(todo)
  /\ OldIsReplaced
  /\ NoneReplaced
  /\ SpawnsReady

LEMMA WorkerNames ==
  /\ Services \subseteq Workers /\ "ingestd" \in Workers /\ "ingestd" \notin Services
  /\ \A w \in Workers : w \in Services \/ w = "ingestd"
BY DEF Services, Workers

LEMMA StepParts ==
  ASSUME todo \in Seq(SysStep), todo # <<>>
  PROVE  \E op \in {"spawn", "started", "revived", "pill", "wait"}, w \in Workers :
           Head(todo) = <<op, w>>
<1>1. Head(todo) \in SysStep
  BY TailFacts
<1> QED
  BY <1>1 DEF SysStep

\* Only at a mark is there anyone to replace.
LEMMA OldAtMark ==
  ASSUME OldIsReplaced, todo = <<>> \/ Head(todo)[1] \notin {"started", "revived"}
  PROVE  old = {}
BY DEF OldIsReplaced, AtStep

LEMMA OldOnlyHead ==
  ASSUME OldIsReplaced, NEW op, NEW w, Head(todo) = <<op, w>>
  PROVE  old \subseteq {w}
BY DEF OldIsReplaced, AtStep

----------------------------------------------------------------------------
(* The lists of steps the commands put down *)

LEMMA TargetsOf ==
  ASSUME NEW name \in Workers \union {""}
  PROVE  LET ws == Targets(Order, name) IN
         ws \in Seq(Workers) /\ \A i, k \in 1..Len(ws) : ws[i] = ws[k] => i = k
<1>1. CASE name = ""
  <2>1. Order \in Seq(Workers) /\ \A i, k \in DOMAIN Order : Order[i] = Order[k] => i = k
    BY SystemAssumption
  <2>2. DOMAIN Order = 1..Len(Order)
    BY <2>1, ListDomain
  <2> QED
    BY <1>1, <2>1, <2>2 DEF Targets
<1>2. CASE name # ""
  <2>1. name \in Workers
    BY <1>2
  <2>2. <<name>> \in Seq(Workers) /\ Len(<<name>>) = 1
    BY <2>1, Single
  <2> QED
    BY <1>2, <2>2, OneInList DEF Targets
<1> QED
  BY <1>1, <1>2

LEMMA StartStepsAre ==
  ASSUME NEW name \in Workers \union {""}
  PROVE  /\ StartSteps(name) \in Seq(SysStep) /\ Shaped(StartSteps(name))
         /\ OnceEach(StartSteps(name))
         /\ StartSteps(name) # <<>> => StartSteps(name)[1][1] = "spawn"
<1> DEFINE ws == Targets(Order, name)
<1>1. ws \in Seq(Workers) /\ \A i, k \in 1..Len(ws) : ws[i] = ws[k] => i = k
  BY TargetsOf
<1> HIDE DEF ws
<1>2. /\ Pairs("spawn", "started", ws) \in Seq({"spawn", "started"} \X Workers)
      /\ Shaped(Pairs("spawn", "started", ws))
      /\ Pairs("spawn", "started", ws) # <<>> => Pairs("spawn", "started", ws)[1][1] = "spawn"
  BY <1>1, PairsShaped
<1>3. {"spawn", "started"} \X Workers \subseteq SysStep
  BY DEF SysStep
<1>4. Pairs("spawn", "started", ws) \in Seq(SysStep)
  BY <1>2, <1>3, SeqOfMore, ZenonT(60)
<1>5. OnceEach(Pairs("spawn", "started", ws))
  BY <1>1, StartsOnce
<1> QED
  BY <1>2, <1>4, <1>5 DEF StartSteps, ws

LEMMA StopStepsAre ==
  ASSUME NEW name \in Workers \union {""}
  PROVE  /\ StopSteps(name) \in Seq(SysStep) /\ Shaped(StopSteps(name))
         /\ \A i \in 1..Len(StopSteps(name)) : StopSteps(name)[i][1] # "spawn"
<1> DEFINE ws == Targets(Order, name)
<1>1. ws \in Seq(Workers)
  BY TargetsOf
<1> HIDE DEF ws
<1>2. /\ Pairs("pill", "wait", ws) \in Seq({"pill", "wait"} \X Workers)
      /\ Shaped(Pairs("pill", "wait", ws))
      /\ \A i \in 1..Len(Pairs("pill", "wait", ws)) :
           Pairs("pill", "wait", ws)[i][1] \in {"pill", "wait"}
  BY <1>1, PairsShaped
<1>3. {"pill", "wait"} \X Workers \subseteq SysStep
  BY DEF SysStep
<1>4. Pairs("pill", "wait", ws) \in Seq(SysStep)
  BY <1>2, <1>3, SeqOfMore
<1> QED
  BY <1>2, <1>4 DEF StopSteps, ws

LEMMA StepsAre ==
  ASSUME NEW c \in Commands, NEW ready
  PROVE  /\ c.type \in {"Start", "Stop", "Restart"}
         /\ Steps(c) \in Seq(SysStep) /\ Shaped(Steps(c)) /\ OnceEach(Steps(c))
         /\ c.type # "Start" => Waits(Steps(c), ready)
<1>1. c.type \in {"Start", "Stop", "Restart"} /\ c.service \in Workers \union {""}
  BY SystemAssumption
<1> DEFINE name == c.service
<1>2. name \in Workers \union {""}
  BY <1>1
<1> HIDE DEF name
<1>3. CASE c.type = "Start"
  BY <1>2, <1>3, StartStepsAre DEF Steps, name
<1>4. CASE c.type = "Stop"
  <2>1. OnceEach(StopSteps(name)) /\ Waits(StopSteps(name), ready)
    BY <1>2, StopStepsAre, NoSpawnWaits
  <2> QED
    BY <1>2, <1>4, <2>1, StopStepsAre DEF Steps, name
<1>5. CASE c.type = "Restart"
  <2> DEFINE steps == StopSteps(name) \o StartSteps(name)
  <2>1. "spawn" \notin Ends
    BY DEF Ends
  <2>2. steps \in Seq(SysStep) /\ Shaped(steps)
    BY <1>2, <2>1, StopStepsAre, StartStepsAre, ConcatShaped
  <2>3. OnceEach(steps) /\ Waits(steps, ready)
    BY <1>2, TargetsOf, RestartWaits DEF StopSteps, StartSteps
  <2>4. Steps(c) = steps
    BY <1>5 DEF Steps, name
  <2> QED
    BY <1>5, <2>2, <2>3, <2>4
<1> QED
  BY <1>1, <1>3, <1>4, <1>5

----------------------------------------------------------------------------
(* Every step keeps the supervisor's invariant *)

DownKept == \A w \in Workers : phase'[w] = "down" <=> phase[w] = "down"

\* Steps that leave the list alone and take no one from the dead.
LEMMA ControlKept ==
  ASSUME ControlInv,
         UNCHANGED <<todo, command>>, running' \subseteq Workers, booting' \subseteq Workers,
         old' \subseteq old, old' \subseteq {w \in Workers : phase'[w] # "down"},
         given' \in Nat, faults' \in Nat,
         \A w \in Services : Dead(w) => Dead(w)'
  PROVE  ControlInv'
<1>1. ControlTypeOK'
  BY DEF ControlInv, ControlTypeOK
<1>2. Shaped(todo') /\ OnceEach(todo')
  BY DEF ControlInv
<1>3. OldIsReplaced' /\ NoneReplaced'
  BY DEF ControlInv, OldIsReplaced, NoneReplaced, AtStep
<1>4. SpawnsReady'
  <2>1. Ready \subseteq Ready'
    BY DEF Ready
  <2>2. \A q : Waits(q, Ready) => Waits(q, Ready')
    BY <2>1 DEF Waits
  <2> QED
    BY <2>2 DEF ControlInv, SpawnsReady
<1> QED
  BY <1>1, <1>2, <1>3, <1>4 DEF ControlInv

\* Of what the processes do on their own, only a stop job ends a serving loop,
\* and that process is still there.
LEMMA WorkDown == TypeOK /\ Work => DownKept
<1> SUFFICES ASSUME TypeOK, Work PROVE DownKept
  OBVIOUS
<1>1. phase \in [Workers -> {"down", "up", "joining"}]
  BY DEF TypeOK
<1>2. ASSUME UNCHANGED phase PROVE DownKept
  BY <1>2 DEF DownKept
<1>3. ASSUME NEW s \in Services, ReceivePill(s) PROVE DownKept
  BY <1>1, <1>3, WorkerNames DEF ReceivePill, DownKept
<1>4. ASSUME NEW j \in Jobs, Upload(j) \/ Submit(j) PROVE DownKept
  BY <1>2, <1>4 DEF Upload, Submit
<1>5. ASSUME NEW s \in Services, Receive(s) PROVE DownKept
  BY <1>2, <1>5 DEF Receive
<1>6. ASSUME NEW s \in Services, NEW t \in Threads, Begin(s, t) \/ Handle(s, t) \/ Send(s, t)
      PROVE DownKept
  BY <1>2, <1>6 DEF Begin, Handle, HandleQm, RemoveFile, HandleDetect, HandleParse, Send
<1>7. ASSUME Quiescent PROVE DownKept
  BY <1>2, <1>7 DEF Quiescent, vars
<1> QED
  BY <1>3, <1>4, <1>5, <1>6, <1>7 DEF Work

LEMMA WorkControl == TypeOK /\ ControlInv /\ Work => ControlInv'
<1> SUFFICES ASSUME TypeOK, ControlInv, Work PROVE ControlInv'
  OBVIOUS
<1>1. UNCHANGED <<todo, command, running, booting, old, given, faults>>
  BY DEF Work, control
<1>2. DownKept
  BY WorkDown
<1>3. ControlTypeOK
  BY DEF ControlInv
<1> QED
  BY <1>1, <1>2, <1>3, WorkerNames, ControlKept DEF DownKept, ControlTypeOK, Dead

LEMMA DeathControl ==
  ASSUME TypeOK, ControlInv, NEW w \in Workers,
         phase' = [phase EXCEPT ![w] = "down"], old' = old \ {w},
         UNCHANGED <<todo, command, running, booting, given>>, faults' \in Nat
  PROVE  ControlInv'
<1>1. ControlTypeOK
  BY DEF ControlInv
<1>2. phase \in [Workers -> {"down", "up", "joining"}]
  BY DEF TypeOK
<1>3. old' \subseteq {v \in Workers : phase'[v] # "down"}
  BY <1>1, <1>2 DEF ControlTypeOK
<1>4. \A v \in Services : Dead(v) => Dead(v)'
  BY <1>2, WorkerNames DEF Dead
<1> QED
  BY <1>1, <1>3, <1>4, ControlKept DEF ControlTypeOK

LEMMA ProcessControl ==
  ASSUME TypeOK, ControlInv
  PROVE  /\ \A w \in Workers : Boot(w) \/ Fault(w) => ControlInv'
         /\ \A s \in Services : Leave(s) => ControlInv'
<1>1. ControlTypeOK
  BY DEF ControlInv
<1>2. phase \in [Workers -> {"down", "up", "joining"}]
  BY DEF TypeOK
<1>3. ASSUME NEW w \in Workers, Fault(w) PROVE ControlInv'
  <2>1. /\ faults' = faults + 1 /\ old' = old \ {w}
        /\ UNCHANGED <<todo, command, running, booting, given>>
        /\ phase' = [phase EXCEPT ![w] = "down"]
    BY <1>3 DEF Fault, Crash, Die
  <2>2. faults' \in Nat
    BY <1>1, <2>1 DEF ControlTypeOK
  <2> QED
    BY <2>1, <2>2, DeathControl
<1>4. ASSUME NEW s \in Services, Leave(s) PROVE ControlInv'
  BY <1>1, <1>4, WorkerNames, DeathControl DEF Leave, Exit, ControlTypeOK
<1>5. ASSUME NEW w \in Workers, Boot(w) PROVE ControlInv'
  <2>1. phase' = phase \/ phase' = [phase EXCEPT ![w] = "up"]
    BY <1>5 DEF Boot, Start, vars
  <2>2. \A v \in Workers : v # w => phase'[v] = phase[v]
    BY <1>2, <2>1
  <2>3. phase[w] # "down" => phase'[w] # "down"
    BY <1>2, <2>1
  <2>4. old' \subseteq {v \in Workers : phase'[v] # "down"}
    BY <1>1, <1>5, <2>2, <2>3 DEF Boot, ControlTypeOK
  <2>5. \A v \in Services : Dead(v) => Dead(v)'
    BY <1>5, <2>2, WorkerNames DEF Dead, Boot
  <2> QED
    BY <1>1, <1>5, <2>4, <2>5, ControlKept DEF Boot, ControlTypeOK
<1> QED
  BY <1>3, <1>4, <1>5

----------------------------------------------------------------------------
(* Lists that begin *)

LEMMA CommandControl ==
  ASSUME ControlInv, NEW c \in Commands, Command(c)
  PROVE  ControlInv'
<1>1. old = {}
  BY OldAtMark DEF ControlInv, Command
<1>2. /\ Steps(c) \in Seq(SysStep) /\ Shaped(Steps(c)) /\ OnceEach(Steps(c))
      /\ c.type # "Start" => Waits(Steps(c), Ready)
      /\ c.type \in {"Start", "Stop", "Restart"}
  BY StepsAre
<1>3. todo' = Steps(c) /\ command' = c.type /\ Ready' = Ready
  BY DEF Command, vars, Ready, Dead
<1>4. ControlTypeOK'
  BY <1>1, <1>2, <1>3 DEF ControlInv, ControlTypeOK, Command, SysStep
<1>5. old' = {}
  BY <1>1 DEF Command
<1> QED
  BY <1>2, <1>3, <1>4, <1>5 DEF ControlInv, OldIsReplaced, NoneReplaced, SpawnsReady

LEMMA WatchControl ==
  ASSUME ControlInv, NEW w \in Workers, Watch(w)
  PROVE  ControlInv'
<1> DEFINE steps == <<<<"spawn", w>>, <<"revived", w>>>>
<1>1. old = {}
  BY OldAtMark DEF ControlInv, Watch
<1>2. /\ <<>> \in Seq(SysStep) /\ Shaped(<<>>)
      /\ <<"spawn", w>> \in SysStep /\ <<"revived", w>> \in SysStep
  BY DEF SysStep, Shaped
<1>3. steps \in Seq(SysStep) /\ Shaped(steps) /\ Len(steps) = 2
  <2>1. steps \o <<>> = steps /\ Len(steps) = 2
    OBVIOUS
  <2>2. steps \o <<>> \in Seq(SysStep) /\ Shaped(steps \o <<>>)
    BY <1>2, RestartShaped
  <2> QED
    BY <2>1, <2>2
<1>4. \A i \in 1..2 : i = 1 \/ i = 2
  OBVIOUS
<1>5. steps[1] = <<"spawn", w>> /\ steps[2] = <<"revived", w>>
  OBVIOUS
<1> HIDE DEF steps
<1>6. OnceEach(steps)
  BY <1>3, <1>4, <1>5 DEF OnceEach
<1>7. Ready' = Ready /\ w \in Ready
  BY DEF Watch, vars, Ready, Dead
<1>8. Waits(steps, Ready)
  BY <1>3, <1>4, <1>5, <1>7 DEF Waits
<1>9. ControlTypeOK'
  BY <1>1, <1>3 DEF ControlInv, ControlTypeOK, Watch, SysStep, steps, vars
<1>10. old' = {} /\ todo' = steps
  BY <1>1 DEF Watch, steps
<1> QED
  BY <1>3, <1>6, <1>7, <1>8, <1>9, <1>10
     DEF ControlInv, OldIsReplaced, NoneReplaced, SpawnsReady

----------------------------------------------------------------------------
(* Steps off the list *)

LEMMA PopControl ==
  ASSUME todo \in Seq(SysStep), todo # <<>>, Shaped(todo), OnceEach(todo), todo' = Tail(todo)
  PROVE  todo' \in Seq(SysStep) /\ Shaped(todo') /\ OnceEach(todo')
BY TailFacts, TailShaped, TailOnce

\* Outside a start, what is left stays waited for when a step of worker w has
\* been taken and the dead are the same, or w has left.
LEMMA PopReady ==
  ASSUME todo \in Seq(SysStep), todo # <<>>, SpawnsReady,
         NEW op, NEW w, Head(todo) = <<op, w>>, op # "wait" \/ w \in Ready,
         todo' = Tail(todo), command' = command, Ready \subseteq Ready'
  PROVE  SpawnsReady'
<1>1. CASE command = "Start"
  BY <1>1 DEF SpawnsReady
<1>2. CASE command # "Start"
  <2>1. Waits(todo, Ready)
    BY <1>2 DEF SpawnsReady
  <2>2. \A v : Head(todo) = <<"wait", v>> => v \in Ready'
    OBVIOUS
  <2> DEFINE next == Ready'
  <2>3. Ready \subseteq next /\ \A v : Head(todo) = <<"wait", v>> => v \in next
    BY <2>2
  <2> HIDE DEF next
  <2>4. Waits(Tail(todo), next)
    BY <2>1, <2>3, TailWaits
  <2> QED
    BY <2>4 DEF SpawnsReady, next
<1> QED
  BY <1>1, <1>2

LEMMA SpawnControl ==
  ASSUME TypeOK, ControlInv, NEW w \in Workers, Spawn(w)
  PROVE  ControlInv'
<1>1. /\ todo \in Seq(SysStep) /\ todo # <<>> /\ Head(todo) = <<"spawn", w>>
      /\ todo' = Tail(todo) /\ Shaped(todo) /\ OnceEach(todo)
      /\ UNCHANGED <<command, given, faults, running, vars>>
      /\ booting' = booting \union {w}
      /\ old' = IF phase[w] # "down" THEN old \union {w} ELSE old
  BY DEF Spawn, Doing, ControlInv, ControlTypeOK, SysStep
<1>2. old = {}
  BY <1>1, OldAtMark DEF ControlInv
<1>3. phase' = phase
  BY <1>1 DEF vars
<1>4. todo' \in Seq(SysStep) /\ Shaped(todo') /\ OnceEach(todo')
  BY <1>1, PopControl
<1>5. ControlTypeOK'
  <2>1. old' \subseteq {v \in Workers : phase'[v] # "down"}
    BY <1>1, <1>2, <1>3
  <2> QED
    BY <1>1, <1>4, <2>1 DEF ControlInv, ControlTypeOK, SysStep
<1>6. OldIsReplaced'
  <2>1. todo' # <<>> /\ Follows(<<"spawn", w>>, Head(todo'))
    <3>1. "spawn" \in Begins
      BY DEF Begins
    <3> QED
      BY <1>1, <3>1, TailShaped, SMTT(30)
  <2>2. Head(todo') = <<"started", w>> \/ Head(todo') = <<"revived", w>>
    BY <2>1 DEF Follows
  <2>3. old' \subseteq {w}
    BY <1>1, <1>2
  <2> QED
    BY <2>1, <2>2, <2>3 DEF OldIsReplaced, AtStep
<1>7. ASSUME command # "Start"
      PROVE  old' \intersect Services = {} /\ Waits(todo', Ready')
  <2>1. Waits(todo, Ready)
    BY <1>7 DEF ControlInv, SpawnsReady
  <2>2. Waits(Tail(todo), Ready) /\ w \in Ready
    <3> DEFINE ready == Ready
    <3>1. Waits(todo, ready) /\ \A v : Head(todo) = <<"wait", v>> => v \in ready
      BY <1>1, <2>1
    <3> HIDE DEF ready
    <3>2. Waits(Tail(todo), ready) /\ (Head(todo)[1] = "spawn" => Head(todo)[2] \in ready)
      BY <1>1, <3>1, TailWaits
    <3> QED
      BY <1>1, <3>2 DEF ready
  <2>3. old' \intersect Services = {}
    BY <1>1, <1>2, <2>2 DEF Ready, Dead
  <2>4. Waits(todo', Ready')
    <3> DEFINE next == Ready'
    <3>1. Ready \subseteq next \union {w}
      BY <1>1, <1>3 DEF Ready, Dead
    <3> HIDE DEF next
    <3>2. \A i \in 1..Len(Tail(todo)) : Tail(todo)[i] # <<"spawn", w>>
      BY <1>1, TailOnce
    <3>3. Tail(todo) \in Seq({"spawn", "started", "revived", "pill", "wait"} \X Workers)
      BY <1>1, <1>4 DEF SysStep
    <3>4. Waits(Tail(todo), next)
      BY <2>2, <3>1, <3>2, <3>3, WaitsLess
    <3> QED
      BY <1>1, <3>4 DEF next
  <2> QED
    BY <2>3, <2>4
<1>8. NoneReplaced' /\ SpawnsReady'
  BY <1>1, <1>7 DEF NoneReplaced, SpawnsReady
<1> QED
  BY <1>4, <1>5, <1>6, <1>8 DEF ControlInv

LEMMA MarkControl ==
  ASSUME TypeOK, ControlInv, NEW w \in Workers, Started(w) \/ Revived(w)
  PROVE  ControlInv'
<1>1. PICK op \in {"started", "revived"} : Head(todo) = <<op, w>>
  BY DEF Started, Revived, Doing
<1>2. /\ todo \in Seq(SysStep) /\ todo # <<>> /\ todo' = Tail(todo)
      /\ Shaped(todo) /\ OnceEach(todo)
      /\ UNCHANGED <<command, given, faults, booting>>
      /\ running' \in {running, running \union {w}} /\ old' = old \ {w}
      /\ Replace(w)
  BY DEF Started, Revived, Doing, Replace, ControlInv, ControlTypeOK, SysStep
<1>3. old' = {}
  BY <1>1, <1>2, OldOnlyHead DEF ControlInv
<1>4. todo' \in Seq(SysStep) /\ Shaped(todo') /\ OnceEach(todo')
  BY <1>2, PopControl
<1>5. \A v \in Workers : phase[v] = "down" => phase'[v] = "down"
  <2>1. phase \in [Workers -> {"down", "up", "joining"}]
    BY DEF TypeOK
  <2>2. phase' = phase \/ phase' = [phase EXCEPT ![w] = "down"]
    BY <1>2 DEF Replace, Crash, Die, vars
  <2> QED
    BY <2>1, <2>2
<1>6. SpawnsReady'
  <2>1. Ready \subseteq Ready'
    BY <1>2, <1>5 DEF Ready, Dead
  <2>2. SpawnsReady /\ op # "wait" /\ command' = command
    BY <1>1, <1>2 DEF ControlInv
  <2> QED
    BY <1>1, <1>2, <2>1, <2>2, PopReady
<1>7. ControlTypeOK'
  BY <1>2, <1>3, <1>4 DEF ControlInv, ControlTypeOK, SysStep
<1> QED
  BY <1>3, <1>4, <1>6, <1>7 DEF ControlInv, OldIsReplaced, NoneReplaced

\* A step of a stop: it finds no one being replaced, and no one dies of it.
LEMMA StopControl ==
  ASSUME ControlInv, todo # <<>>, NEW op \in {"pill", "wait"}, NEW w \in Workers,
         Head(todo) = <<op, w>>,
         op # "wait" \/ w \in Ready, todo' = Tail(todo), phase' = phase,
         UNCHANGED <<command, booting, old, given, faults>>, running' \subseteq Workers
  PROVE  ControlInv'
<1>1. todo \in Seq(SysStep) /\ Shaped(todo) /\ OnceEach(todo) /\ SpawnsReady
  BY DEF ControlInv, ControlTypeOK, SysStep
<1>2. old = {}
  BY OldAtMark DEF ControlInv
<1>3. todo' \in Seq(SysStep) /\ Shaped(todo') /\ OnceEach(todo')
  BY <1>1, PopControl
<1>4. Ready' = Ready
  BY DEF Ready, Dead
<1>5. SpawnsReady'
  BY <1>1, <1>4, PopReady
<1>6. ControlTypeOK'
  BY <1>2, <1>3 DEF ControlInv, ControlTypeOK, SysStep
<1> QED
  BY <1>2, <1>3, <1>5, <1>6 DEF ControlInv, OldIsReplaced, NoneReplaced

LEMMA PillControl ==
  ASSUME ControlInv, NEW s \in Services, Pill(s)
  PROVE  ControlInv'
<1>1. /\ todo # <<>> /\ Head(todo) = <<"pill", s>> /\ todo' = Tail(todo) /\ phase' = phase
      /\ UNCHANGED <<command, booting, old, given, faults, running>>
  BY DEF Pill, Doing, SendStopJob
<1> QED
  BY <1>1, WorkerNames, StopControl DEF ControlInv, ControlTypeOK

LEMMA WaitControl ==
  ASSUME ControlInv, NEW w \in Workers, Wait(w)
  PROVE  ControlInv'
<1>1. /\ todo # <<>> /\ Head(todo) = <<"wait", w>> /\ todo' = Tail(todo) /\ phase' = phase
      /\ UNCHANGED <<command, booting, old, given, faults>> /\ running' = running \ {w}
      /\ w \in Ready
  BY DEF Wait, Doing, vars, Ready
<1> QED
  BY <1>1, StopControl DEF ControlInv, ControlTypeOK

LEMMA PassOverControl ==
  ASSUME ControlInv, NEW w \in Workers, PassOver(w)
  PROVE  ControlInv'
<1>1. /\ todo \in Seq(SysStep) /\ todo # <<>> /\ Head(todo) = <<"pill", w>>
      /\ Shaped(todo) /\ OnceEach(todo) /\ w \notin Services
      /\ todo' = Tail(Tail(todo))
      /\ UNCHANGED <<command, running, booting, old, given, faults, vars>>
  BY DEF PassOver, ControlInv, ControlTypeOK, SysStep
<1> DEFINE rest == Tail(todo)
<1>2. /\ rest \in Seq(SysStep) /\ Shaped(rest) /\ OnceEach(rest)
      /\ rest # <<>> /\ Follows(<<"pill", w>>, Head(rest))
  <2>1. "pill" \in Begins
    BY DEF Begins
  <2>2. rest \in Seq(SysStep) /\ OnceEach(rest)
    BY <1>1, TailFacts, TailOnce
  <2>3. Shaped(rest) /\ (Head(todo)[1] \in Begins => rest # <<>> /\ Follows(Head(todo), Head(rest)))
    BY <1>1, TailShaped
  <2>4. Head(todo)[1] \in Begins
    BY <1>1, <2>1
  <2>5. rest # <<>> /\ Follows(Head(todo), Head(rest))
    BY <2>3, <2>4
  <2> HIDE DEF rest
  <2> QED
    BY <1>1, <2>2, <2>3, <2>5
<1>3. Head(rest) = <<"wait", w>>
  BY <1>2 DEF Follows
<1>4. todo' \in Seq(SysStep) /\ Shaped(todo') /\ OnceEach(todo')
  <2> HIDE DEF rest
  <2>1. Tail(rest) \in Seq(SysStep) /\ Shaped(Tail(rest)) /\ OnceEach(Tail(rest))
    BY <1>2, TailFacts, TailShaped, TailOnce
  <2> QED
    BY <1>1, <2>1 DEF rest
<1>5. old = {}
  BY <1>1, OldAtMark DEF ControlInv
<1>6. Ready' = Ready /\ w \in Ready
  BY <1>1 DEF Ready, Dead, vars
<1>7. ASSUME command # "Start" PROVE Waits(todo', Ready')
  <2> DEFINE ready == Ready
  <2>1. Waits(todo, ready) /\ \A v : Head(todo) = <<"wait", v>> => v \in ready
    BY <1>1, <1>7 DEF ControlInv, SpawnsReady
  <2>2. w \in ready
    BY <1>6
  <2> HIDE DEF ready
  <2>3. Waits(rest, ready)
    BY <1>1, <2>1, TailWaits
  <2> HIDE DEF rest
  <2>4. \A v : Head(rest) = <<"wait", v>> => v \in ready
    BY <1>3, <2>2
  <2>5. Waits(Tail(rest), ready)
    BY <1>2, <2>3, <2>4, TailWaits
  <2> QED
    BY <1>1, <1>6, <2>5 DEF rest, ready
<1>8. ControlTypeOK'
  BY <1>1, <1>4, <1>5 DEF ControlInv, ControlTypeOK, SysStep
<1>9. old' = {} /\ SpawnsReady'
  BY <1>1, <1>5, <1>7 DEF SpawnsReady
<1> QED
  BY <1>4, <1>8, <1>9 DEF ControlInv, OldIsReplaced, NoneReplaced

----------------------------------------------------------------------------
(* The invariant, and what it is for *)

LEMMA InitControl == SystemInit => ControlInv
<1> SUFFICES ASSUME SystemInit PROVE ControlInv
  OBVIOUS
<1>1. /\ StartSteps("") \in Seq(SysStep) /\ Shaped(StartSteps("")) /\ OnceEach(StartSteps(""))
  BY StartStepsAre
<1> QED
  BY <1>1 DEF SystemInit, ControlInv, ControlTypeOK, SysStep, OldIsReplaced, NoneReplaced,
              SpawnsReady

LEMMA NextControl == TypeOK /\ ControlInv /\ [SystemNext]_sysVars => ControlInv'
<1> SUFFICES ASSUME TypeOK, ControlInv, [SystemNext]_sysVars PROVE ControlInv'
  OBVIOUS
<1>1. CASE Loop
  BY <1>1, SpawnControl, MarkControl, WatchControl, PassOverControl, WaitControl, PillControl
     DEF Loop
<1>2. CASE UNCHANGED sysVars
  <2>1. UNCHANGED <<phase, todo, command, running, booting, old, given, faults>>
    BY <1>2 DEF sysVars, vars, control
  <2> QED
    BY <2>1, WorkerNames, ControlKept DEF ControlInv, ControlTypeOK, Dead
<1> QED
  BY <1>1, <1>2, WorkControl, CommandControl, ProcessControl DEF SystemNext

\* A command runs through the workers once each, an old child of a worker stays
\* in reach until its successor may be spawned, and spawn meets a worker whose
\* old child is gone (supervisor.cpp:76-82, 105-113).
THEOREM ControlAlways == SystemSpec => [](TypeOK /\ ControlInv)
<1>1. SystemInit => TypeOK /\ ControlInv
  BY InitControl, InitType DEF SystemInit
<1>2. TypeOK /\ ControlInv /\ [SystemNext]_sysVars => (TypeOK /\ ControlInv)'
  BY NextControl, SystemSteps, NextType
<1> QED
  BY <1>1, <1>2, PTL DEF SystemSpec

\* The lists of steps, the marks and the set of processes being replaced are
\* of their types; above all, whoever is being replaced is still there
\* (supervisor.cpp:105): its death, of whatever cause, is noticed.
THEOREM ControlTypeOKAlways == SystemSpec => []ControlTypeOK
<1>1. TypeOK /\ ControlInv => ControlTypeOK
  BY DEF ControlInv
<1> QED
  BY <1>1, ControlAlways, PTL

\* Which steps may lose a job that was submitted: a crash, or the end of a
\* service that is being replaced.
LEMMA DeathLoses ==
  ASSUME TypeOK, NEW w \in Workers, Crash(w), NEW j \in Jobs,
         fate[j] = "accepted", fate'[j] = "lost"
  PROVE  w \in Services
<1>1. fate' = [i \in Jobs |-> IF i \in HeldBy(w) THEN "lost" ELSE fate[i]]
  BY DEF Crash, Die
<1>2. j \in HeldBy(w)
  BY <1>1
<1>3. CASE w = "ingestd"
  BY <1>2, <1>3 DEF HeldBy
<1> QED
  BY <1>3, WorkerNames

LEMMA WorkLoses ==
  ASSUME TypeOK, Work, NEW j \in Jobs, fate[j] = "accepted"
  PROVE  fate'[j] # "lost"
<1>1. fate \in [Jobs -> Fates]
  BY DEF TypeOK
<1>2. CASE UNCHANGED fate
  BY <1>2
<1>3. ASSUME NEW i \in Jobs, Upload(i) \/ Submit(i) PROVE fate'[j] # "lost"
  BY <1>1, <1>3 DEF Upload, Submit
<1>4. ASSUME NEW s \in Services, Receive(s) \/ ReceivePill(s) PROVE fate'[j] # "lost"
  BY <1>2, <1>4 DEF Receive, ReceivePill
<1>5. ASSUME NEW s \in Services, NEW t \in Threads, Begin(s, t) \/ Send(s, t)
      PROVE fate'[j] # "lost"
  BY <1>2, <1>5 DEF Begin, Send
<1>6. ASSUME NEW t \in Threads, HandleQm(t) PROVE fate'[j] # "lost"
  <2>1. PICK job : fate' = [fate EXCEPT ![job.job_id] = Conclusion(job, @)]
    BY <1>6 DEF HandleQm
  <2>2. \A now : Conclusion(job, now) \in {"failed", "done", now}
    BY DEF Conclusion
  <2> QED
    BY <1>1, <2>1, <2>2
<1>7. ASSUME NEW t \in Threads, HandleDetect(t) PROVE fate'[j] # "lost"
  <2>1. \/ UNCHANGED fate
        \/ fate' = [fate EXCEPT ![thread["detect"][t].job.job_id] = "dropped"]
    BY <1>7 DEF HandleDetect
  <2> QED
    BY <1>1, <2>1
<1>8. ASSUME NEW t \in Threads, HandleParse(t) PROVE fate'[j] # "lost"
  BY <1>2, <1>8 DEF HandleParse
<1>9. ASSUME NEW t \in Threads, RemoveFile(t) PROVE fate'[j] # "lost"
  BY <1>2, <1>9 DEF RemoveFile
<1>10. CASE Quiescent
  BY <1>2, <1>10 DEF Quiescent, vars
<1> QED
  BY <1>3, <1>4, <1>5, <1>6, <1>7, <1>8, <1>9, <1>10 DEF Work, Handle

LEMMA StepLoses ==
  ASSUME TypeOK, ControlInv, [SystemNext]_sysVars,
         NEW j \in Jobs, fate[j] = "accepted", fate'[j] = "lost"
  PROVE  command = "Start" \/ faults' # faults
<1>1. ASSUME NEW w \in Workers, Started(w) \/ Revived(w)
      PROVE  command = "Start"
  <2>1. w \in old /\ Crash(w)
    BY <1>1 DEF Started, Revived, Replace, vars
  <2>2. w \in Services
    BY <2>1, DeathLoses
  <2> QED
    BY <2>1, <2>2 DEF ControlInv, NoneReplaced
<1>2. ASSUME NEW w \in Workers, Fault(w)
      PROVE  faults' # faults
  BY <1>2 DEF Fault, ControlInv, ControlTypeOK
<1>3. ~Work
  BY WorkLoses
<1>4. fate' # fate
  OBVIOUS
<1>5. ASSUME NEW w \in Workers,
             Spawn(w) \/ Watch(w) \/ PassOver(w) \/ Wait(w) \/ Boot(w)
      PROVE  FALSE
  BY <1>4, <1>5 DEF Spawn, Watch, PassOver, Wait, Boot, Start, vars
<1>6. ASSUME NEW s \in Services, Pill(s) \/ Leave(s)
      PROVE  FALSE
  BY <1>4, <1>6 DEF Pill, SendStopJob, Leave, Exit
<1>7. ASSUME NEW c \in Commands, Command(c)
      PROVE  FALSE
  BY <1>4, <1>7 DEF Command, vars
<1>8. CASE UNCHANGED sysVars
  BY <1>4, <1>8 DEF sysVars, vars
<1> QED
  BY <1>1, <1>2, <1>3, <1>5, <1>6, <1>7, <1>8 DEF SystemNext, Loop

\* A stop and a restart lose no job that was submitted: a child is dead before
\* its successor is spawned (supervisor.cpp:113), whatever crashes, boots late
\* or is sent its stop job twice; only a start over running services and a
\* crash take jobs with them.
THEOREM RestartKeepsJobsAlways == SystemSpec => RestartKeepsJobs
<1>1. TypeOK /\ ControlInv /\ [SystemNext]_sysVars =>
        [\A j \in Jobs :
           fate[j] = "accepted" /\ fate'[j] = "lost" =>
             command = "Start" \/ faults' # faults]_sysVars
  BY StepLoses
<1> QED
  BY <1>1, ControlAlways, PTL DEF SystemSpec, RestartKeepsJobs
=============================================================================
