-------------------------- MODULE BootstrapProofs --------------------------
(***************************************************************************)
(* Theorems about Bootstrap for any number of clients and crashes.         *)
(***************************************************************************)
EXTENDS Bootstrap, TLAPS

\* What the lock's holder field says of the processes that hold it.
ProcType ==
  /\ client \in [Clients -> ClientState]
  /\ sup \in [Clients -> SupState]

HolderKnown ==
  /\ \A s \in Clients : Holds(s) => lock = <<"sup", s>>
  /\ \A c \in Clients : client[c] = "locked" => lock = <<"cli", c>>

IInv == ProcType /\ HolderKnown

LEMMA HolderIsOne == IInv => OneSupervisor
BY DEF IInv, HolderKnown, OneSupervisor

\* A step of client c that neither enters nor leaves the probe's lock.
LEMMA ClientMoves ==
  ASSUME IInv, NEW c \in Clients, NEW to \in ClientState, GoClient(c, to),
         to # "locked", UNCHANGED <<sup, lock>>
  PROVE  IInv'
BY DEF IInv, ProcType, HolderKnown, Holds, GoClient

\* A step of supervisor s that keeps what it holds.
LEMMA SupMoves ==
  ASSUME IInv, NEW s \in Clients, NEW to \in SupState, GoSup(s, to),
         UNCHANGED <<client, lock>>,
         to \in {"write", "openCmd", "openReply", "run", "busy"} => Holds(s)
  PROVE  IInv'
BY DEF IInv, ProcType, HolderKnown, Holds, GoSup

LEMMA InitHolder == Init => IInv
BY DEF Init, IInv, ProcType, HolderKnown, Holds, ClientState, SupState

LEMMA StepHolder == IInv /\ [Next]_vars => IInv'
<1> SUFFICES ASSUME IInv, [Next]_vars PROVE IInv'
  OBVIOUS
<1> USE DEF files, memory, history
<1>1. ASSUME NEW c \in Clients, Begin(c) PROVE IInv'
  BY <1>1, ClientMoves DEF Begin, ClientState
<1>2. ASSUME NEW c \in Clients, ClientStep(c) PROVE IInv'
  <2>1. CASE Probe(c)
    <3>1. CASE lock' = lock
      <4>1. GoClient(c, "removeCmd") \/ GoClient(c, "open")
        BY <2>1, <3>1 DEF Probe, Free
      <4> QED
        BY <2>1, <3>1, <4>1, ClientMoves DEF Probe, ClientState
    <3>2. CASE lock' # lock
      <4>1. lock = Free /\ lock' = <<"cli", c>> /\ GoClient(c, "locked") /\ UNCHANGED sup
        BY <2>1, <3>2 DEF Probe
      <4> QED
        BY <4>1 DEF IInv, ProcType, HolderKnown, Holds, GoClient, Free, ClientState
    <3> QED
      BY <3>1, <3>2
  <2>2. CASE Unprobe(c)
    BY <2>2 DEF Unprobe, IInv, ProcType, HolderKnown, Holds, GoClient, Free, ClientState
  <2>3. CASE Open(c)
    <3>1. GoClient(c, "ping") \/ GoClient(c, "removeCmd")
      BY <2>3 DEF Open
    <3> QED
      BY <2>3, <3>1, ClientMoves DEF Open, ClientState
  <2>4. CASE Ping(c)
    BY <2>4, ClientMoves DEF Ping, ClientState
  <2>5. CASE Pong(c)
    BY <2>5, ClientMoves DEF Pong, ClientState
  <2>6. CASE Timeout(c)
    BY <2>6, ClientMoves DEF Timeout, ClientState
  <2>7. CASE RemoveCmd(c)
    BY <2>7, ClientMoves DEF RemoveCmd, ClientState
  <2>8. CASE RemoveReply(c)
    BY <2>8, ClientMoves DEF RemoveReply, ClientState
  <2>9. CASE Spawn(c)
    BY <2>9 DEF Spawn, IInv, ProcType, HolderKnown, Holds, GoSup, GoClient, ClientState, SupState
  <2>10. CASE Send(c)
    BY <2>10, ClientMoves DEF Send, ClientState
  <2> QED
    BY <1>2, <2>1, <2>2, <2>3, <2>4, <2>5, <2>6, <2>7, <2>8, <2>9, <2>10 DEF ClientStep
<1>3. ASSUME NEW s \in Clients, SupStep(s) PROVE IInv'
  <2>1. CASE Check(s)
    <3>1. PICK to \in {"create", "lock"} : GoSup(s, to)
      BY <2>1 DEF Check
    <3> QED
      BY <2>1, <3>1, SupMoves DEF Check, SupState
  <2>2. CASE Create(s)
    BY <2>2, SupMoves DEF Create, SupState
  <2>3. CASE Lock(s)
    BY <2>3 DEF Lock, IInv, ProcType, HolderKnown, Holds, GoSup, Free, SupState
  <2>4. CASE Write(s)
    BY <2>4, SupMoves DEF Write, SupState, Holds
  <2>5. CASE OpenCmd(s)
    BY <2>5, SupMoves DEF OpenCmd, SupState, Holds
  <2>6. CASE OpenReply(s)
    BY <2>6, SupMoves DEF OpenReply, SupState, Holds
  <2>7. CASE PollPing(s)
    BY <2>7 DEF PollPing, IInv, ProcType, HolderKnown, Holds
  <2>8. CASE PollCommand(s)
    BY <2>8, SupMoves DEF PollCommand, SupState, Holds
  <2>9. CASE Finish(s)
    BY <2>9, SupMoves DEF Finish, SupState, Holds
  <2> QED
    BY <1>3, <2>1, <2>2, <2>3, <2>4, <2>5, <2>6, <2>7, <2>8, <2>9 DEF SupStep
<1>4. ASSUME NEW s \in Clients, SupDies(s) PROVE IInv'
  BY <1>4 DEF SupDies, Unlock, GoSup, IInv, ProcType, HolderKnown, Holds, SupState
<1>5. ASSUME NEW c \in Clients, Interrupt(c) PROVE IInv'
  BY <1>5 DEF Interrupt, Unlock, GoClient, IInv, ProcType, HolderKnown, Holds, ClientState
<1>6. CASE UNCHANGED vars
  BY <1>6 DEF vars, IInv, ProcType, HolderKnown, Holds
<1> QED
  BY <1>1, <1>2, <1>3, <1>4, <1>5, <1>6 DEF Next, Quiescent

\* At most one supervisor gets past create_and_lock (pid_file.cpp:41), for any
\* number of clients that start one at once, and through any crashes.
THEOREM OneSupervisorAlways == Spec => []OneSupervisor
<1>1. Init => IInv
  BY InitHolder
<1>2. IInv /\ [Next]_vars => IInv'
  BY StepHolder
<1>3. IInv => OneSupervisor
  BY HolderIsOne
<1> QED
  BY <1>1, <1>2, <1>3, PTL DEF Spec

----------------------------------------------------------------------------
(* Until two invocations overlap                                           *)

Msg == Clients \union {"ping", "pong"}
Names == [cmd : Nat, reply : Nat]

\* The part of TypeOK that the queues need.
MemType ==
  /\ queues \in Seq(Seq(Msg))
  /\ named \in Names
  /\ opened \in [Process -> Names]
  /\ pidFile \in Clients \union {Nobody}
  /\ overlap \in BOOLEAN

Alive(s) == sup[s] \notin {"none", "dead"}
BeforeSpawn(c) == Active(c) /\ client[c] # "send"
Removing(c) == client[c] \in {"locked", "removeCmd", "removeReply", "spawn"}

\* One invocation at a time, one supervisor at a time, which is up before the
\* next invocation begins and gone before its queues are removed.
Alone ==
  /\ \A c, d \in Clients : Active(c) /\ Active(d) => c = d
  /\ \A s, t \in Clients : Alive(s) /\ Alive(t) => s = t
  /\ \A c, s \in Clients : BeforeSpawn(c) => ~Starting(s)
  /\ \A c, s \in Clients : Removing(c) => ~Alive(s)

\* What the supervisor has written and opened is what clients will find.
Found ==
  /\ \A s \in Clients :
       sup[s] \in {"openCmd", "openReply", "run", "busy"} => pidFile = s
  /\ \A s \in Clients :
       sup[s] \in {"openReply", "run", "busy"} =>
         named.cmd # 0 /\ opened[<<"sup", s>>].cmd = named.cmd
  /\ \A s \in Clients :
       Serves(s) => named.reply # 0 /\ opened[<<"sup", s>>].reply = named.reply

QInv == IInv /\ MemType /\ (~overlap => Alone /\ Found)

\* A pair of handles is its two fields.
LEMMA NamesEqual ==
  ASSUME NEW a \in Names, NEW b \in Names, a.cmd = b.cmd, a.reply = b.reply
  PROVE  a = b
BY DEF Names

LEMMA NamesUpdate ==
  ASSUME NEW a \in Names, NEW n \in Nat
  PROVE  /\ [a EXCEPT !.cmd = n] \in Names
         /\ [a EXCEPT !.cmd = n].cmd = n /\ [a EXCEPT !.cmd = n].reply = a.reply
         /\ [a EXCEPT !.reply = n] \in Names
         /\ [a EXCEPT !.reply = n].reply = n /\ [a EXCEPT !.reply = n].cmd = a.cmd
BY DEF Names

LEMMA QInvImplies == QInv => NoSplit /\ PidNamesServer
<1> SUFFICES ASSUME QInv, ~overlap, NEW s \in Clients, Serves(s)
             PROVE  opened[<<"sup", s>>] = named /\ pidFile = s
  BY DEF NoSplit, PidNamesServer
<1>1. opened[<<"sup", s>>] \in Names /\ named \in Names
  BY DEF QInv, MemType, Process
<1>2. pidFile = s /\ opened[<<"sup", s>>].cmd = named.cmd /\ opened[<<"sup", s>>].reply = named.reply
  BY DEF QInv, Found, Serves
<1> QED
  BY <1>1, <1>2, NamesEqual

\* Appending to a queue, taking from one, and a new queue.
LEMMA QueuesUpdate ==
  ASSUME NEW qs \in Seq(Seq(Msg)), NEW q \in Nat, NEW msg \in Msg
  PROVE  /\ [qs EXCEPT ![q] = Append(@, msg)] \in Seq(Seq(Msg))
         /\ qs[q] # <<>> => [qs EXCEPT ![q] = Tail(@)] \in Seq(Seq(Msg))
         /\ Append(qs, <<>>) \in Seq(Seq(Msg))
         /\ Append(qs, <<msg>>) \in Seq(Seq(Msg))
         /\ Len(qs) + 1 \in Nat \ {0}
<1>1. CASE q \in 1..Len(qs)
  <2>1. qs[q] \in Seq(Msg)
    BY <1>1
  <2> QED
    BY <1>1, <2>1
<1>2. CASE q \notin 1..Len(qs)
  <2>1. [qs EXCEPT ![q] = Append(@, msg)] = qs
    BY <1>2
  <2>2. [qs EXCEPT ![q] = Tail(@)] = qs
    BY <1>2
  <2>3. Append(qs, <<>>) \in Seq(Seq(Msg)) /\ Append(qs, <<msg>>) \in Seq(Seq(Msg))
    OBVIOUS
  <2>4. Len(qs) + 1 \in Nat \ {0}
    OBVIOUS
  <2> QED
    BY <2>1, <2>2, <2>3, <2>4, Zenon
<1> QED
  BY <1>1, <1>2

\* The queues after a supervisor opened or created one of them.
LEMMA OpenMem ==
  ASSUME MemType, NEW s \in Clients, NEW which \in {"cmd", "reply"}, OpenOrCreate(s, which)
  PROVE  /\ queues' \in Seq(Seq(Msg))
         /\ named' \in Names /\ opened' \in [Process -> Names]
         /\ named'[which] # 0 /\ opened'[<<"sup", s>>][which] = named'[which]
         /\ named[which] # 0 => named' = named
         /\ \A w \in {"cmd", "reply"} \ {which} :
              named'[w] = named[w] /\ opened'[<<"sup", s>>][w] = opened[<<"sup", s>>][w]
         /\ \A p \in Process \ {<<"sup", s>>} : opened'[p] = opened[p]
<1> DEFINE q == IF named[which] = 0 THEN Len(queues) + 1 ELSE named[which]
           p == <<"sup", s>>
<1>1. p \in Process /\ opened[p] \in Names /\ named \in Names
  BY DEF MemType, Process
<1>2. q \in Nat \ {0} /\ Append(queues, <<>>) \in Seq(Seq(Msg)) /\ queues \in Seq(Seq(Msg))
  BY <1>1 DEF MemType, Names
<1>3. /\ queues' = IF named[which] = 0 THEN Append(queues, <<>>) ELSE queues
      /\ named' = [named EXCEPT ![which] = q]
      /\ opened' = [opened EXCEPT ![p][which] = q]
  BY DEF OpenOrCreate
<1> HIDE DEF q, p
<1>4. named' \in Names /\ named'[which] = q
      /\ \A w \in {"cmd", "reply"} \ {which} : named'[w] = named[w]
  BY <1>1, <1>2, <1>3 DEF Names
<1>5. opened' = [opened EXCEPT ![p] = [opened[p] EXCEPT ![which] = q]]
  BY <1>3
<1>6. opened'[p] = [opened[p] EXCEPT ![which] = q] /\ \A x \in Process \ {p} : opened'[x] = opened[x]
  BY <1>1, <1>5 DEF MemType
<1>7. opened'[p] \in Names /\ opened'[p][which] = q
      /\ \A w \in {"cmd", "reply"} \ {which} : opened'[p][w] = opened[p][w]
  BY <1>1, <1>2, <1>6 DEF Names
<1>8. opened' \in [Process -> Names]
  BY <1>1, <1>5, <1>6, <1>7 DEF MemType
<1>9. named[which] # 0 => named' = named
  BY <1>1, <1>3 DEF q, Names
<1>10. queues' \in Seq(Seq(Msg))
  BY <1>2, <1>3
<1> QED
  BY <1>2, <1>4, <1>6, <1>7, <1>8, <1>9, <1>10 DEF p

LEMMA CloseMem ==
  ASSUME MemType, NEW p \in Process, Close(p)
  PROVE  /\ opened' \in [Process -> Names]
         /\ \A x \in Process \ {p} : opened'[x] = opened[x]
BY DEF MemType, Close, NoQueues, Names

LEMMA InitQ == Init => QInv
<1> SUFFICES ASSUME Init PROVE QInv
  OBVIOUS
<1>1. IInv
  BY InitHolder
<1>2. MemType
  <2>1. NoQueues \in Names
    BY DEF NoQueues, Names
  <2>2. queues = <<>> /\ <<>> \in Seq(Seq(Msg))
    BY DEF Init
  <2>3. opened \in [Process -> Names] /\ named \in Names
    BY <2>1 DEF Init
  <2> QED
    BY <2>2, <2>3 DEF Init, MemType
<1>3. Alone /\ Found
  BY DEF Init, Alone, Found, Active, Alive, BeforeSpawn, Starting, Removing, Serves
<1> QED
  BY <1>1, <1>2, <1>3 DEF QInv

LEMMA StepMem == QInv /\ [Next]_vars => MemType'
<1> SUFFICES ASSUME QInv, [Next]_vars PROVE MemType'
  OBVIOUS
<1> USE DEF files, memory, history
<1>0. MemType /\ overlap \in BOOLEAN
  BY DEF QInv, MemType
<1>1. ASSUME NEW c \in Clients, Begin(c) PROVE MemType'
  BY <1>0, <1>1 DEF Begin, MemType
<1>2. ASSUME NEW c \in Clients, ClientStep(c) PROVE MemType'
  <2> DEFINE p == <<"cli", c>>
  <2>0. p \in Process /\ opened[p] \in Names /\ opened[p].cmd \in Nat /\ opened[p].reply \in Nat
    BY <1>0 DEF Process, MemType, Names
  <2> HIDE DEF p
  <2>1. CASE Probe(c) \/ Unprobe(c) \/ Spawn(c)
    BY <1>0, <2>1 DEF Probe, Unprobe, Spawn, MemType
  <2>2. CASE Open(c)
    <3>1. opened' = [opened EXCEPT ![p] = named] \/ opened' = opened
      BY <2>2 DEF Open, p
    <3> QED
      BY <1>0, <2>0, <2>2, <3>1 DEF Open, MemType
  <2>3. CASE Ping(c)
    <3>1. queues' = [queues EXCEPT ![opened[p].cmd] = Append(@, "ping")]
      BY <2>3 DEF Ping, Put, p
    <3>2. queues' \in Seq(Seq(Msg))
      BY <1>0, <2>0, <3>1, QueuesUpdate DEF MemType, Msg
    <3> QED
      BY <1>0, <2>3, <3>2 DEF Ping, MemType
  <2>4. CASE Pong(c)
    <3>1. queues' = [queues EXCEPT ![opened[p].reply] = Tail(@)] /\ queues[opened[p].reply] # <<>>
      BY <2>4 DEF Pong, p
    <3>2. queues' \in Seq(Seq(Msg))
      <4>1. "ping" \in Msg /\ queues \in Seq(Seq(Msg))
        BY <1>0 DEF Msg, MemType
      <4> QED
        BY <4>1, <2>0, <3>1, QueuesUpdate
    <3>3. opened' \in [Process -> Names]
      BY <1>0, <2>0, <2>4, CloseMem DEF Pong, p
    <3> QED
      BY <1>0, <2>4, <3>2, <3>3 DEF Pong, MemType
  <2>5. CASE Timeout(c)
    <3>1. opened' \in [Process -> Names]
      BY <1>0, <2>0, <2>5, CloseMem DEF Timeout, p
    <3> QED
      BY <1>0, <2>5, <3>1 DEF Timeout, MemType
  <2>6. CASE RemoveCmd(c)
    BY <1>0, <2>6 DEF RemoveCmd, MemType, Names
  <2>7. CASE RemoveReply(c)
    BY <1>0, <2>7 DEF RemoveReply, MemType, Names
  <2>8. CASE Send(c)
    <3>0. c \in Msg /\ queues \in Seq(Seq(Msg)) /\ named \in Names /\ named.cmd \in Nat
      BY <1>0 DEF Msg, MemType, Names
    <3>1. CASE named.cmd = 0
      <4>1. queues' = Append(queues, <<c>>) /\ named' = [named EXCEPT !.cmd = Len(queues) + 1]
        BY <2>8, <3>1 DEF Send
      <4>2. queues' \in Seq(Seq(Msg)) /\ named' \in Names
        BY <3>0, <4>1, QueuesUpdate, NamesUpdate
      <4> QED
        BY <1>0, <2>8, <4>2 DEF Send, MemType
    <3>2. CASE named.cmd # 0
      <4>1. queues' = [queues EXCEPT ![named.cmd] = Append(@, c)] /\ named' = named
        BY <2>8, <3>2 DEF Send, Put
      <4>2. queues' \in Seq(Seq(Msg))
        BY <3>0, <4>1, QueuesUpdate
      <4> QED
        BY <1>0, <2>8, <4>1, <4>2 DEF Send, MemType
    <3> QED
      BY <3>1, <3>2
  <2> QED
    BY <1>2, <2>1, <2>2, <2>3, <2>4, <2>5, <2>6, <2>7, <2>8 DEF ClientStep
<1>3. ASSUME NEW s \in Clients, SupStep(s) PROVE MemType'
  <2> DEFINE p == <<"sup", s>>
  <2>0. p \in Process /\ opened[p] \in Names /\ opened[p].cmd \in Nat /\ opened[p].reply \in Nat
    BY <1>0 DEF Process, MemType, Names
  <2> HIDE DEF p
  <2>1. CASE Check(s) \/ Create(s) \/ Lock(s) \/ Write(s) \/ Finish(s)
    BY <1>0, <2>1 DEF Check, Create, Lock, Write, Finish, MemType
  <2>2. CASE OpenCmd(s)
    BY <1>0, <2>2, OpenMem DEF OpenCmd, MemType
  <2>3. CASE OpenReply(s)
    BY <1>0, <2>3, OpenMem DEF OpenReply, MemType
  <2>4. CASE PollPing(s)
    <3> DEFINE taken == [queues EXCEPT ![opened[p].cmd] = Tail(@)]
    <3>0. "pong" \in Msg /\ queues \in Seq(Seq(Msg))
      BY <1>0 DEF Msg, MemType
    <3>1. taken \in Seq(Seq(Msg))
      BY <2>0, <2>4, <3>0, QueuesUpdate DEF PollPing, p
    <3>2. queues' = [taken EXCEPT ![opened[p].reply] = Append(@, "pong")]
      BY <2>4 DEF PollPing, p
    <3> HIDE DEF taken
    <3>3. queues' \in Seq(Seq(Msg))
      BY <2>0, <3>0, <3>1, <3>2, QueuesUpdate
    <3> QED
      BY <1>0, <2>4, <3>3 DEF PollPing, MemType
  <2>5. CASE PollCommand(s)
    <3>0. "pong" \in Msg /\ queues \in Seq(Seq(Msg))
      BY <1>0 DEF Msg, MemType
    <3>1. queues' = [queues EXCEPT ![opened[p].cmd] = Tail(@)] /\ queues[opened[p].cmd] # <<>>
      BY <2>5 DEF PollCommand, p
    <3>2. queues' \in Seq(Seq(Msg))
      BY <2>0, <3>0, <3>1, QueuesUpdate
    <3> QED
      BY <1>0, <2>5, <3>2 DEF PollCommand, MemType
  <2> QED
    BY <1>3, <2>1, <2>2, <2>3, <2>4, <2>5 DEF SupStep
<1>4. ASSUME NEW s \in Clients, SupDies(s) PROVE MemType'
  <2>1. <<"sup", s>> \in Process
    BY DEF Process
  <2> QED
    BY <1>0, <1>4, <2>1, CloseMem DEF SupDies, MemType
<1>5. ASSUME NEW c \in Clients, Interrupt(c) PROVE MemType'
  <2>1. <<"cli", c>> \in Process
    BY DEF Process
  <2> QED
    BY <1>0, <1>5, <2>1, CloseMem DEF Interrupt, MemType
<1>6. CASE UNCHANGED vars
  BY <1>0, <1>6 DEF vars, MemType
<1> QED
  BY <1>1, <1>2, <1>3, <1>4, <1>5, <1>6 DEF Next, Quiescent

\* What a step of client c that moves it to the state to does to Alone.
LEMMA AloneClient ==
  ASSUME ProcType, Alone, NEW c \in Clients, NEW to \in ClientState, GoClient(c, to),
         UNCHANGED sup, Active(c), to # "idle",
         to \notin {"send", "done"} => BeforeSpawn(c),
         to \in {"locked", "removeCmd", "removeReply", "spawn"} =>
           \A s \in Clients : ~Alive(s)
  PROVE  Alone'
<1>1. client' = [client EXCEPT ![c] = to] /\ client \in [Clients -> ClientState]
  BY DEF GoClient, ProcType
<1>2. \A d \in Clients : d # c => client'[d] = client[d]
  BY <1>1
<1>3. client'[c] = to
  BY <1>1
<1> QED
  BY <1>2, <1>3 DEF Alone, Active, Alive, BeforeSpawn, Removing, Starting

\* The same for a supervisor, which does not go back to starting.
LEMMA AloneSup ==
  ASSUME ProcType, Alone, NEW s \in Clients, NEW to \in SupState, GoSup(s, to),
         UNCHANGED client, Alive(s),
         to \in {"run", "busy", "dead"} \/ Starting(s)
  PROVE  Alone'
<1>1. sup' = [sup EXCEPT ![s] = to] /\ sup \in [Clients -> SupState]
  BY DEF GoSup, ProcType
<1>2. \A t \in Clients : t # s => sup'[t] = sup[t]
  BY <1>1
<1>3. sup'[s] = to
  BY <1>1
<1> QED
  BY <1>2, <1>3 DEF Alone, Active, Alive, BeforeSpawn, Removing, Starting

\* A step that leaves alone what a supervisor has written and opened.
LEMMA FoundKept ==
  ASSUME Found, UNCHANGED <<sup, pidFile, named>>,
         \A s \in Clients : opened'[<<"sup", s>>] = opened[<<"sup", s>>]
  PROVE  Found'
BY DEF Found, Serves

\* A step that changes nothing for a supervisor that is still alive after it.
LEMMA FoundWithout ==
  ASSUME \A s \in Clients : ~Alive(s)'
  PROVE  Found'
BY DEF Found, Alive, Serves

\* A step of supervisor s, the only one alive.
LEMMA FoundSup ==
  ASSUME ProcType, Alone, NEW s \in Clients, NEW to \in SupState, GoSup(s, to), Alive(s),
         to \in {"openCmd", "openReply", "run", "busy"} => pidFile' = s,
         to \in {"openReply", "run", "busy"} =>
           named'.cmd # 0 /\ opened'[<<"sup", s>>].cmd = named'.cmd,
         to \in {"run", "busy"} =>
           named'.reply # 0 /\ opened'[<<"sup", s>>].reply = named'.reply
  PROVE  Found'
<1>1. sup' = [sup EXCEPT ![s] = to] /\ sup \in [Clients -> SupState]
  BY DEF GoSup, ProcType
<1>2. \A t \in Clients : t # s => sup'[t] \in {"none", "dead"}
  BY <1>1 DEF Alone, Alive
<1>3. sup'[s] = to
  BY <1>1
<1> QED
  BY <1>2, <1>3 DEF Found, Serves

\* Before an invocation has spawned a supervisor none is starting, so if none
\* serves, none lives.
LEMMA NoneAlive ==
  ASSUME Alone, NEW c \in Clients, BeforeSpawn(c), \A s \in Clients : ~Serves(s)
  PROVE  \A s \in Clients : ~Alive(s)
BY DEF Alone, Alive, Starting, Serves

\* The client's steps.
LEMMA QuietClient ==
  ASSUME IInv, MemType, Alone, Found, NEW c \in Clients, ClientStep(c), ~overlap'
  PROVE  Alone' /\ Found'
<1> USE DEF files, memory, history
<1> DEFINE p == <<"cli", c>>
<1>0. ProcType /\ \A s \in Clients : <<"sup", s>> # p /\ <<"sup", s>> \in Process
  BY DEF IInv, Process
<1> HIDE DEF p
<1>1. CASE Probe(c)
  <2>1. Active(c) /\ BeforeSpawn(c)
    BY <1>1 DEF Probe, Active, BeforeSpawn
  <2>2. CASE pidFile = Nobody \/ lock = Free
    <3>1. \A s \in Clients : ~Serves(s)
      <4>1. ASSUME NEW s \in Clients, Serves(s) PROVE FALSE
        <5>1. pidFile = s /\ lock = <<"sup", s>>
          BY <4>1 DEF Found, Serves, IInv, HolderKnown, Holds
        <5> QED
          BY <2>2, <5>1, BootstrapAssumption DEF Free
      <4> QED
        BY <4>1
    <3>2. \A s \in Clients : ~Alive(s)
      BY <2>1, <3>1, NoneAlive
    <3>3. GoClient(c, "removeCmd") \/ GoClient(c, "locked")
      BY <1>1, <2>2 DEF Probe
    <3> QED
      BY <1>0, <1>1, <2>1, <3>2, <3>3, AloneClient, FoundKept DEF Probe, ClientState
  <2>3. CASE pidFile # Nobody /\ lock # Free
    <3>1. GoClient(c, "open")
      BY <1>1, <2>3 DEF Probe
    <3> QED
      BY <1>0, <1>1, <2>1, <3>1, AloneClient, FoundKept DEF Probe, ClientState
  <2> QED
    BY <2>2, <2>3
<1>2. CASE Unprobe(c)
  <2>1. Active(c) /\ BeforeSpawn(c) /\ \A s \in Clients : ~Alive(s)
    BY <1>2 DEF Unprobe, Active, BeforeSpawn, Alone, Removing
  <2> QED
    BY <1>0, <1>2, <2>1, AloneClient, FoundKept DEF Unprobe, ClientState
<1>3. CASE Open(c)
  <2>1. Active(c) /\ BeforeSpawn(c)
    BY <1>3 DEF Open, Active, BeforeSpawn
  <2>2. \A s \in Clients : opened'[<<"sup", s>>] = opened[<<"sup", s>>]
    BY <1>0, <1>3 DEF Open, MemType, p
  <2>3. CASE named.cmd # 0 /\ named.reply # 0
    BY <1>0, <1>3, <2>1, <2>2, <2>3, AloneClient, FoundKept DEF Open, ClientState
  <2>4. CASE ~(named.cmd # 0 /\ named.reply # 0)
    <3>1. \A s \in Clients : ~Serves(s)
      BY <2>4 DEF Found, Serves
    <3>2. \A s \in Clients : ~Alive(s)
      BY <2>1, <3>1, NoneAlive
    <3> QED
      BY <1>0, <1>3, <2>1, <2>2, <2>4, <3>2, AloneClient, FoundKept DEF Open, ClientState
  <2> QED
    BY <2>3, <2>4
<1>4. CASE Ping(c)
  BY <1>0, <1>4, AloneClient, FoundKept DEF Ping, ClientState, Active, BeforeSpawn
<1>5. CASE Pong(c)
  <2>1. \A s \in Clients : opened'[<<"sup", s>>] = opened[<<"sup", s>>]
    BY <1>0, <1>5, CloseMem, ZenonT(60) DEF Pong, p, Process
  <2> QED
    BY <1>0, <1>5, <2>1, AloneClient, FoundKept DEF Pong, ClientState, Active
<1>6. CASE Timeout(c)
  <2>1. \A s \in Clients : opened'[<<"sup", s>>] = opened[<<"sup", s>>]
    BY <1>0, <1>6, CloseMem DEF Timeout, p, Process
  <2>2. Active(c) /\ BeforeSpawn(c) /\ \A s \in Clients : ~Serves(s)
    BY <1>6 DEF Timeout, Active, BeforeSpawn, Holds, Serves
  <2>3. \A s \in Clients : ~Alive(s)
    BY <2>2, NoneAlive
  <2> QED
    BY <1>0, <1>6, <2>1, <2>2, <2>3, AloneClient, FoundKept DEF Timeout, ClientState
<1>7. CASE RemoveCmd(c) \/ RemoveReply(c)
  <2>1. Active(c) /\ BeforeSpawn(c) /\ \A s \in Clients : ~Alive(s)
    BY <1>7 DEF RemoveCmd, RemoveReply, Active, BeforeSpawn, Alone, Removing
  <2>2. Alone'
    BY <1>0, <1>7, <2>1, AloneClient DEF RemoveCmd, RemoveReply, ClientState
  <2>3. Found'
    BY <1>7, <2>1, FoundWithout DEF RemoveCmd, RemoveReply, Alive
  <2> QED
    BY <2>2, <2>3
<1>8. CASE Spawn(c)
  <2>1. Active(c) /\ \A s \in Clients : ~Alive(s)
    BY <1>8 DEF Spawn, Active, Alone, Removing
  <2>2. /\ \A d \in Clients : ~BeforeSpawn(d)' /\ ~Removing(d)'
        /\ \A d \in Clients : Active(d)' => d = c
    BY <1>0, <1>8, <2>1 DEF Spawn, ProcType, GoClient, Alone, Active, BeforeSpawn, Removing
  <2>3. sup' = [sup EXCEPT ![c] = "check"] /\ sup \in [Clients -> SupState]
    BY <1>0, <1>8 DEF Spawn, ProcType, GoSup
  <2>4. \A s \in Clients : s # c => ~Alive(s)'
    BY <2>1, <2>3 DEF Alive
  <2>5. sup'[c] = "check"
    BY <2>3
  <2>6. Alone'
    BY <2>2, <2>4 DEF Alone
  <2>7. Found'
    BY <2>4, <2>5 DEF Found, Alive, Serves
  <2> QED
    BY <2>6, <2>7
<1>9. CASE Send(c)
  <2>1. Active(c)
    BY <1>9 DEF Send, Active
  <2>2. Alone'
    BY <1>0, <1>9, <2>1, AloneClient DEF Send, ClientState
  <2>3. CASE named.cmd = 0
    <3>1. named' = [named EXCEPT !.cmd = Len(queues) + 1]
      BY <1>9, <2>3 DEF Send
    <3>2. \A s \in Clients : sup[s] \notin {"openReply", "run", "busy"}
      BY <2>3 DEF Found
    <3> QED
      BY <1>9, <2>2, <3>2 DEF Send, Found, Serves
  <2>4. CASE named.cmd # 0
    BY <1>9, <2>2, <2>4, FoundKept DEF Send
  <2> QED
    BY <2>3, <2>4
<1> QED
  BY <1>1, <1>2, <1>3, <1>4, <1>5, <1>6, <1>7, <1>8, <1>9 DEF ClientStep

\* The supervisor's steps.
LEMMA QuietSup ==
  ASSUME IInv, MemType, Alone, Found, NEW s \in Clients, SupStep(s)
  PROVE  Alone' /\ Found'
<1> USE DEF files, memory, history
<1>0. ProcType
  BY DEF IInv
<1>1. CASE Check(s)
  <2>1. Alive(s) /\ Starting(s) /\ (GoSup(s, "create") \/ GoSup(s, "lock"))
    BY <1>1 DEF Check, Alive, Starting
  <2> QED
    BY <1>0, <1>1, <2>1, AloneSup, FoundSup DEF Check, SupState
<1>2. CASE Create(s)
  BY <1>0, <1>2, AloneSup, FoundSup DEF Create, SupState, Alive, Starting
<1>3. CASE Lock(s)
  <2>1. Alive(s) /\ Starting(s) /\ (GoSup(s, "write") \/ GoSup(s, "dead"))
    BY <1>3 DEF Lock, Alive, Starting
  <2> QED
    BY <1>0, <1>3, <2>1, AloneSup, FoundSup DEF Lock, SupState
<1>4. CASE Write(s)
  BY <1>0, <1>4, AloneSup, FoundSup DEF Write, SupState, Alive, Starting
<1>5. CASE OpenCmd(s)
  <2>1. pidFile' = s /\ named'.cmd # 0 /\ opened'[<<"sup", s>>].cmd = named'.cmd
    BY <1>5, OpenMem DEF OpenCmd, Found
  <2> QED
    BY <1>0, <1>5, <2>1, AloneSup, FoundSup DEF OpenCmd, SupState, Alive, Starting
<1>6. CASE OpenReply(s)
  <2>1. /\ pidFile' = s
        /\ named'.cmd # 0 /\ opened'[<<"sup", s>>].cmd = named'.cmd
        /\ named'.reply # 0 /\ opened'[<<"sup", s>>].reply = named'.reply
    BY <1>6, OpenMem DEF OpenReply, Found
  <2> QED
    BY <1>0, <1>6, <2>1, AloneSup, FoundSup DEF OpenReply, SupState, Alive
<1>7. CASE PollPing(s)
  BY <1>7, FoundKept DEF PollPing, Alone, Active, Alive, BeforeSpawn, Removing, Starting
<1>8. CASE PollCommand(s)
  BY <1>0, <1>8, AloneSup, FoundSup DEF PollCommand, SupState, Alive, Found, Serves
<1>9. CASE Finish(s)
  BY <1>0, <1>9, AloneSup, FoundSup DEF Finish, SupState, Alive, Found, Serves
<1> QED
  BY <1>1, <1>2, <1>3, <1>4, <1>5, <1>6, <1>7, <1>8, <1>9 DEF SupStep

LEMMA StepQuiet == QInv /\ [Next]_vars /\ ~overlap' => Alone' /\ Found'
<1> SUFFICES ASSUME QInv, [Next]_vars, ~overlap' PROVE Alone' /\ Found'
  OBVIOUS
<1> USE DEF files, memory, history
<1>0. IInv /\ ProcType /\ MemType
  BY DEF QInv, IInv
\* An overlap is never forgotten.
<1>1. ASSUME overlap PROVE FALSE
  <2>1. ASSUME NEW c \in Clients, ClientStep(c) PROVE overlap' = overlap \/ Timeout(c)
    BY <2>1 DEF ClientStep, Probe, Unprobe, Open, Ping, Pong, RemoveCmd, RemoveReply, Spawn, Send
  <2>2. ASSUME NEW s \in Clients, SupStep(s) PROVE overlap' = overlap
    BY <2>2 DEF SupStep, Check, Create, Lock, Write, OpenCmd, OpenReply, PollPing, PollCommand, Finish
  <2> QED
    BY <1>1, <2>1, <2>2 DEF Next, Begin, Timeout, SupDies, Interrupt, Quiescent, vars
<1>2. Alone /\ Found
  BY <1>1 DEF QInv
<1>3. ASSUME NEW c \in Clients, Begin(c) PROVE Alone' /\ Found'
  <2>1. \A d \in Clients : ~Active(d) /\ ~Starting(d)
    BY <1>3 DEF Begin
  <2>2. client' = [client EXCEPT ![c] = "probe"] /\ client \in [Clients -> ClientState]
    BY <1>0, <1>3 DEF Begin, GoClient, ProcType
  <2>3. client'[c] = "probe" /\ \A d \in Clients : d # c => client'[d] = client[d]
    BY <2>2
  <2>4. Alone'
    BY <1>2, <1>3, <2>1, <2>3
    DEF Begin, Alone, Active, Alive, BeforeSpawn, Removing, Starting
  <2> QED
    BY <1>2, <1>3, <2>4, FoundKept DEF Begin
<1>4. ASSUME NEW c \in Clients, ClientStep(c) PROVE Alone' /\ Found'
  BY <1>0, <1>2, <1>4, QuietClient
<1>5. ASSUME NEW s \in Clients, SupStep(s) PROVE Alone' /\ Found'
  BY <1>0, <1>2, <1>5, QuietSup
<1>6. ASSUME NEW s \in Clients, SupDies(s) PROVE Alone' /\ Found'
  BY <1>0, <1>2, <1>6, AloneSup, FoundSup DEF SupDies, SupState, Alive
<1>7. ASSUME NEW c \in Clients, Interrupt(c) PROVE Alone' /\ Found'
  <2>1. \A s \in Clients : opened'[<<"sup", s>>] = opened[<<"sup", s>>]
    BY <1>0, <1>7, CloseMem DEF Interrupt, Process
  <2> QED
    BY <1>0, <1>2, <1>7, <2>1, AloneClient, FoundKept DEF Interrupt, ClientState
<1>8. CASE UNCHANGED vars
  BY <1>2, <1>8, FoundKept DEF vars, Alone, Active, Alive, BeforeSpawn, Removing, Starting
<1> QED
  BY <1>3, <1>4, <1>5, <1>6, <1>7, <1>8 DEF Next, Quiescent

LEMMA StepQ == QInv /\ [Next]_vars => QInv'
<1> SUFFICES ASSUME QInv, [Next]_vars PROVE QInv'
  OBVIOUS
<1>1. IInv'
  BY StepHolder DEF QInv
<1>2. MemType'
  BY StepMem
<1>3. ~overlap' => Alone' /\ Found'
  BY StepQuiet
<1> QED
  BY <1>1, <1>2, <1>3 DEF QInv

\* Until two invocations overlap, a serving supervisor listens where clients will
\* send (main.cpp:83-103), for any number of clients and of killed supervisors.
THEOREM NoSplitAlways == Spec => []NoSplit
<1>1. Init => QInv
  BY InitQ
<1>2. QInv /\ [Next]_vars => QInv'
  BY StepQ
<1>3. QInv => NoSplit
  BY QInvImplies
<1> QED
  BY <1>1, <1>2, <1>3, PTL DEF Spec

\* Under the same proviso the pid in the file is the serving supervisor's
\* (pid_file.cpp:54): what is_supervisor_running relies on when it finds one.
THEOREM PidNamesServerAlways == Spec => []PidNamesServer
<1>1. Init => QInv
  BY InitQ
<1>2. QInv /\ [Next]_vars => QInv'
  BY StepQ
<1>3. QInv => PidNamesServer
  BY QInvImplies
<1> QED
  BY <1>1, <1>2, <1>3, PTL DEF Spec

----------------------------------------------------------------------------
(* Every message is in a queue of its kind                                 *)

\* The handles of command queues, and of reply queues, that somebody can use.
Commands == {named.cmd} \union {opened[p].cmd : p \in Process}
Replies == {named.reply} \union {opened[p].reply : p \in Process}

\* Handles are of queues that were created.
Handled == named \in Handles /\ opened \in [Process -> Handles]

\* No queue is one process's command queue and another's reply queue, ...
Apart == Commands \intersect Replies \subseteq {0}

\* ... so a pong, which goes to a reply queue, is never taken for a command.
NoPong == \A q \in Commands \ {0} : \A k \in 1..Len(queues[q]) : queues[q][k] # "pong"

\* A supervisor past open_or_create has its queues.
Opened ==
  \A s \in Clients :
    /\ sup[s] \in {"openReply", "run", "busy"} => opened[<<"sup", s>>].cmd # 0
    /\ Serves(s) => opened[<<"sup", s>>].reply # 0

Rest ==
  /\ lock \in Process \union {Free}
  /\ executed \subseteq Clients
  /\ crashes \in Nat

Sorted == Handled /\ Apart /\ NoPong
TInv == QInv /\ Sorted /\ Opened /\ Rest

LEMMA TInvImplies == TInv => TypeOK
<1> SUFFICES ASSUME TInv PROVE TypeOK
  OBVIOUS
<1>1. ProcType /\ MemType /\ Handled /\ Opened /\ Rest
  BY DEF TInv, QInv, IInv, Sorted
<1>2. \A s \in Clients :
        Serves(s) => opened[<<"sup", s>>].cmd # 0 /\ opened[<<"sup", s>>].reply # 0
  BY <1>1 DEF Opened, Serves
<1> QED
  BY <1>1, <1>2 DEF ProcType, MemType, Handled, Rest, Msg, TypeOK

LEMMA HandlesOf ==
  ASSUME Handled
  PROVE  Commands \subseteq 0..Len(queues) /\ Replies \subseteq 0..Len(queues)
BY DEF Handled, Handles, Commands, Replies

\* Handles within the new bounds.
LEMMA HandledFrom ==
  ASSUME MemType', Commands' \subseteq 0..Len(queues'), Replies' \subseteq 0..Len(queues')
  PROVE  Handled'
<1>1. named' \in Names /\ opened' \in [Process -> Names]
  BY DEF MemType
<1>2. named'.cmd \in Commands' /\ named'.reply \in Replies'
  BY DEF Commands, Replies
<1>3. \A p \in Process : opened'[p].cmd \in Commands' /\ opened'[p].reply \in Replies'
  BY DEF Commands, Replies
<1>4. named' \in Handles'
  BY <1>1, <1>2 DEF Names, Handles
<1>5. ASSUME NEW p \in Process PROVE opened'[p] \in Handles'
  <2>1. opened'[p] \in Names
    BY <1>1
  <2> QED
    BY <1>3, <2>1 DEF Names, Handles
<1> QED
  BY <1>1, <1>4, <1>5 DEF Handled

\* A step that creates no queue and puts a pong into no command queue.
LEMMA SortedKept ==
  ASSUME MemType, MemType', Sorted, Len(queues') = Len(queues),
         Commands' \subseteq Commands \union {0}, Replies' \subseteq Replies \union {0},
         \A q \in Commands \ {0} : \A k \in 1..Len(queues'[q]) : queues'[q][k] # "pong"
  PROVE  Sorted'
<1>1. Commands' \subseteq 0..Len(queues') /\ Replies' \subseteq 0..Len(queues')
  <2>1. Len(queues) \in Nat
    BY DEF MemType
  <2> QED
    BY <2>1, HandlesOf DEF Sorted
<1>2. Handled'
  BY <1>1, HandledFrom
<1>3. Apart'
  BY DEF Sorted, Apart
<1>4. NoPong'
  BY DEF NoPong
<1> QED
  BY <1>2, <1>3, <1>4 DEF Sorted

\* A step that creates a queue, which is of one kind.
LEMMA SortedNew ==
  ASSUME MemType, MemType', Sorted, NEW x \in Seq(Clients), queues' = Append(queues, x),
         \/ /\ Commands' \subseteq Commands \union {0, Len(queues) + 1}
            /\ Replies' \subseteq Replies \union {0}
         \/ /\ Commands' \subseteq Commands \union {0}
            /\ Replies' \subseteq Replies \union {0, Len(queues) + 1}
  PROVE  Sorted'
<1> DEFINE n == Len(queues)
<1>1. n \in Nat /\ Len(queues') = n + 1 /\ queues'[n + 1] = x
      /\ \A q \in 1..n : queues'[q] = queues[q]
  BY DEF MemType
<1>2. Commands \subseteq 0..n /\ Replies \subseteq 0..n
  BY HandlesOf DEF Sorted
<1> HIDE DEF n
<1>3. n + 1 \notin Commands /\ n + 1 \notin Replies /\ n + 1 # 0
  BY <1>1, <1>2
<1>4. Commands' \subseteq 0..Len(queues') /\ Replies' \subseteq 0..Len(queues')
  <2>1. 0..n \subseteq 0..(n + 1) /\ {0, n + 1} \subseteq 0..(n + 1)
    BY <1>1
  <2>2. Commands' \subseteq Commands \union {0, n + 1} /\ Replies' \subseteq Replies \union {0, n + 1}
    BY DEF n
  <2> QED
    BY <1>1, <1>2, <2>1, <2>2
<1>5. Handled'
  BY <1>4, HandledFrom
<1>6. Apart'
  BY <1>3 DEF Sorted, Apart, n
<1>7. ASSUME NEW q \in Commands' \ {0}, NEW k \in 1..Len(queues'[q]) PROVE queues'[q][k] # "pong"
  <2>1. CASE q = n + 1
    BY <1>1, <1>7, <2>1, BootstrapAssumption
  <2>2. CASE q # n + 1
    <3>1. q \in Commands \ {0}
      BY <1>7, <2>2 DEF n
    <3>2. q \in 1..n
      BY <1>1, <1>2, <3>1
    <3> QED
      BY <1>1, <1>7, <3>1, <3>2 DEF Sorted, NoPong
  <2> QED
    BY <2>1, <2>2
<1>8. NoPong'
  BY <1>7 DEF NoPong
<1> QED
  BY <1>5, <1>6, <1>8 DEF Sorted

\* Putting a message that is no pong, or not into a command queue; taking one.
LEMMA PutSorted ==
  ASSUME NEW qs \in Seq(Seq(Msg)), NEW q \in Nat, NEW msg \in Msg, NEW h \in 1..Len(qs),
         \A k \in 1..Len(qs[h]) : qs[h][k] # "pong", msg # "pong" \/ h # q,
         NEW new, new = [qs EXCEPT ![q] = Append(@, msg)]
  PROVE  Len(new) = Len(qs) /\ \A k \in 1..Len(new[h]) : new[h][k] # "pong"
<1>1. qs[h] \in Seq(Msg) /\ Len(new) = Len(qs)
  OBVIOUS
<1>2. CASE h = q
  <2>1. new[h] = Append(qs[h], msg)
    BY <1>2
  <2> QED
    BY <1>1, <1>2, <2>1
<1>3. CASE h # q
  <2>1. new[h] = qs[h]
    BY <1>3
  <2> QED
    BY <1>1, <2>1
<1> QED
  BY <1>2, <1>3

LEMMA TakeSorted ==
  ASSUME NEW qs \in Seq(Seq(Msg)), NEW q \in Nat, qs[q] # <<>>, NEW h \in 1..Len(qs),
         \A k \in 1..Len(qs[h]) : qs[h][k] # "pong",
         NEW new, new = [qs EXCEPT ![q] = Tail(@)]
  PROVE  Len(new) = Len(qs) /\ \A k \in 1..Len(new[h]) : new[h][k] # "pong"
<1>1. qs[h] \in Seq(Msg) /\ Len(new) = Len(qs)
  OBVIOUS
<1>2. CASE h = q
  <2>1. new[h] = Tail(qs[h]) /\ qs[h] # <<>>
    BY <1>2
  <2>2. Len(new[h]) = Len(qs[h]) - 1 /\ \A k \in 1..Len(new[h]) : new[h][k] = qs[h][k + 1]
    BY <1>1, <2>1
  <2>3. Len(qs[h]) \in Nat
    BY <1>1
  <2> QED
    BY <1>1, <2>2, <2>3
<1>3. CASE h # q
  <2>1. new[h] = qs[h]
    BY <1>3
  <2> QED
    BY <1>1, <2>1
<1> QED
  BY <1>2, <1>3

\* The handles after a process opened the queues that have the names, or closed
\* what it had.
LEMMA HandlesAfter ==
  ASSUME MemType, NEW p \in Process,
         named' = named \/ named' = [named EXCEPT !.cmd = 0] \/ named' = [named EXCEPT !.reply = 0],
         opened' = opened \/ opened' = [opened EXCEPT ![p] = named] \/ Close(p)
  PROVE  Commands' \subseteq Commands \union {0} /\ Replies' \subseteq Replies \union {0}
<1>1. named'.cmd \in {0, named.cmd} /\ named'.reply \in {0, named.reply}
  BY DEF MemType, Names
<1>2. ASSUME NEW x \in Process
      PROVE  opened'[x] \in {opened[x], named, NoQueues}
  BY DEF MemType, Close
<1>3. ASSUME NEW x \in Process
      PROVE  opened'[x].cmd \in Commands \union {0} /\ opened'[x].reply \in Replies \union {0}
  BY <1>2 DEF Commands, Replies, NoQueues
<1> QED
  BY <1>1, <1>3 DEF Commands, Replies

\* ... and after a supervisor opened or created the queue called which.
LEMMA HandlesOpened ==
  ASSUME MemType, NEW s \in Clients, NEW which \in {"cmd", "reply"}, OpenOrCreate(s, which)
  PROVE  LET q == IF named[which] = 0 THEN Len(queues) + 1 ELSE named[which]
         IN  /\ which = "cmd" => Commands' \subseteq Commands \union {q} /\ Replies' \subseteq Replies
             /\ which = "reply" => Replies' \subseteq Replies \union {q} /\ Commands' \subseteq Commands
<1> DEFINE q == IF named[which] = 0 THEN Len(queues) + 1 ELSE named[which]
           p == <<"sup", s>>
<1>1. named' = [named EXCEPT ![which] = q] /\ opened' = [opened EXCEPT ![p][which] = q]
  BY DEF OpenOrCreate
<1>2. p \in Process /\ named \in Names /\ opened \in [Process -> Names] /\ opened[p] \in Names
  BY DEF Process, MemType
<1>3. \A w \in {"cmd", "reply"} \ {which} :
        named'[w] = named[w] /\ opened'[p][w] = opened[p][w]
  BY OpenMem
<1>4. \A x \in Process \ {p} : opened'[x] = opened[x]
  BY OpenMem
<1> HIDE DEF q, p
<1>5. named'[which] = q
  BY <1>1, <1>2 DEF Names
<1>6. opened'[p] = [opened[p] EXCEPT ![which] = q]
  BY <1>1, <1>2
<1>7. opened'[p][which] = q
  BY <1>2, <1>6 DEF Names
<1>8. CASE which = "cmd"
  <2>1. named'.cmd = q /\ opened'[p].cmd = q
    BY <1>5, <1>7, <1>8
  <2>2. named'.reply = named.reply /\ opened'[p].reply = opened[p].reply
    BY <1>3, <1>8
  <2> QED
    BY <1>2, <1>4, <1>8, <2>1, <2>2 DEF Commands, Replies, q
<1>9. CASE which = "reply"
  <2>1. named'.reply = q /\ opened'[p].reply = q
    BY <1>5, <1>7, <1>9
  <2>2. named'.cmd = named.cmd /\ opened'[p].cmd = opened[p].cmd
    BY <1>3, <1>9
  <2> QED
    BY <1>2, <1>4, <1>9, <2>1, <2>2 DEF Commands, Replies, q
<1> QED
  BY <1>8, <1>9

LEMMA OpenSorted ==
  ASSUME MemType, MemType', Sorted, NEW s \in Clients, NEW which \in {"cmd", "reply"},
         OpenOrCreate(s, which)
  PROVE  Sorted'
<1>1. named.cmd \in Commands /\ named.reply \in Replies
  BY DEF Commands, Replies
<1>2. CASE named[which] = 0
  <2>1. queues' = Append(queues, <<>>) /\ <<>> \in Seq(Clients)
    BY <1>2 DEF OpenOrCreate
  <2>2. /\ which = "cmd" => Commands' \subseteq Commands \union {Len(queues) + 1} /\ Replies' \subseteq Replies
        /\ which = "reply" => Replies' \subseteq Replies \union {Len(queues) + 1} /\ Commands' \subseteq Commands
    BY <1>2, HandlesOpened
  <2> QED
    BY <2>1, <2>2, SortedNew
<1>3. CASE named[which] # 0
  <2>1. queues' = queues
    BY <1>3 DEF OpenOrCreate
  <2>2. Commands' \subseteq Commands /\ Replies' \subseteq Replies
    BY <1>1, <1>3, HandlesOpened
  <2>3. \A q \in Commands \ {0} : \A k \in 1..Len(queues'[q]) : queues'[q][k] # "pong"
    BY <2>1 DEF Sorted, NoPong
  <2> QED
    BY <2>1, <2>2, <2>3, SortedKept
<1> QED
  BY <1>2, <1>3

\* A step that leaves the messages alone.
LEMMA SortedStill ==
  ASSUME MemType, MemType', Sorted, queues' = queues, NEW p \in Process,
         named' = named \/ named' = [named EXCEPT !.cmd = 0] \/ named' = [named EXCEPT !.reply = 0],
         opened' = opened \/ opened' = [opened EXCEPT ![p] = named] \/ Close(p)
  PROVE  Sorted'
<1>1. \A q \in Commands \ {0} : \A k \in 1..Len(queues'[q]) : queues'[q][k] # "pong"
  BY DEF Sorted, NoPong
<1> QED
  BY <1>1, HandlesAfter, SortedKept

\* A step that puts a message or takes one.
LEMMA SortedPut ==
  ASSUME MemType, MemType', Sorted, UNCHANGED <<named, opened>>,
         NEW q \in Nat, NEW msg \in Msg, msg # "pong" \/ q \notin Commands \ {0},
         queues' = [queues EXCEPT ![q] = Append(@, msg)]
  PROVE  Sorted'
<1>1. queues \in Seq(Seq(Msg)) /\ Len(queues') = Len(queues)
  BY DEF MemType
<1>2. ASSUME NEW h \in Commands \ {0}
      PROVE  \A k \in 1..Len(queues'[h]) : queues'[h][k] # "pong"
  <2>1. h \in 1..Len(queues)
    BY <1>1, HandlesOf DEF Sorted
  <2>2. \A k \in 1..Len(queues[h]) : queues[h][k] # "pong"
    BY DEF Sorted, NoPong
  <2>3. msg # "pong" \/ h # q
    OBVIOUS
  <2> QED
    BY <1>1, <2>1, <2>2, <2>3, PutSorted
<1>3. Commands' = Commands /\ Replies' = Replies
  BY DEF Commands, Replies
<1> QED
  BY <1>1, <1>2, <1>3, SortedKept

LEMMA SortedTake ==
  ASSUME MemType, MemType', Sorted, named' = named, NEW p \in Process,
         opened' = opened \/ Close(p), NEW q \in Nat, queues[q] # <<>>,
         queues' = [queues EXCEPT ![q] = Tail(@)]
  PROVE  Sorted'
<1>1. queues \in Seq(Seq(Msg)) /\ Len(queues') = Len(queues)
  BY DEF MemType
<1>2. ASSUME NEW h \in Commands \ {0}
      PROVE  \A k \in 1..Len(queues'[h]) : queues'[h][k] # "pong"
  <2>1. h \in 1..Len(queues)
    BY <1>1, HandlesOf DEF Sorted
  <2>2. \A k \in 1..Len(queues[h]) : queues[h][k] # "pong"
    BY DEF Sorted, NoPong
  <2> QED
    BY <1>1, <2>1, <2>2, TakeSorted
<1> QED
  BY <1>1, <1>2, HandlesAfter, SortedKept

\* The reply queue of a process is nobody's command queue.
LEMMA RepliesApart ==
  ASSUME Sorted, NEW p \in Process
  PROVE  opened[p].reply \notin Commands \ {0}
BY DEF Sorted, Apart, Replies

LEMMA StepSorted == TInv /\ [Next]_vars => Sorted'
<1> SUFFICES ASSUME TInv, [Next]_vars PROVE Sorted'
  OBVIOUS
<1> USE DEF files, memory, history
<1>0. MemType /\ MemType' /\ Sorted
  BY StepMem DEF TInv, QInv
<1>1. ASSUME NEW c \in Clients PROVE <<"cli", c>> \in Process /\ <<"sup", c>> \in Process
  BY DEF Process
<1>2. ASSUME NEW p \in Process
      PROVE  opened[p] \in Names /\ opened[p].cmd \in Nat /\ opened[p].reply \in Nat
  BY <1>0 DEF MemType, Names
<1>3. ASSUME NEW c \in Clients, Begin(c) PROVE Sorted'
  BY <1>0, <1>1, <1>3, SortedStill DEF Begin
<1>4. ASSUME NEW c \in Clients, ClientStep(c) PROVE Sorted'
  <2>1. CASE Probe(c) \/ Unprobe(c) \/ Spawn(c)
    BY <1>0, <1>1, <2>1, SortedStill DEF Probe, Unprobe, Spawn
  <2>2. CASE Open(c)
    BY <1>0, <1>1, <2>2, SortedStill DEF Open
  <2>3. CASE Ping(c)
    <3> DEFINE q == opened[<<"cli", c>>].cmd
    <3>1. q \in Nat /\ "ping" \in Msg
      BY <1>1, <1>2 DEF Msg
    <3>2. queues' = [queues EXCEPT ![q] = Append(@, "ping")] /\ UNCHANGED <<named, opened>>
      BY <2>3 DEF Ping, Put
    <3> HIDE DEF q
    <3> QED
      BY <1>0, <3>1, <3>2, SortedPut
  <2>4. CASE Pong(c)
    <3> DEFINE q == opened[<<"cli", c>>].reply
    <3>1. q \in Nat /\ <<"cli", c>> \in Process
      BY <1>1, <1>2
    <3>2. /\ queues' = [queues EXCEPT ![q] = Tail(@)] /\ queues[q] # <<>>
          /\ named' = named /\ Close(<<"cli", c>>)
      BY <2>4 DEF Pong
    <3> HIDE DEF q
    <3> QED
      BY <1>0, <3>1, <3>2, SortedTake
  <2>5. CASE Timeout(c)
    BY <1>0, <1>1, <2>5, SortedStill DEF Timeout
  <2>6. CASE RemoveCmd(c) \/ RemoveReply(c)
    BY <1>0, <1>1, <2>6, SortedStill DEF RemoveCmd, RemoveReply
  <2>7. CASE Send(c)
    <3>1. c \in Msg /\ c # "pong" /\ named.cmd \in Nat /\ <<c>> \in Seq(Clients)
      BY <1>0, BootstrapAssumption DEF MemType, Names, Msg
    <3>2. CASE named.cmd = 0
      <4>1. queues' = Append(queues, <<c>>) /\ named' = [named EXCEPT !.cmd = Len(queues) + 1]
            /\ opened' = opened
        BY <2>7, <3>2 DEF Send
      <4>2. named'.cmd = Len(queues) + 1 /\ named'.reply = named.reply
        BY <1>0, <4>1 DEF MemType, Names
      <4>3. Commands' \subseteq Commands \union {0, Len(queues) + 1} /\ Replies' \subseteq Replies \union {0}
        BY <4>1, <4>2 DEF Commands, Replies
      <4> QED
        BY <1>0, <3>1, <4>1, <4>3, SortedNew
    <3>3. CASE named.cmd # 0
      <4>1. queues' = [queues EXCEPT ![named.cmd] = Append(@, c)] /\ UNCHANGED <<named, opened>>
        BY <2>7, <3>3 DEF Send, Put
      <4> QED
        BY <1>0, <3>1, <4>1, SortedPut
    <3> QED
      BY <3>2, <3>3
  <2> QED
    BY <1>4, <2>1, <2>2, <2>3, <2>4, <2>5, <2>6, <2>7 DEF ClientStep
<1>5. ASSUME NEW s \in Clients, SupStep(s) PROVE Sorted'
  <2>1. CASE Check(s) \/ Create(s) \/ Lock(s) \/ Write(s) \/ Finish(s)
    BY <1>0, <1>1, <2>1, SortedStill DEF Check, Create, Lock, Write, Finish
  <2>2. CASE OpenCmd(s)
    BY <1>0, <2>2, OpenSorted DEF OpenCmd
  <2>3. CASE OpenReply(s)
    BY <1>0, <2>3, OpenSorted DEF OpenReply
  <2>4. CASE PollPing(s)
    <3> DEFINE mine == opened[<<"sup", s>>]
               taken == [queues EXCEPT ![mine.cmd] = Tail(@)]
    <3>1. /\ queues[mine.cmd] # <<>> /\ queues' = [taken EXCEPT ![mine.reply] = Append(@, "pong")]
          /\ UNCHANGED <<named, opened>>
      BY <2>4 DEF PollPing
    <3>2. mine.cmd \in Nat /\ mine.reply \in Nat /\ mine.reply \notin Commands \ {0} /\ "pong" \in Msg
      BY <1>0, <1>1, <1>2, RepliesApart DEF Msg
    <3>3. queues \in Seq(Seq(Msg)) /\ taken \in Seq(Seq(Msg)) /\ Len(taken) = Len(queues)
      <4>1. queues \in Seq(Seq(Msg))
        BY <1>0 DEF MemType
      <4> QED
        BY <3>1, <3>2, <4>1, QueuesUpdate
    <3> HIDE DEF mine
    <3>4. ASSUME NEW h \in Commands \ {0}
          PROVE  Len(queues') = Len(queues) /\ \A k \in 1..Len(queues'[h]) : queues'[h][k] # "pong"
      <4>1. h \in 1..Len(queues) /\ \A k \in 1..Len(queues[h]) : queues[h][k] # "pong"
        <5>1. Len(queues) \in Nat
          BY <3>3
        <5> QED
          BY <1>0, <5>1, HandlesOf DEF Sorted, NoPong
      <4>2. \A k \in 1..Len(taken[h]) : taken[h][k] # "pong"
        BY <3>1, <3>2, <3>3, <4>1, TakeSorted
      <4> HIDE DEF taken
      <4>3. h \in 1..Len(taken) /\ h # mine.reply
        BY <3>2, <3>3, <4>1
      <4> QED
        BY <3>1, <3>2, <3>3, <4>2, <4>3, PutSorted
    <3>5. Len(queues') = Len(queues)
      BY <3>1, <3>3
    <3>6. Commands' = Commands /\ Replies' = Replies
      BY <3>1 DEF Commands, Replies
    <3> QED
      BY <1>0, <3>4, <3>5, <3>6, SortedKept
  <2>5. CASE PollCommand(s)
    <3> DEFINE q == opened[<<"sup", s>>].cmd
    <3>1. q \in Nat /\ <<"sup", s>> \in Process
      BY <1>1, <1>2
    <3>2. /\ queues' = [queues EXCEPT ![q] = Tail(@)] /\ queues[q] # <<>>
          /\ UNCHANGED <<named, opened>>
      BY <2>5 DEF PollCommand
    <3> HIDE DEF q
    <3> QED
      BY <1>0, <3>1, <3>2, SortedTake
  <2> QED
    BY <1>5, <2>1, <2>2, <2>3, <2>4, <2>5 DEF SupStep
<1>6. ASSUME NEW s \in Clients, SupDies(s) PROVE Sorted'
  BY <1>0, <1>1, <1>6, SortedStill DEF SupDies
<1>7. ASSUME NEW c \in Clients, Interrupt(c) PROVE Sorted'
  BY <1>0, <1>1, <1>7, SortedStill DEF Interrupt
<1>8. CASE UNCHANGED vars
  BY <1>0, <1>8, ZenonT(60) DEF vars, Sorted, Handled, Handles, Apart, NoPong, Commands, Replies
<1> QED
  BY <1>3, <1>4, <1>5, <1>6, <1>7, <1>8 DEF Next, Quiescent

\* A step that leaves alone what the supervisors have opened.
LEMMA OpenedKept ==
  ASSUME Opened, \A s \in Clients : opened'[<<"sup", s>>] = opened[<<"sup", s>>],
         \A s \in Clients :
           /\ sup'[s] \in {"openReply", "run", "busy"} => sup[s] \in {"openReply", "run", "busy"}
           /\ sup'[s] \in {"run", "busy"} => sup[s] \in {"run", "busy"}
  PROVE  Opened'
BY DEF Opened, Serves

LEMMA StepOpened == TInv /\ [Next]_vars => Opened'
<1> SUFFICES ASSUME TInv, [Next]_vars PROVE Opened'
  OBVIOUS
<1> USE DEF files, memory, history
<1>0. MemType /\ ProcType /\ Opened
  BY DEF TInv, QInv, IInv
<1>1. ASSUME NEW c \in Clients
      PROVE  /\ <<"cli", c>> \in Process /\ <<"sup", c>> \in Process
             /\ \A s \in Clients : <<"sup", s>> \in Process \ {<<"cli", c>>}
  BY DEF Process
\* A client opens and closes queues of its own, and the supervisor it spawns
\* has none.
<1>2. ASSUME NEW c \in Clients, Begin(c) \/ ClientStep(c) \/ Interrupt(c) PROVE Opened'
  <2>1. \A s \in Clients : opened'[<<"sup", s>>] = opened[<<"sup", s>>]
    <3>1. opened' = opened \/ opened' = [opened EXCEPT ![<<"cli", c>>] = named] \/ Close(<<"cli", c>>)
      BY <1>2 DEF Begin, Interrupt, ClientStep, Probe, Unprobe, Open, Ping, Pong, Timeout,
                  RemoveCmd, RemoveReply, Spawn, Send
    <3> QED
      BY <1>0, <1>1, <3>1 DEF Close, MemType
  <2>2. sup' = sup \/ sup' = [sup EXCEPT ![c] = "check"]
    BY <1>2 DEF Begin, Interrupt, ClientStep, Probe, Unprobe, Open, Ping, Pong, Timeout,
                RemoveCmd, RemoveReply, Spawn, GoSup, Send
  <2>3. \A s \in Clients : sup'[s] \in {sup[s], "check"}
    BY <1>0, <2>2 DEF ProcType
  <2> QED
    BY <1>0, <2>1, <2>3, OpenedKept
<1>3. ASSUME NEW s \in Clients, SupStep(s) PROVE Opened'
  <2> DEFINE at == {"openReply", "run", "busy"}
  <2>1. ASSUME NEW to, GoSup(s, to)
        PROVE  sup'[s] = to /\ \A t \in Clients \ {s} : sup'[t] = sup[t]
    BY <1>0, <2>1 DEF GoSup, ProcType
  <2>2. CASE Check(s) \/ Create(s) \/ Lock(s) \/ Write(s)
    <3>1. sup'[s] \in {"create", "lock", "write", "dead", "openCmd"}
          /\ \A t \in Clients \ {s} : sup'[t] = sup[t]
      BY <2>1, <2>2 DEF Check, Create, Lock, Write
    <3>2. opened' = opened
      BY <2>2 DEF Check, Create, Lock, Write
    <3>3. \A t \in Clients : t = s \/ sup'[t] = sup[t]
      BY <3>1
    <3> QED
      BY <1>0, <3>1, <3>2, <3>3, OpenedKept
  <2>3. CASE OpenCmd(s)
    <3>1. sup'[s] = "openReply" /\ \A t \in Clients \ {s} : sup'[t] = sup[t]
      BY <2>1, <2>3 DEF OpenCmd
    <3>2. opened'[<<"sup", s>>].cmd # 0
      BY <1>0, <2>3, OpenMem DEF OpenCmd
    <3>3. \A t \in Clients \ {s} : opened'[<<"sup", t>>] = opened[<<"sup", t>>]
      <4>1. OpenOrCreate(s, "cmd")
        BY <2>3 DEF OpenCmd
      <4>2. \A p \in Process \ {<<"sup", s>>} : opened'[p] = opened[p]
        BY <1>0, <4>1, OpenMem
      <4> QED
        BY <1>1, <4>2
    <3> QED
      BY <1>0, <3>1, <3>2, <3>3 DEF Opened, Serves
  <2>4. CASE OpenReply(s)
    <3>1. sup'[s] = "run" /\ \A t \in Clients \ {s} : sup'[t] = sup[t]
      BY <2>1, <2>4 DEF OpenReply
    <3>2. opened[<<"sup", s>>].cmd # 0
      BY <1>0, <2>4 DEF OpenReply, Opened
    <3>3. OpenOrCreate(s, "reply")
      BY <2>4 DEF OpenReply
    <3>4. opened'[<<"sup", s>>].reply # 0 /\ opened'[<<"sup", s>>].cmd = opened[<<"sup", s>>].cmd
      BY <1>0, <3>3, OpenMem
    <3>5. \A t \in Clients \ {s} : opened'[<<"sup", t>>] = opened[<<"sup", t>>]
      <4>1. \A p \in Process \ {<<"sup", s>>} : opened'[p] = opened[p]
        BY <1>0, <3>3, OpenMem
      <4> QED
        BY <1>1, <4>1
    <3> QED
      BY <1>0, <3>1, <3>2, <3>4, <3>5 DEF Opened, Serves
  <2>5. CASE PollPing(s)
    BY <1>0, <2>5, OpenedKept DEF PollPing
  <2>6. CASE PollCommand(s) \/ Finish(s)
    <3>1. sup[s] \in {"run", "busy"} /\ sup'[s] \in {"run", "busy"} /\ opened' = opened
          /\ \A t \in Clients \ {s} : sup'[t] = sup[t]
      BY <2>1, <2>6 DEF PollCommand, Finish
    <3>2. \A t \in Clients : t = s \/ sup'[t] = sup[t]
      BY <3>1
    <3> QED
      BY <1>0, <3>1, <3>2, OpenedKept
  <2> QED
    BY <1>3, <2>2, <2>3, <2>4, <2>5, <2>6 DEF SupStep
<1>4. ASSUME NEW s \in Clients, SupDies(s) PROVE Opened'
  <2>1. sup'[s] = "dead" /\ \A t \in Clients \ {s} : sup'[t] = sup[t]
    BY <1>0, <1>4 DEF SupDies, GoSup, ProcType
  <2>2. \A t \in Clients \ {s} : opened'[<<"sup", t>>] = opened[<<"sup", t>>]
    <3>1. \A p \in Process \ {<<"sup", s>>} : opened'[p] = opened[p]
      BY <1>0, <1>1, <1>4, CloseMem DEF SupDies
    <3> QED
      BY <1>1, <3>1
  <2> QED
    BY <1>0, <2>1, <2>2 DEF Opened, Serves
<1>5. CASE UNCHANGED vars
  BY <1>0, <1>5, OpenedKept DEF vars
<1> QED
  BY <1>2, <1>3, <1>4, <1>5 DEF Next, Quiescent

LEMMA StepRest == TInv /\ [Next]_vars => Rest'
<1> SUFFICES ASSUME TInv, [Next]_vars PROVE Rest'
  OBVIOUS
<1> USE DEF files, memory, history
<1>0. MemType /\ Sorted /\ Opened /\ Rest
  BY DEF TInv, QInv
<1>1. ASSUME NEW c \in Clients
      PROVE  <<"cli", c>> \in Process /\ <<"sup", c>> \in Process
  BY DEF Process
<1>2. ASSUME NEW c \in Clients, Begin(c) \/ ClientStep(c) PROVE Rest'
  <2>1. lock' \in {lock, Free, <<"cli", c>>} /\ executed' = executed /\ crashes' = crashes
    BY <1>2 DEF Begin, ClientStep, Probe, Unprobe, Open, Ping, Pong, Timeout, RemoveCmd,
                RemoveReply, Spawn, Send
  <2> QED
    BY <1>0, <1>1, <2>1 DEF Rest
<1>3. ASSUME NEW s \in Clients, SupStep(s) PROVE Rest'
  <2>1. CASE PollCommand(s)
    <3> DEFINE q == opened[<<"sup", s>>].cmd
    <3>1. q \in Commands \ {0}
      BY <1>0, <1>1, <2>1 DEF PollCommand, Opened, Commands
    <3>2. q \in 1..Len(queues) /\ queues[q] \in Seq(Msg) /\ queues[q] # <<>>
      <4>1. queues \in Seq(Seq(Msg)) /\ Len(queues) \in Nat
        BY <1>0 DEF MemType
      <4>2. q \in 1..Len(queues)
        BY <1>0, <3>1, <4>1, HandlesOf DEF Sorted
      <4> QED
        BY <2>1, <4>1, <4>2 DEF PollCommand
    <3>3. Head(queues[q]) \in Msg /\ Head(queues[q]) # "pong"
      <4>1. \A k \in 1..Len(queues[q]) : queues[q][k] # "pong"
        BY <1>0, <3>1 DEF Sorted, NoPong
      <4> HIDE DEF q
      <4> QED
        BY <3>2, <4>1
    <3>4. Head(queues[q]) \in Clients
      BY <2>1, <3>3 DEF PollCommand, Msg
    <3> QED
      BY <1>0, <2>1, <3>4 DEF PollCommand, Rest
  <2>2. CASE ~PollCommand(s)
    <3>1. lock' \in {lock, <<"sup", s>>} /\ executed' = executed /\ crashes' = crashes
      BY <1>3, <2>2 DEF SupStep, Check, Create, Lock, Write, OpenCmd, OpenReply, PollPing, Finish
    <3> QED
      BY <1>0, <1>1, <3>1 DEF Rest
  <2> QED
    BY <2>1, <2>2
<1>4. ASSUME NEW c \in Clients, SupDies(c) \/ Interrupt(c) PROVE Rest'
  BY <1>0, <1>4 DEF SupDies, Interrupt, Unlock, Rest
<1>5. CASE UNCHANGED vars
  BY <1>0, <1>5 DEF vars, Rest
<1> QED
  BY <1>2, <1>3, <1>4, <1>5 DEF Next, Quiescent

LEMMA InitT == Init => TInv
<1> SUFFICES ASSUME Init PROVE TInv
  OBVIOUS
<1>1. QInv
  BY InitQ
<1>2. Commands \subseteq {0} /\ Replies \subseteq {0}
  BY DEF Init, Commands, Replies, NoQueues
<1>3. Handled
  BY DEF Init, Handled, Handles, NoQueues
<1>4. Opened /\ Rest
  BY DEF Init, Opened, Rest, Serves
<1> QED
  BY <1>1, <1>2, <1>3, <1>4 DEF TInv, Sorted, Apart, NoPong

LEMMA StepT == TInv /\ [Next]_vars => TInv'
BY StepQ, StepSorted, StepOpened, StepRest DEF TInv

\* Every state is typed, for any number of clients and crashes: a handle is of
\* a queue that was created, a supervisor in its loop has both of its queues
\* (supervisor/src/main.cpp), and what it takes to execute is a client's
\* command, never an answer meant for a client.
THEOREM TypeOKAlways == Spec => []TypeOK
<1>1. Init => TInv
  BY InitT
<1>2. TInv /\ [Next]_vars => TInv'
  BY StepT
<1>3. TInv => TypeOK
  BY TInvImplies
<1> QED
  BY <1>1, <1>2, <1>3, PTL DEF Spec
=============================================================================
