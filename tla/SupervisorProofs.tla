-------------------------- MODULE SupervisorProofs --------------------------
(***************************************************************************)
(* Theorems about Supervisor for any configured workers, any commands and  *)
(* any number of crashes.                                                  *)
(***************************************************************************)
EXTENDS Supervisor, CommandStepsProofs

\* The part of TypeOK that the processes need.
ProcessType ==
  /\ child \in [Workers -> [Role -> ProcessState]]
  /\ orphan \in [Workers -> {"none", "holding", "leaving"}]

\* OneServer, worker by worker.
OneServerOf(w) ==
  /\ ~(Holds(child[w].cur) /\ Holds(child[w].old))
  /\ orphan[w] # "none" => ~Holds(child[w].cur) /\ ~Holds(child[w].old)

IInv == ProcessType /\ \A w \in Workers : OneServerOf(w)

LEMMA ServicesAreWorkers == \A s \in Services \intersect Workers : s \in Workers
OBVIOUS

\* The roles are the fields of child[w].
LEMMA RoleFields ==
  ASSUME NEW p \in [Role -> ProcessState], NEW r \in Role, NEW x \in ProcessState
  PROVE  /\ [p EXCEPT ![r] = x] \in [Role -> ProcessState]
         /\ [p EXCEPT ![r] = x].cur = IF r = "cur" THEN x ELSE p.cur
         /\ [p EXCEPT ![r] = x].old = IF r = "old" THEN x ELSE p.old
BY DEF Role

LEMMA PairFields ==
  ASSUME NEW a \in ProcessState, NEW b \in ProcessState
  PROVE  [cur |-> a, old |-> b] \in [Role -> ProcessState]
BY DEF Role

\* A step that changes process r of w, into one that does not serve or while
\* no other process of w does, leaves at most one server.
LEMMA ChildStep ==
  ASSUME IInv, NEW w \in Workers, NEW r \in Role, NEW x \in ProcessState,
         Holds(x) => Holds(child[w][r]) \/ LockFree(w),
         child' = [child EXCEPT ![w][r] = x], UNCHANGED orphan
  PROVE  IInv'
<1>1. child[w] \in [Role -> ProcessState]
  BY DEF IInv, ProcessType
<1>2. child'[w] = [child[w] EXCEPT ![r] = x]
  BY DEF IInv, ProcessType
<1>3. ProcessType'
  BY <1>1, <1>2, RoleFields DEF IInv, ProcessType
<1>4. ASSUME NEW v \in Workers, v # w PROVE OneServerOf(v)'
  <2>1. child'[v] = child[v]
    BY <1>4 DEF IInv, ProcessType
  <2> QED
    BY <1>4, <2>1 DEF IInv, OneServerOf
<1>5. OneServerOf(w)'
  <2>1. child'[w].cur = IF r = "cur" THEN x ELSE child[w].cur
    BY <1>1, <1>2, RoleFields
  <2>2. child'[w].old = IF r = "old" THEN x ELSE child[w].old
    BY <1>1, <1>2, RoleFields
  <2>3. OneServerOf(w)
    BY DEF IInv
  <2>4. CASE LockFree(w) \/ ~Holds(x)
    BY <2>1, <2>2, <2>3, <2>4 DEF OneServerOf, LockFree, Role
  <2>5. CASE Holds(child[w][r]) /\ Holds(x)
    BY <2>1, <2>2, <2>3, <2>5 DEF OneServerOf, Role
  <2> QED
    BY <2>4, <2>5
<1> QED
  BY <1>3, <1>4, <1>5 DEF IInv

LEMMA InitOneServer == Init => IInv
BY DEF Init, IInv, ProcessType, OneServerOf, NoChild, Role, ProcessState, Holds

LEMMA NextOneServer == IInv /\ [Next]_vars => IInv'
<1> SUFFICES ASSUME IInv, [Next]_vars PROVE IInv'
  OBVIOUS
<1>a. UNCHANGED <<child, orphan>> => IInv'
  BY DEF IInv, ProcessType, OneServerOf
<1>b. \A p : Holds(p) => p # "null" /\ p # "dead" /\ p # "booting"
  BY DEF Holds
<1>1. CASE PollNothing \/ PollCommand \/ PollFault
  BY <1>1, <1>a DEF PollNothing, PollCommand, PollFault
<1>2. ASSUME NEW w \in Workers, Spawn(w) PROVE IInv'
  <2> DEFINE next == [cur |-> "booting",
                      old |-> IF Alive(child[w].cur) THEN child[w].cur ELSE "null"]
  <2>1. child[w] \in [Role -> ProcessState] /\ child[w].cur \in ProcessState
    BY DEF IInv, ProcessType, Role
  <2>2. next \in [Role -> ProcessState]
    BY <2>1, PairFields DEF ProcessState
  <2>3. child' = [child EXCEPT ![w] = next] /\ UNCHANGED orphan
    BY <1>2 DEF Spawn
  <2>4. ProcessType'
    BY <2>2, <2>3 DEF IInv, ProcessType
  <2>5. ASSUME NEW v \in Workers PROVE OneServerOf(v)'
    <3>1. OneServerOf(v) /\ (v # w => child'[v] = child[v])
      BY <2>3 DEF IInv, ProcessType
    <3>2. v = w => child'[v] = next
      BY <2>3 DEF IInv, ProcessType
    <3> QED
      BY <2>3, <3>1, <3>2 DEF OneServerOf, Holds
  <2> QED
    BY <2>4, <2>5 DEF IInv
<1>3. ASSUME NEW w \in Workers, Started(w) \/ Revived(w) PROVE IInv'
  <2>1. child' = [child EXCEPT ![w]["old"] = "null"] /\ UNCHANGED orphan
    BY <1>3 DEF Started, Revived, Replaced
  <2> QED
    BY <2>1, <1>b, ChildStep DEF Role, ProcessState
<1>4. ASSUME NEW w \in Workers, PassOver(w) \/ SendPill(w) \/ Wait(w) \/ Watch(w)
      PROVE  IInv'
  BY <1>4, <1>a DEF PassOver, SendPill, Wait, Watch
<1>5. ASSUME NEW w \in Workers, NEW r \in Role, Boot(w, r) PROVE IInv'
  <2> DEFINE x == IF LockFree(w) THEN "up" ELSE "dead"
  <2>1. child' = [child EXCEPT ![w][r] = x] /\ UNCHANGED orphan
    BY <1>5 DEF Boot
  <2>2. x \in ProcessState /\ (Holds(x) => LockFree(w))
    BY <1>b DEF ProcessState
  <2> QED
    BY <2>1, <2>2, ChildStep
<1>6. ASSUME NEW w \in Workers, NEW r \in Role, Kill(w, r) PROVE IInv'
  <2>1. child' = [child EXCEPT ![w][r] = "dead"] /\ UNCHANGED orphan
    BY <1>6 DEF Kill
  <2> QED
    BY <2>1, <1>b, ChildStep DEF ProcessState
<1>7. ASSUME NEW s \in Services \intersect Workers, Serve(s) PROVE IInv'
  <2>1. ASSUME NEW r \in Role, TakeJob(s, r) PROVE IInv'
    BY <2>1, <1>a DEF TakeJob
  <2>2. ASSUME NEW r \in Role, TakePill(s, r) PROVE IInv'
    <3>1. child' = [child EXCEPT ![s][r] = "draining"] /\ UNCHANGED orphan
      BY <2>2 DEF TakePill
    <3>2. Holds(child[s][r])
      BY <2>2 DEF TakePill, Holds
    <3> QED
      BY <3>1, <3>2, ChildStep, ServicesAreWorkers DEF ProcessState
  <2>3. ASSUME NEW r \in Role, Leave(s, r) PROVE IInv'
    <3>1. child' = [child EXCEPT ![s][r] = "dead"] /\ UNCHANGED orphan
      BY <2>3 DEF Leave
    <3> QED
      BY <3>1, <1>b, ChildStep, ServicesAreWorkers DEF ProcessState
  <2> QED
    BY <1>7, <2>1, <2>2, <2>3 DEF Serve
<1>8. ASSUME NEW s \in Services, NEW k \in Kind, Forward(s, k) PROVE IInv'
  BY <1>8, <1>a DEF Forward
<1>9. CASE Submit \/ SupCrash \/ \E c \in Commands : Post(c)
  BY <1>9, <1>a DEF Submit, SupCrash, Post
<1>10. CASE SupStart
  <2>1. child' = [w \in Workers |-> NoChild]
        /\ orphan' = [w \in Workers |-> LeftBehind(w)]
    BY <1>10 DEF SupStart
  <2>2. NoChild \in [Role -> ProcessState] /\ ~Holds(NoChild.cur) /\ ~Holds(NoChild.old)
    BY DEF NoChild, Role, ProcessState, Holds
  <2>3. \A w \in Workers : LeftBehind(w) \in {"none", "holding", "leaving"}
    BY DEF LeftBehind, IInv, ProcessType
  <2> QED
    BY <2>1, <2>2, <2>3 DEF IInv, ProcessType, OneServerOf
<1>11. ASSUME NEW w \in Workers, OrphanLeaves(w) PROVE IInv'
  <2>1. UNCHANGED child /\ orphan' = [orphan EXCEPT ![w] = "none"]
    BY <1>11 DEF OrphanLeaves
  <2>2. \A v \in Workers : orphan'[v] # "none" => orphan[v] # "none"
    BY <2>1 DEF IInv, ProcessType
  <2>3. ProcessType'
    BY <2>1 DEF IInv, ProcessType
  <2> QED
    BY <2>1, <2>2, <2>3 DEF IInv, OneServerOf
<1>12. CASE UNCHANGED vars
  BY <1>12, <1>a DEF vars
<1> QED
  BY <1>1, <1>2, <1>3, <1>4, <1>5, <1>6, <1>7, <1>8, <1>9, <1>10, <1>11, <1>12
     DEF Next, Loop

\* At most one process of each worker serves, whatever is started, stopped,
\* replaced, killed or left behind: the pid-file lock decides (worker.cpp:27).
THEOREM OneServerAlways == Spec => []OneServer
<1>1. IInv => OneServer
  BY DEF IInv, OneServer, OneServerOf
<1> QED
  BY <1>1, InitOneServer, NextOneServer, PTL DEF Spec

----------------------------------------------------------------------------
(* The steps of a command                                                   *)

LEMMA StepPairs ==
  ASSUME NEW ws \in Seq(Workers), NEW a, NEW b,
         (a = "pill" /\ b = "wait") \/ (a = "spawn" /\ b = "started")
  PROVE  /\ Pairs(a, b, ws) \in Seq(Step) /\ Shaped(Pairs(a, b, ws))
         /\ \A i \in 1..Len(Pairs(a, b, ws)) : Pairs(a, b, ws)[i][1] \in {a, b}
         /\ Pairs(a, b, ws) # <<>> => Pairs(a, b, ws)[1][1] = a
<1> DEFINE s == Pairs(a, b, ws)
<1>1. /\ s \in Seq({a, b} \X Workers) /\ Shaped(s)
      /\ \A i \in 1..Len(s) : s[i][1] \in {a, b}
      /\ s # <<>> => s[1][1] = a
  BY PairsShaped, ZenonT(60)
<1> HIDE DEF s
<1>2. {a, b} \X Workers \subseteq Step
  BY DEF Step
<1>3. s \in Seq(Step)
  BY <1>1, <1>2, SeqOfMore
<1> QED
  BY <1>1, <1>3 DEF s

LEMMA OrderFacts ==
  /\ Order \in Seq(Workers) /\ Len(Order) \in Nat /\ DOMAIN Order = 1..Len(Order)
  /\ \A i \in 1..Len(Order) : Order[i] \in Workers
<1>1. Order \in Seq(Services \union {"ingestd"})
  BY SupervisorAssumption
<1>2. Len(Order) \in Nat /\ DOMAIN Order = 1..Len(Order)
  BY <1>1
<1>3. \A i \in 1..Len(Order) : Order[i] \in Workers
  BY <1>2 DEF Workers
<1>4. Order = [i \in 1..Len(Order) |-> Order[i]]
  BY <1>1
<1>5. Order \in Seq(Workers)
  BY <1>2, <1>3, <1>4
<1> QED
  BY <1>2, <1>3, <1>5

LEMMA TargetsFacts ==
  ASSUME NEW service \in Workers \union {""}
  PROVE  /\ Targets(Order, service) \in Seq(Workers)
         /\ service = "" => \A w \in Workers : \E k \in 1..Len(Targets(Order, service)) :
                              Targets(Order, service)[k] = w
<1>1. Order \in Seq(Workers) /\ DOMAIN Order = 1..Len(Order)
  BY OrderFacts
<1>2. CASE service = ""
  BY <1>1, <1>2 DEF Targets, Workers
<1>3. CASE service # ""
  <2>1. service \in Workers
    BY <1>3
  <2>2. <<service>> \in Seq(Workers)
    BY <2>1, Single
  <2> QED
    BY <1>3, <2>2 DEF Targets
<1> QED
  BY <1>2, <1>3

LEMMA MonitorShaped ==
  /\ MonitorOnce \in Seq(Step) /\ Shaped(MonitorOnce)
  /\ \A i \in 1..Len(MonitorOnce) : MonitorOnce[i][1] = "watch"
<1>1. /\ Order \in Seq(Workers) /\ Len(Order) \in Nat /\ DOMAIN Order = 1..Len(Order)
      /\ \A i \in 1..Len(Order) : Order[i] \in Workers
  BY OrderFacts
<1>2. \A i \in 1..Len(Order) : <<"watch", Order[i]>> \in Step
  BY <1>1 DEF Step
<1>3. MonitorOnce \in Seq(Step) /\ Len(MonitorOnce) = Len(Order)
  <2>1. MonitorOnce = [i \in 1..Len(Order) |-> <<"watch", Order[i]>>]
    BY <1>1 DEF MonitorOnce
  <2>2. /\ MonitorOnce = [i \in 1..Len(Order) |-> MonitorOnce[i]]
        /\ \A i \in 1..Len(Order) : MonitorOnce[i] \in Step
    BY <1>2, <2>1
  <2> QED
    BY <1>1, <2>2, ByIndex
<1>4. \A i \in 1..Len(MonitorOnce) : MonitorOnce[i][1] = "watch"
  BY <1>1, <1>3 DEF MonitorOnce
<1>5. "watch" \notin Begins /\ "watch" \notin Ends
  BY DEF Begins, Ends
<1>6. 2..Len(MonitorOnce) \subseteq 1..Len(MonitorOnce)
  BY <1>1, <1>3
<1> QED
  BY <1>3, <1>4, <1>5, <1>6 DEF Shaped

\* The execution of a command, followed by monitor_once: it begins with no
\* second half, revives nobody, and only a start or a restart spawns.
LEMMA ExecutionShaped ==
  ASSUME NEW c \in Commands
  PROVE  LET steps == Execution(c) \o MonitorOnce IN
         /\ steps \in Seq(Step) /\ Shaped(steps)
         /\ steps # <<>> => steps[1][1] \notin Ends
         /\ \A i \in 1..Len(steps) : steps[i][1] # "revived"
         /\ c.type \notin {"Start", "Restart"} =>
              \A i \in 1..Len(steps) : steps[i][1] # "spawn"
         /\ c.type = "Start" /\ c.service = "" =>
              \A w \in Workers : \E i \in 1..Len(steps) : steps[i] = <<"spawn", w>>
<1> DEFINE x == Execution(c)
           m == MonitorOnce
           ws == Targets(Order, c.service)
           stop == Pairs("pill", "wait", ws)
           start == Pairs("spawn", "started", ws)
<1>1. c.type \in CommandType /\ c.service \in Workers \union {""}
  BY SupervisorAssumption
<1>2. /\ ws \in Seq(Workers)
      /\ c.service = "" => \A w \in Workers : \E k \in 1..Len(ws) : ws[k] = w
  BY <1>1, TargetsFacts
<1>8. /\ c.type = "Start" => x = start
      /\ c.type = "Stop" => x = stop
      /\ c.type = "Restart" => x = stop \o start
      /\ c.type \notin {"Start", "Stop", "Restart"} => x = <<>>
  BY <1>1 DEF Execution, CommandType, StartWorkers, StopWorkers
<1> HIDE DEF x, ws
<1>3. /\ stop \in Seq(Step) /\ Shaped(stop)
      /\ \A i \in 1..Len(stop) : stop[i][1] \in {"pill", "wait"}
      /\ stop # <<>> => stop[1][1] = "pill"
  BY <1>2, StepPairs
<1>4. /\ start \in Seq(Step) /\ Shaped(start)
      /\ \A i \in 1..Len(start) : start[i][1] \in {"spawn", "started"}
      /\ start # <<>> => start[1][1] = "spawn"
  BY <1>2, StepPairs
<1>19. \A k \in 1..Len(ws) : \E i \in 1..Len(start) : start[i] = <<"spawn", ws[k]>>
  <2>1. ASSUME NEW k \in 1..Len(ws)
        PROVE  \E i \in 1..Len(start) : start[i] = <<"spawn", ws[k]>>
    <3>1. ws \in Seq(Workers)
      BY <1>2
    <3> QED
      BY <3>1, PairsReach
  <2> QED
    BY <2>1
<1> HIDE DEF m, stop, start
<1>5. c.service = "" => \A w \in Workers : \E i \in 1..Len(start) : start[i] = <<"spawn", w>>
  <2>1. ASSUME NEW w \in Workers, c.service = ""
        PROVE  \E i \in 1..Len(start) : start[i] = <<"spawn", w>>
    <3>1. PICK k \in 1..Len(ws) : ws[k] = w
      BY <1>2, <2>1
    <3> QED
      BY <1>19, <3>1
  <2> QED
    BY <2>1
<1>6. /\ m \in Seq(Step) /\ Shaped(m)
      /\ \A i \in 1..Len(m) : m[i][1] = "watch"
      /\ m # <<>> => m[1][1] \notin Ends
  BY MonitorShaped DEF Ends, m
<1>7. start # <<>> => start[1][1] \notin Ends
  BY <1>4 DEF Ends
<1>9. stop \o start \in Seq(Step) /\ Shaped(stop \o start)
  BY <1>3, <1>4, <1>7, ConcatShaped
<1>10. <<>> \in Seq(Step) /\ Shaped(<<>>)
  BY DEF Shaped
<1>11. x \in Seq(Step) /\ Shaped(x)
  BY <1>3, <1>4, <1>8, <1>9, <1>10
<1>12. x \o m \in Seq(Step) /\ Shaped(x \o m)
  BY <1>6, <1>11, ConcatShaped
<1>13. \A i \in 1..Len(x \o m) :
         \/ \E k \in 1..Len(x) : (x \o m)[i] = x[k]
         \/ \E k \in 1..Len(m) : (x \o m)[i] = m[k]
  BY <1>6, <1>11
<1>14. \A i \in 1..Len(x) : i \in 1..Len(x \o m) /\ (x \o m)[i] = x[i]
  BY <1>6, <1>11
<1>15. \A i \in 1..Len(stop \o start) :
         \/ \E k \in 1..Len(stop) : (stop \o start)[i] = stop[k]
         \/ \E k \in 1..Len(start) : (stop \o start)[i] = start[k]
  BY <1>3, <1>4
<1>16. ASSUME NEW i \in 1..Len(x)
       PROVE  /\ x[i][1] # "revived"
              /\ c.type \notin {"Start", "Restart"} => x[i][1] # "spawn"
  <2>1. CASE c.type = "Restart"
    <3>1. \/ \E k \in 1..Len(stop) : x[i] = stop[k]
          \/ \E k \in 1..Len(start) : x[i] = start[k]
      BY <1>8, <1>15, <2>1
    <3> QED
      BY <1>3, <1>4, <2>1, <3>1
  <2>2. CASE c.type \in {"Start", "Stop"}
    BY <1>3, <1>4, <1>8, <2>2
  <2>3. CASE c.type \notin {"Start", "Stop", "Restart"}
    BY <1>8, <2>3
  <2> QED
    BY <2>1, <2>2, <2>3
<1>17. x # <<>> => x[1][1] \notin Ends
  <2>1. CASE c.type = "Restart"
    <3>1. stop # <<>> => (stop \o start)[1] = stop[1]
      BY <1>3, <1>4
    <3>2. stop = <<>> => stop \o start = start
      BY <1>3, <1>4
    <3> QED
      BY <1>3, <1>7, <1>8, <2>1, <3>1, <3>2 DEF Ends
  <2>2. CASE c.type # "Restart"
    BY <1>3, <1>7, <1>8, <2>2 DEF Ends
  <2> QED
    BY <2>1, <2>2
<1>18. x \o m # <<>> => (x \o m)[1][1] \notin Ends
  <2>1. x # <<>> => (x \o m)[1] = x[1]
    BY <1>6, <1>11
  <2>2. x = <<>> => x \o m = m
    BY <1>6, <1>11
  <2> QED
    BY <1>6, <1>17, <2>1, <2>2
<1> QED
  <2>1. x \o m = Execution(c) \o MonitorOnce
    BY DEF x, m
  <2>2. \A i \in 1..Len(x \o m) : (x \o m)[i][1] # "revived"
    BY <1>6, <1>13, <1>16
  <2>3. c.type \notin {"Start", "Restart"} =>
          \A i \in 1..Len(x \o m) : (x \o m)[i][1] # "spawn"
    BY <1>6, <1>13, <1>16
  <2>4. c.type = "Start" /\ c.service = "" =>
          \A w \in Workers : \E i \in 1..Len(x \o m) : (x \o m)[i] = <<"spawn", w>>
    BY <1>5, <1>8, <1>14
  <2> QED
    BY <1>12, <1>18, <2>1, <2>2, <2>3, <2>4

----------------------------------------------------------------------------
(* Type correctness.  PassOver drops two steps, so that it depends on the   *)
(* shape of what the supervisor has left to do.                             *)

StepType == todo \in Seq(Step) /\ Shaped(todo)

LoadType ==
  /\ queue \in [Services -> Seq(Message)]
  /\ pending \in [Services -> [Kind -> Nat]]

RestType ==
  /\ sup \in {"down", "up"}
  /\ cmds \in Seq(Commands)
  /\ state \in [Workers -> {"Running", "Stopped"}]
  /\ sent \in Nat /\ jobs \in Nat /\ kills \in Nat /\ supCrashes \in Nat

LEMMA StepDone ==
  ASSUME StepType, todo # <<>>, todo' = Tail(todo)
  PROVE  StepType'
BY TailFacts, TailShaped DEF StepType

LEMMA PassOverSteps ==
  ASSUME StepType, NEW w \in Workers, PassOver(w)
  PROVE  /\ Tail(todo) # <<>> /\ Tail(todo) \in Seq(Step) /\ Shaped(Tail(todo))
         /\ Head(todo) = <<"pill", w>> /\ Head(Tail(todo)) = <<"wait", w>>
         /\ StepType'
<1>1. todo # <<>> /\ Head(todo) = <<"pill", w>> /\ todo' = Tail(Tail(todo))
  BY DEF PassOver, Doing
<1>2. Tail(todo) \in Seq(Step) /\ Shaped(Tail(todo)) /\ Tail(todo) # <<>>
      /\ Follows(Head(todo), Head(Tail(todo)))
  BY <1>1, TailFacts, TailShaped DEF StepType, Begins
<1>3. Head(Tail(todo)) = <<"wait", w>>
  BY <1>1, <1>2 DEF Follows
<1>4. StepType'
  BY <1>1, <1>2, TailFacts, TailShaped DEF StepType
<1> QED
  BY <1>1, <1>2, <1>3, <1>4

\* What follows a step that is no first half is no second half.
LEMMA AfterStep ==
  ASSUME StepType, todo # <<>>, Head(todo)[1] \notin Begins
  PROVE  Tail(todo) # <<>> => Tail(todo)[1][1] \notin Ends
<1>1. Tail(todo) # <<>> => Head(Tail(todo)) = Tail(todo)[1]
  BY TailFacts DEF StepType
<1> QED
  BY <1>1, TailShaped DEF StepType, Follows, Begins

LEMMA NextSteps ==
  ASSUME StepType, cmds \in Seq(Commands), [Next]_vars
  PROVE  StepType'
<1> USE DEF load, counters
<1>a. UNCHANGED todo => StepType'
  BY DEF StepType
<1>1. CASE PollNothing
  BY <1>1, MonitorShaped DEF PollNothing, StepType
<1>2. CASE PollCommand
  <2>1. Head(cmds) \in Commands
    BY <1>2 DEF PollCommand
  <2> QED
    BY <1>2, <2>1, ExecutionShaped DEF PollCommand, StepType
<1>3. ASSUME NEW w \in Workers, Spawn(w) \/ Started(w) \/ Revived(w) \/ SendPill(w) \/ Wait(w)
      PROVE  StepType'
  BY <1>3, StepDone DEF Spawn, Started, Revived, Replaced, SendPill, Wait, Doing
<1>4. ASSUME NEW w \in Workers, PassOver(w) PROVE StepType'
  BY <1>4, PassOverSteps
<1>5. ASSUME NEW w \in Workers, Watch(w) PROVE StepType'
  <2>1. todo # <<>> /\ Head(todo) = <<"watch", w>>
    BY <1>5 DEF Watch, Doing
  <2>2. Tail(todo) \in Seq(Step) /\ Shaped(Tail(todo))
    BY <2>1, TailFacts, TailShaped DEF StepType
  <2>3. Tail(todo) # <<>> => Tail(todo)[1][1] \notin Ends
    BY <2>1, AfterStep DEF Begins
  <2>4. <<"spawn", w>> \in Step /\ <<"revived", w>> \in Step
    BY DEF Step
  <2> QED
    BY <1>5, <2>2, <2>3, <2>4, RestartShaped DEF Watch, StepType
<1>6. CASE SupStart
  BY <1>6 DEF SupStart, StepType, Shaped
<1>7. CASE PollFault \/ Submit \/ SupCrash \/ UNCHANGED vars
  BY <1>7, <1>a DEF PollFault, Submit, SupCrash, vars
<1>8. ASSUME NEW w \in Workers, NEW r \in Role, Boot(w, r) \/ Kill(w, r) PROVE StepType'
  BY <1>8, <1>a DEF Boot, Kill
<1>9. ASSUME NEW s \in Services, Serve(s) \/ \E k \in Kind : Forward(s, k) PROVE StepType'
  BY <1>9, <1>a DEF Serve, TakeJob, TakePill, Leave, Forward
<1>10. ASSUME NEW c \in Commands, Post(c) PROVE StepType'
  BY <1>10, <1>a DEF Post
<1>11. ASSUME NEW w \in Workers, OrphanLeaves(w) PROVE StepType'
  BY <1>11, <1>a DEF OrphanLeaves
<1> QED
  BY <1>1, <1>2, <1>3, <1>4, <1>5, <1>6, <1>7, <1>8, <1>9, <1>10, <1>11 DEF Next, Loop

LEMMA QueueTyped ==
  ASSUME LoadType, NEW s \in Services
  PROVE  /\ \A m \in Message : [queue EXCEPT ![s] = Append(@, m)] \in [Services -> Seq(Message)]
         /\ queue[s] # <<>> =>
              /\ [queue EXCEPT ![s] = Tail(@)] \in [Services -> Seq(Message)]
              /\ Head(queue[s]) \in Message
BY DEF LoadType

LEMMA PendingTyped ==
  ASSUME LoadType, NEW s \in Services
  PROVE  /\ [pending EXCEPT ![s] = NoTasks] \in [Services -> [Kind -> Nat]]
         /\ \A k \in Kind :
              /\ [pending EXCEPT ![s][k] = @ + 1] \in [Services -> [Kind -> Nat]]
              /\ pending[s][k] > 0 =>
                   [pending EXCEPT ![s][k] = @ - 1] \in [Services -> [Kind -> Nat]]
<1>1. NoTasks \in [Kind -> Nat]
  BY DEF NoTasks
<1>2. pending[s] \in [Kind -> Nat]
  BY DEF LoadType
<1>3. ASSUME NEW k \in Kind, NEW n \in Nat
      PROVE  [pending EXCEPT ![s][k] = n] \in [Services -> [Kind -> Nat]]
  <2>1. [pending[s] EXCEPT ![k] = n] \in [Kind -> Nat]
    BY <1>2
  <2> QED
    BY <2>1 DEF LoadType
<1>4. ASSUME NEW k \in Kind
      PROVE  pending[s][k] + 1 \in Nat /\ (pending[s][k] > 0 => pending[s][k] - 1 \in Nat)
  BY <1>2
<1> QED
  BY <1>1, <1>3, <1>4 DEF LoadType

LEMMA TasksWithoutTyped ==
  ASSUME LoadType, NEW w, NEW p
  PROVE  TasksWithout(w, p) \in [Services -> [Kind -> Nat]]
BY PendingTyped DEF TasksWithout, LoadType

LEMMA NextLoad ==
  ASSUME LoadType, [Next]_vars
  PROVE  LoadType'
<1> USE DEF load, counters
<1>a. UNCHANGED <<queue, pending>> => LoadType'
  BY DEF LoadType
<1>b. Kind \subseteq Message /\ "pill" \in Message
  BY DEF Message
<1>1. CASE PollNothing \/ PollCommand \/ PollFault
  BY <1>1, <1>a DEF PollNothing, PollCommand, PollFault
<1>2. ASSUME NEW w \in Workers, Spawn(w) \/ PassOver(w) \/ Wait(w) \/ Watch(w) PROVE LoadType'
  BY <1>2, <1>a DEF Spawn, PassOver, Wait, Watch
<1>3. ASSUME NEW w \in Workers, Started(w) \/ Revived(w) PROVE LoadType'
  BY <1>3, TasksWithoutTyped DEF Started, Revived, Replaced, LoadType
<1>4. ASSUME NEW w \in Workers, SendPill(w) PROVE LoadType'
  BY <1>4, <1>b, QueueTyped DEF SendPill, LoadType
<1>5. ASSUME NEW w \in Workers, NEW r \in Role, Boot(w, r) PROVE LoadType'
  BY <1>5, <1>a DEF Boot
<1>6. ASSUME NEW w \in Workers, NEW r \in Role, Kill(w, r) PROVE LoadType'
  BY <1>6, TasksWithoutTyped DEF Kill, LoadType
<1>7. ASSUME NEW s \in Services, NEW r \in Role, TakeJob(s, r) PROVE LoadType'
  <2>1. queue' \in [Services -> Seq(Message)]
    BY <1>7, QueueTyped DEF TakeJob
  <2>2. PICK answer \in Answers(s, Head(queue[s])) :
          pending' = IF answer = "nothing" THEN pending ELSE [pending EXCEPT ![s][answer] = @ + 1]
    BY <1>7 DEF TakeJob
  <2>3. answer = "nothing" \/ answer \in Kind
    BY DEF Answers, Kind
  <2> QED
    BY <2>1, <2>2, <2>3, PendingTyped DEF LoadType
<1>8. ASSUME NEW s \in Services, NEW r \in Role, TakePill(s, r) \/ Leave(s, r) PROVE LoadType'
  BY <1>8, <1>a, QueueTyped DEF TakePill, Leave, LoadType
<1>9. ASSUME NEW s \in Services, NEW k \in Kind, Forward(s, k) PROVE LoadType'
  <2>1. Destination(s, k) \in Services
    BY DEF Destination, Services
  <2> QED
    BY <1>9, <1>b, <2>1, QueueTyped, PendingTyped DEF Forward, LoadType
<1>10. CASE Submit
  <2>1. "qm" \in Services /\ "NEW" \in Message
    BY DEF Services, Message, Kind
  <2> QED
    BY <1>10, <2>1, QueueTyped DEF Submit, LoadType
<1>11. CASE SupCrash \/ UNCHANGED vars
  BY <1>11, <1>a DEF SupCrash, vars
<1>12. ASSUME NEW c \in Commands, Post(c) PROVE LoadType'
  BY <1>12, <1>a DEF Post
<1>13. CASE SupStart
  <2>1. NoTasks \in [Kind -> Nat]
    BY DEF NoTasks
  <2> QED
    BY <1>13, <2>1 DEF SupStart, LoadType
<1>14. ASSUME NEW w \in Workers, OrphanLeaves(w) PROVE LoadType'
  BY <1>14, <1>a DEF OrphanLeaves
<1> QED
  BY <1>1, <1>2, <1>3, <1>4, <1>5, <1>6, <1>7, <1>8, <1>9, <1>10, <1>11, <1>12, <1>13, <1>14
     DEF Next, Loop, Serve

LEMMA NextRest ==
  ASSUME RestType, [Next]_vars
  PROVE  RestType'
<1> USE DEF load, counters, RestType
<1>0. cmds # <<>> => Tail(cmds) \in Seq(Commands)
  OBVIOUS
<1>1. CASE PollNothing \/ PollCommand \/ PollFault
  BY <1>0, <1>1 DEF PollNothing, PollCommand, PollFault
<1>2. ASSUME NEW w \in Workers,
             Spawn(w) \/ Started(w) \/ Revived(w) \/ PassOver(w) \/ SendPill(w) \/ Wait(w) \/ Watch(w)
      PROVE  RestType'
  BY <1>2 DEF Spawn, Started, Revived, Replaced, PassOver, SendPill, Wait, Watch
<1>3. ASSUME NEW w \in Workers, NEW r \in Role, Boot(w, r) \/ Kill(w, r) PROVE RestType'
  BY <1>3 DEF Boot, Kill
<1>4. ASSUME NEW s \in Services, Serve(s) \/ \E k \in Kind : Forward(s, k) PROVE RestType'
  BY <1>4 DEF Serve, TakeJob, TakePill, Leave, Forward
<1>5. CASE Submit \/ SupCrash \/ UNCHANGED vars
  BY <1>5 DEF Submit, SupCrash, vars
<1>8. CASE SupStart
  BY <1>8 DEF SupStart
<1>6. ASSUME NEW c \in Commands, Post(c) PROVE RestType'
  BY <1>6 DEF Post
<1>7. ASSUME NEW w \in Workers, OrphanLeaves(w) PROVE RestType'
  BY <1>7 DEF OrphanLeaves
<1> QED
  BY <1>1, <1>2, <1>3, <1>4, <1>5, <1>6, <1>7, <1>8 DEF Next, Loop

----------------------------------------------------------------------------
(* What a command has left to do and what the processes are doing           *)

\* The supervisor is at this step, or died at it.
At(op, w) == todo # <<>> /\ Head(todo) = <<op, w>>

\* A revival in progress is of a worker that should run.
RevivesRunning ==
  \A i \in 1..Len(todo) :
    todo[i][1] = "revived" => i <= 2 /\ state[todo[i][2]] = "Running"

\* A replaced process is there only between the two steps that replace it.
OldIsReplaced ==
  \A w \in Workers : child[w].old # "null" => At("started", w) \/ At("revived", w)

\* StoppedMeansDown for the supervisor's own children, also while none runs.
Down ==
  \A w \in Workers :
    state[w] = "Stopped" /\ ~At("started", w) => \A r \in Role : ~Alive(child[w][r])

Pilled(s) == \E i \in DOMAIN queue[s] : queue[s][i] = "pill"

\* StopIsHeard, also while no supervisor runs.
Heard ==
  \A w \in Workers \intersect Services :
    At("wait", w) => child[w].cur \in {"draining", "dead"} \/ Pilled(w)

\* A worker without a process is about to get one, unless none has one and none
\* is about to.
Named ==
  \A w \in Workers : child[w].cur = "null" =>
    \/ \E i \in 1..Len(todo) : todo[i] = <<"spawn", w>>
    \/ /\ \A v \in Workers : child[v].cur = "null"
       /\ \A i \in 1..Len(todo) : todo[i][1] # "spawn"

Progress == RevivesRunning /\ OldIsReplaced /\ Down /\ Heard /\ Named

Typed == IInv /\ StepType /\ LoadType /\ RestType
CommandInv == Typed /\ Progress

\* Taking a step that spawns nothing off the list.
LEMMA TailEffects ==
  ASSUME StepType, todo # <<>>, todo' = Tail(todo)
  PROVE  /\ Head(todo)[1] # "spawn" /\ RevivesRunning =>
              \A i \in 1..Len(todo') : todo'[i][1] # "revived"
         /\ Head(todo)[1] # "spawn" =>
              \A w \in Workers : ~At("started", w)' /\ ~At("revived", w)'
         /\ Head(todo)[1] # "pill" => \A w \in Workers : ~At("wait", w)'
<1>1. Head(todo) = todo[1] /\ 1 \in 1..Len(todo)
  BY TailFacts DEF StepType
<1>2. \A i \in 1..Len(todo') : todo'[i] = todo[i + 1] /\ i + 1 \in 2..Len(todo)
  BY TailFacts DEF StepType
<1>3. 2..Len(todo) \subseteq 1..Len(todo) /\ Len(todo) \in Nat
  BY DEF StepType
<1>4. ASSUME Head(todo)[1] # "spawn", RevivesRunning, NEW i \in 1..Len(todo'),
             todo'[i][1] = "revived"
      PROVE  FALSE
  <2>1. i + 1 <= 2 /\ i + 1 \in 2..Len(todo) /\ todo[i + 1][1] = "revived"
    BY <1>2, <1>3, <1>4 DEF RevivesRunning
  <2>2. i + 1 = 2 /\ 2 \in 2..Len(todo) /\ 2 - 1 = 1
    BY <1>3, <2>1
  <2>3. Follows(todo[1], todo[2])
    BY <2>1, <2>2 DEF StepType, Shaped, Ends
  <2> QED
    BY <1>1, <1>4, <2>1, <2>2, <2>3 DEF Follows
<1>5. todo' # <<>> /\ Head(todo')[1] \in Ends => Follows(Head(todo), Head(todo'))
  BY TailShaped DEF StepType
<1>6. ASSUME Head(todo)[1] # "spawn", NEW w \in Workers,
             At("started", w)' \/ At("revived", w)'
      PROVE  FALSE
  BY <1>5, <1>6 DEF At, Follows, Ends
<1>7. ASSUME Head(todo)[1] # "pill", NEW w \in Workers, At("wait", w)'
      PROVE  FALSE
  BY <1>5, <1>7 DEF At, Follows, Ends
<1> QED
  BY <1>4, <1>6, <1>7

LEMMA NamedKept ==
  ASSUME StepType, Named, todo # <<>>, Head(todo)[1] # "spawn",
         \A i \in 2..Len(todo) : todo[i][1] = "spawn" =>
           \E k \in 1..Len(todo') : todo'[k] = todo[i],
         \A k \in 1..Len(todo') : todo'[k][1] = "spawn" =>
           (\E i \in 1..Len(todo) : todo'[k] = todo[i]) \/ child[todo'[k][2]].cur # "null",
         \A k \in 1..Len(todo') : todo'[k] \in Step,
         \A w \in Workers : child'[w].cur = "null" <=> child[w].cur = "null"
  PROVE  Named'
<1>1. Head(todo) = todo[1]
  BY TailFacts DEF StepType
<1>2. Len(todo) \in Nat
  BY DEF StepType
<1>3. ASSUME NEW w \in Workers, child'[w].cur = "null",
             NEW i \in 1..Len(todo), todo[i] = <<"spawn", w>>
      PROVE  \E k \in 1..Len(todo') : todo'[k] = <<"spawn", w>>
  <2>1. i # 1
    BY <1>1, <1>3
  <2>2. i \in 2..Len(todo) /\ todo[i][1] = "spawn"
    BY <1>2, <1>3, <2>1
  <2>3. PICK k \in 1..Len(todo') : todo'[k] = todo[i]
    BY <2>2
  <2> QED
    BY <1>3, <2>3
<1>4. ASSUME \A v \in Workers : child[v].cur = "null",
             \A i \in 1..Len(todo) : todo[i][1] # "spawn",
             NEW k \in 1..Len(todo'), todo'[k][1] = "spawn"
      PROVE  FALSE
  <2>1. todo'[k][2] \in Workers
    BY DEF Step
  <2> QED
    BY <1>4, <2>1
<1> QED
  BY <1>3, <1>4 DEF Named

LEMMA NamedTail ==
  ASSUME StepType, Named, todo # <<>>, Head(todo)[1] # "spawn", todo' = Tail(todo),
         \A w \in Workers : child'[w].cur = "null" <=> child[w].cur = "null"
  PROVE  Named'
<1>1. /\ \A i \in 2..Len(todo) : todo[i] = todo'[i - 1] /\ i - 1 \in 1..Len(todo')
      /\ \A k \in 1..Len(todo') : todo'[k] = todo[k + 1] /\ k + 1 \in 2..Len(todo)
      /\ \A i \in 1..Len(todo) : todo[i] \in Step
      /\ Len(todo) \in Nat
  BY TailFacts DEF StepType
<1>2. 2..Len(todo) \subseteq 1..Len(todo)
  BY <1>1
<1>3. \A k \in 1..Len(todo') : todo'[k] \in Step
  BY <1>1, <1>2
<1> QED
  BY <1>1, <1>2, <1>3, NamedKept

\* A step of others than the supervisor's loop that takes no stop job away.
LEMMA QuietStep ==
  ASSUME Progress, UNCHANGED <<todo, state, child>>,
         \A s \in Services : Pilled(s) => Pilled(s)'
  PROVE  Progress'
<1>1. RevivesRunning' /\ OldIsReplaced' /\ Down' /\ Named'
  BY DEF Progress, RevivesRunning, OldIsReplaced, Down, Named, At
<1>2. Heard'
  BY DEF Progress, Heard, At
<1> QED
  BY <1>1, <1>2 DEF Progress

\* A living process that boots, drains or dies.
LEMMA ProcessStep ==
  ASSUME ProcessType, Progress, UNCHANGED <<todo, state>>,
         NEW w \in Workers, NEW r \in Role, NEW x \in {"up", "draining", "dead"},
         Alive(child[w][r]), child' = [child EXCEPT ![w][r] = x],
         x = "up" => child[w][r] = "booting" /\ UNCHANGED queue,
         \A s \in Services : s # w /\ Pilled(s) => Pilled(s)'
  PROVE  Progress'
<1>1. child[w] \in [Role -> ProcessState] /\ x \in ProcessState
  BY DEF ProcessType, ProcessState
<1>2. child'[w] = [child[w] EXCEPT ![r] = x]
  BY DEF ProcessType
<1>3. \A v \in Workers : v # w => child'[v] = child[v]
  BY DEF ProcessType
<1>4. /\ child'[w].cur = IF r = "cur" THEN x ELSE child[w].cur
      /\ child'[w].old = IF r = "old" THEN x ELSE child[w].old
  BY <1>1, <1>2, RoleFields
<1>5. child[w][r] # "null" /\ child[w][r] # "dead" /\ x # "null"
  BY DEF Alive
<1>6. RevivesRunning'
  BY DEF Progress, RevivesRunning
<1>7. OldIsReplaced'
  <2>1. \A v \in Workers : child'[v].old # "null" => child[v].old # "null"
    BY <1>3, <1>4, <1>5
  <2> QED
    BY <2>1 DEF Progress, OldIsReplaced, At
<1>8. Down'
  <2>1. ASSUME NEW v \in Workers, NEW q \in Role, Alive(child'[v][q])
        PROVE  \E p \in Role : Alive(child[v][p])
    BY <1>3, <1>4, <2>1 DEF Role
  <2> QED
    BY <2>1 DEF Progress, Down, At
<1>9. Named'
  <2>1. \A v \in Workers : child'[v].cur = "null" <=> child[v].cur = "null"
    BY <1>3, <1>4, <1>5
  <2> QED
    BY <2>1 DEF Progress, Named
<1>10. Heard'
  <2>1. CASE r = "old"
    <3>1. At("started", w) \/ At("revived", w)
      BY <1>5, <2>1 DEF Progress, OldIsReplaced
    <3>2. \A v \in Workers : ~At("wait", v)'
      BY <3>1 DEF At
    <3> QED
      BY <3>2 DEF Heard
  <2>2. CASE r = "cur"
    <3>1. child'[w].cur = x
      BY <1>4, <2>2
    <3>2. x = "up" => child[w].cur \notin {"draining", "dead"}
      BY <2>2
    <3>3. ASSUME x = "up" PROVE \A s \in Services : Pilled(s) => Pilled(s)'
      BY <3>3 DEF Pilled
    <3> QED
      BY <1>3, <3>1, <3>2, <3>3 DEF Progress, Heard, At
  <2> QED
    BY <2>1, <2>2 DEF Role
<1> QED
  BY <1>6, <1>7, <1>8, <1>9, <1>10 DEF Progress

\* The loop begins with a command, or with monitor_once.
LEMMA PollStep ==
  ASSUME Progress, todo = <<>>, UNCHANGED <<state, child>>,
         todo' \in Seq(Step), todo' # <<>> => todo'[1][1] \notin Ends,
         \A i \in 1..Len(todo') : todo'[i][1] # "revived",
         \/ \A w \in Workers : child[w].cur # "null"
         \/ \A i \in 1..Len(todo') : todo'[i][1] # "spawn"
         \/ \A w \in Workers : \E i \in 1..Len(todo') : todo'[i] = <<"spawn", w>>
  PROVE  Progress'
<1>1. \A op, w : ~At(op, w)
  BY DEF At
<1>2. todo' # <<>> => Head(todo') = todo'[1]
  OBVIOUS
<1>3. \A w \in Workers : ~At("started", w)' /\ ~At("wait", w)'
  BY <1>2 DEF At, Ends
<1>4. RevivesRunning'
  BY DEF RevivesRunning
<1>5. OldIsReplaced'
  BY <1>1 DEF Progress, OldIsReplaced
<1>6. Down'
  BY <1>1 DEF Progress, Down
<1>7. Heard'
  BY <1>3 DEF Heard
<1>8. Named'
  <2>1. ASSUME NEW w \in Workers, child[w].cur = "null"
        PROVE  \A v \in Workers : child[v].cur = "null"
    <3>1. \A i : i \notin 1..Len(todo)
      OBVIOUS
    <3> QED
      BY <2>1, <3>1 DEF Progress, Named
  <2> QED
    BY <2>1 DEF Named
<1> QED
  BY <1>4, <1>5, <1>6, <1>7, <1>8 DEF Progress

\* A child is spawned, beside the one it replaces.
LEMMA SpawnStep ==
  ASSUME ProcessType, StepType, Progress, NEW w \in Workers, Spawn(w)
  PROVE  Progress'
<1>1. todo # <<>> /\ Head(todo) = <<"spawn", w>> /\ todo' = Tail(todo) /\ UNCHANGED state
  BY DEF Spawn, Doing
<1>2. todo' # <<>> /\ (Head(todo') = <<"started", w>> \/ Head(todo') = <<"revived", w>>)
  BY <1>1, TailShaped DEF StepType, Begins, Follows
<1>3. \A v \in Workers : v # w => child'[v] = child[v]
  BY DEF Spawn, ProcessType
<1>4. child'[w].cur = "booting"
  BY DEF Spawn, ProcessType
<1>5. \A v \in Workers : child[v].old = "null" /\ ~At("started", v)
  BY <1>1 DEF Progress, OldIsReplaced, At
<1>6. /\ \A i \in 1..Len(todo') : todo'[i] = todo[i + 1] /\ i + 1 \in 2..Len(todo)
      /\ \A i \in 2..Len(todo) : todo[i] = todo'[i - 1] /\ i - 1 \in 1..Len(todo')
      /\ Head(todo) = todo[1] /\ 1 \in 1..Len(todo) /\ Len(todo) \in Nat
      /\ todo' \in Seq(Step)
  BY <1>1, TailFacts DEF StepType
<1>7. 2..Len(todo) \subseteq 1..Len(todo)
  BY <1>6
<1>8. RevivesRunning'
  <2>1. ASSUME NEW i \in 1..Len(todo'), todo'[i][1] = "revived"
        PROVE  i <= 2 /\ state[todo'[i][2]] = "Running"
    <3>1. i + 1 <= 2 /\ state[todo[i + 1][2]] = "Running"
      BY <1>6, <1>7, <2>1 DEF Progress, RevivesRunning
    <3> QED
      BY <1>6, <3>1
  <2> QED
    BY <1>1, <2>1 DEF RevivesRunning
<1>9. OldIsReplaced'
  BY <1>2, <1>3, <1>5 DEF OldIsReplaced, At
<1>10. Down'
  <2>1. ASSUME Head(todo') = <<"revived", w>> PROVE state[w] = "Running"
    <3>1. 1 \in 1..Len(todo') /\ todo'[1] = Head(todo')
      BY <1>2, <1>6
    <3>2. todo'[1][1] = "revived" /\ todo'[1][2] = w
      BY <2>1, <3>1
    <3> QED
      BY <1>1, <1>8, <3>1, <3>2 DEF RevivesRunning
  <2>2. state'[w] = "Stopped" => At("started", w)'
    BY <1>1, <1>2, <2>1 DEF At
  <2>3. \A v \in Workers : v # w /\ state'[v] = "Stopped" => \A r \in Role : ~Alive(child'[v][r])
    BY <1>1, <1>3, <1>5 DEF Progress, Down
  <2> QED
    BY <2>2, <2>3 DEF Down
<1>11. Heard'
  BY <1>2 DEF Heard, At
<1>12. Named'
  <2>1. ASSUME NEW v \in Workers, child'[v].cur = "null"
        PROVE  \E k \in 1..Len(todo') : todo'[k] = <<"spawn", v>>
    <3>1. v # w /\ child[v].cur = "null"
      BY <1>3, <1>4, <2>1
    <3>2. todo[1][1] = "spawn"
      BY <1>1, <1>6
    <3>3. PICK i \in 1..Len(todo) : todo[i] = <<"spawn", v>>
      BY <1>6, <3>1, <3>2 DEF Progress, Named
    <3>4. i # 1
      BY <1>1, <1>6, <3>1, <3>3
    <3>5. i \in 2..Len(todo)
      BY <1>6, <3>4
    <3> QED
      BY <1>6, <3>3, <3>5
  <2> QED
    BY <2>1 DEF Named
<1> QED
  BY <1>8, <1>9, <1>10, <1>11, <1>12 DEF Progress

\* The replaced child is gone.
LEMMA ReplacedStep ==
  ASSUME ProcessType, RestType, StepType, Progress, NEW w \in Workers, Started(w) \/ Revived(w)
  PROVE  Progress'
<1>1. /\ todo # <<>> /\ Head(todo) \in {<<"started", w>>, <<"revived", w>>}
      /\ todo' = Tail(todo)
      /\ child' = [child EXCEPT ![w]["old"] = "null"]
      /\ state' = [state EXCEPT ![w] = "Running"] \/ (UNCHANGED state /\ Head(todo) = <<"revived", w>>)
  BY DEF Started, Revived, Replaced, Doing
<1>2. Head(todo)[1] # "spawn" /\ Head(todo)[1] # "pill"
  BY <1>1
<1>3. /\ child[w] \in [Role -> ProcessState] /\ child'[w] = [child[w] EXCEPT !["old"] = "null"]
      /\ \A v \in Workers : v # w => child'[v] = child[v]
  BY <1>1 DEF ProcessType
<1>4. child'[w].old = "null" /\ child'[w].cur = child[w].cur
  BY <1>3, RoleFields DEF Role, ProcessState
<1>5. state'[w] = "Running" /\ \A v \in Workers : v # w => state'[v] = state[v]
  <2>1. Head(todo) = <<"revived", w>> => state[w] = "Running"
    <3>1. Head(todo) = todo[1] /\ 1 \in 1..Len(todo)
      BY <1>1, TailFacts DEF StepType
    <3>2. todo[1] = <<"revived", w>> => state[todo[1][2]] = "Running" /\ todo[1][2] = w
      BY <3>1 DEF Progress, RevivesRunning
    <3> QED
      BY <3>1, <3>2
  <2> QED
    BY <1>1, <2>1 DEF RestType
<1>6. RevivesRunning'
  BY <1>1, <1>2, TailEffects DEF Progress, RevivesRunning
<1>7. OldIsReplaced'
  <2>1. \A v \in Workers : v # w => child[v].old = "null"
    BY <1>1 DEF Progress, OldIsReplaced, At
  <2> QED
    BY <1>3, <1>4, <2>1 DEF OldIsReplaced
<1>8. Down'
  <2>1. ASSUME NEW v \in Workers, state'[v] = "Stopped"
        PROVE  \A r \in Role : ~Alive(child'[v][r])
    <3>1. v # w /\ state[v] = "Stopped" /\ ~At("started", v)
      BY <1>1, <1>5, <2>1 DEF At
    <3> QED
      BY <1>3, <3>1 DEF Progress, Down
  <2> QED
    BY <2>1 DEF Down
<1>9. Heard'
  BY <1>1, <1>2, TailEffects DEF Heard
<1>10. Named'
  BY <1>1, <1>2, <1>3, <1>4, NamedTail DEF Progress
<1> QED
  BY <1>6, <1>7, <1>8, <1>9, <1>10 DEF Progress

\* A step of stop or of the monitor that leaves the handles alone.
LEMMA StopStep ==
  ASSUME ProcessType, RestType, StepType, LoadType, Progress, NEW w \in Workers,
         PassOver(w) \/ SendPill(w) \/ Wait(w)
  PROVE  Progress'
<1>1. /\ todo # <<>> /\ UNCHANGED child
      /\ Head(todo) \in {<<"pill", w>>, <<"wait", w>>}
      /\ Wait(w) => Head(todo) = <<"wait", w>>
  BY DEF PassOver, SendPill, Wait, Doing
<1>2. \A v \in Workers : child[v].old = "null" /\ ~At("started", v)
  BY <1>1 DEF Progress, OldIsReplaced, At
<1>3. OldIsReplaced'
  BY <1>1, <1>2 DEF OldIsReplaced
<1>4. /\ \A i \in 1..Len(todo) : todo[i] \in Step
      /\ \A i \in 2..Len(todo) : todo[i] = Tail(todo)[i - 1] /\ i - 1 \in 1..Len(Tail(todo))
      /\ \A i \in 1..Len(Tail(todo)) : Tail(todo)[i] = todo[i + 1] /\ i + 1 \in 2..Len(todo)
      /\ Head(todo) = todo[1] /\ Len(todo) \in Nat /\ Tail(todo) \in Seq(Step)
  BY <1>1, TailFacts DEF StepType
<1>5. CASE PassOver(w)
  <2> DEFINE t == Tail(todo)
  <2>1. todo' = Tail(t) /\ UNCHANGED <<state, queue>>
    BY <1>5 DEF PassOver, load
  <2>2. t # <<>> /\ t \in Seq(Step) /\ Shaped(t) /\ Head(t) = <<"wait", w>> /\ Head(todo) = <<"pill", w>>
    BY <1>5, PassOverSteps
  <2>3. /\ \A i \in 1..Len(t) : t[i] = todo[i + 1] /\ i + 1 \in 2..Len(todo)
        /\ \A i \in 2..Len(todo) : todo[i] = t[i - 1] /\ i - 1 \in 1..Len(t)
    BY <1>4
  <2> HIDE DEF t
  <2>4. /\ \A i \in 1..Len(todo') : todo'[i] = t[i + 1] /\ i + 1 \in 2..Len(t)
        /\ \A i \in 2..Len(t) : t[i] = todo'[i - 1] /\ i - 1 \in 1..Len(todo')
        /\ Head(t) = t[1] /\ Len(t) \in Nat
    BY <2>1, <2>2, TailFacts
  <2>5. \A i \in 1..Len(todo') : todo'[i] = todo[i + 2] /\ i + 2 \in 3..Len(todo)
    <3>1. ASSUME NEW i \in 1..Len(todo') PROVE todo'[i] = todo[i + 2] /\ i + 2 \in 3..Len(todo)
      <4>1. i + 1 \in 1..Len(t) /\ todo'[i] = t[i + 1]
        BY <2>4
      <4>2. t[i + 1] = todo[(i + 1) + 1] /\ (i + 1) + 1 \in 2..Len(todo)
        BY <2>3, <4>1
      <4> QED
        BY <1>4, <4>1, <4>2
    <3> QED
      BY <3>1
  <2>6. 3..Len(todo) \subseteq 1..Len(todo)
    BY <1>4
  <2>7. RevivesRunning'
    <3>1. ASSUME NEW i \in 1..Len(todo'), todo'[i][1] = "revived" PROVE FALSE
      <4>1. i + 2 <= 2
        BY <2>5, <2>6, <3>1 DEF Progress, RevivesRunning
      <4> QED
        BY <4>1
    <3> QED
      BY <3>1 DEF RevivesRunning
  <2>8. Down'
    BY <1>1, <1>2, <2>1 DEF Progress, Down
  <2>9. Heard'
    <3>1. todo' # <<>> => Head(todo')[1] \notin Ends
      BY <2>1, <2>2, TailShaped DEF Follows
    <3> QED
      BY <3>1 DEF Heard, At, Ends
  <2>10. Named'
    <3>1. ASSUME NEW i \in 2..Len(todo), todo[i][1] = "spawn"
          PROVE  \E k \in 1..Len(todo') : todo'[k] = todo[i]
      <4>1. i - 1 \in 1..Len(t) /\ t[i - 1] = todo[i]
        BY <2>3
      <4>2. i - 1 # 1
        BY <2>2, <2>4, <3>1, <4>1
      <4>3. i - 1 \in 2..Len(t)
        BY <2>4, <4>1, <4>2
      <4>4. t[i - 1] = todo'[(i - 1) - 1] /\ (i - 1) - 1 \in 1..Len(todo')
        BY <2>4, <4>3
      <4> QED
        BY <4>1, <4>4
    <3>2. \A k \in 1..Len(todo') : todo'[k] \in Step /\ \E i \in 1..Len(todo) : todo'[k] = todo[i]
      BY <1>4, <2>5, <2>6
    <3> QED
      BY <1>1, <2>2, <3>1, <3>2, NamedKept DEF Progress
  <2> QED
    BY <1>3, <2>7, <2>8, <2>9, <2>10 DEF Progress
<1>6. CASE SendPill(w)
  <2>1. /\ todo' = Tail(todo) /\ UNCHANGED state /\ Head(todo) = <<"pill", w>> /\ w \in Services
        /\ queue' = [queue EXCEPT ![w] = Append(@, "pill")]
    BY <1>6 DEF SendPill, Doing
  <2>2. todo' # <<>> /\ Head(todo') = <<"wait", w>>
    BY <1>1, <2>1, TailShaped DEF StepType, Begins, Follows
  <2>3. queue'[w] = Append(queue[w], "pill") /\ queue[w] \in Seq(Message)
    BY <2>1 DEF LoadType
  <2>4. Pilled(w)'
    <3>1. Len(queue[w]) + 1 \in DOMAIN queue'[w] /\ queue'[w][Len(queue[w]) + 1] = "pill"
      BY <2>3
    <3> QED
      BY <3>1 DEF Pilled
  <2>5. Heard'
    BY <2>2, <2>4 DEF Heard, At
  <2>6. RevivesRunning'
    BY <1>1, <2>1, TailEffects DEF Progress, RevivesRunning
  <2>7. Down'
    BY <1>1, <1>2, <2>1 DEF Progress, Down
  <2>8. Named'
    BY <1>1, <2>1, NamedTail DEF Progress
  <2> QED
    BY <1>3, <2>5, <2>6, <2>7, <2>8 DEF Progress
<1>7. CASE Wait(w)
  <2>1. /\ todo' = Tail(todo) /\ state' = [state EXCEPT ![w] = "Stopped"]
        /\ Head(todo) = <<"wait", w>> /\ child[w].cur = "dead"
    BY <1>7 DEF Wait, Doing
  <2>2. RevivesRunning'
    BY <1>1, <2>1, TailEffects DEF Progress, RevivesRunning
  <2>3. Heard'
    BY <1>1, <2>1, TailEffects DEF Heard
  <2>4. Named'
    BY <1>1, <2>1, NamedTail DEF Progress
  <2>5. Down'
    <3>1. \A r \in Role : ~Alive(child[w][r])
      BY <1>2, <2>1 DEF Role, Alive
    <3>2. \A v \in Workers : v # w => state'[v] = state[v]
      BY <2>1 DEF RestType
    <3> QED
      BY <1>1, <1>2, <3>1, <3>2 DEF Progress, Down
  <2> QED
    BY <1>3, <2>2, <2>3, <2>4, <2>5 DEF Progress
<1> QED
  BY <1>5, <1>6, <1>7

\* monitor_once looks at one worker.
LEMMA WatchStep ==
  ASSUME ProcessType, StepType, Progress, NEW w \in Workers, Watch(w)
  PROVE  Progress'
<1> DEFINE t == Tail(todo)
<1>1. /\ todo # <<>> /\ Head(todo) = <<"watch", w>> /\ UNCHANGED <<child, state, queue>>
      /\ \/ todo' = t
         \/ /\ child[w].cur = "dead" /\ state[w] = "Running"
            /\ todo' = <<<<"spawn", w>>, <<"revived", w>>>> \o t
  BY DEF Watch, Doing, load
<1>2. \A v \in Workers : child[v].old = "null" /\ ~At("started", v)
  BY <1>1 DEF Progress, OldIsReplaced, At
<1>3. OldIsReplaced' /\ Down'
  BY <1>1, <1>2 DEF Progress, OldIsReplaced, Down
<1>4. CASE todo' = t
  <2>1. RevivesRunning'
    BY <1>1, <1>4, TailEffects DEF Progress, RevivesRunning
  <2>2. Heard'
    BY <1>1, <1>4, TailEffects DEF Heard
  <2>3. Named'
    BY <1>1, <1>4, NamedTail DEF Progress
  <2> QED
    BY <1>3, <2>1, <2>2, <2>3 DEF Progress
<1>5. CASE /\ child[w].cur = "dead" /\ state[w] = "Running"
           /\ todo' = <<<<"spawn", w>>, <<"revived", w>>>> \o t
  <2>1. /\ t \in Seq(Step) /\ Shaped(t)
        /\ \A i \in 1..Len(t) : t[i] = todo[i + 1] /\ i + 1 \in 2..Len(todo)
        /\ \A i \in 2..Len(todo) : todo[i] = t[i - 1] /\ i - 1 \in 1..Len(t)
        /\ Len(todo) \in Nat
    BY <1>1, TailFacts, TailShaped DEF StepType
  <2>2. t # <<>> => t[1][1] \notin Ends
    BY <1>1, AfterStep DEF Begins
  <2>3. /\ todo' \in Seq(Step) /\ todo' # <<>> /\ Len(todo') = Len(t) + 2
        /\ Head(todo') = <<"spawn", w>>
        /\ todo'[1] = <<"spawn", w>> /\ todo'[2] = <<"revived", w>>
        /\ \A i \in 1..Len(t) : todo'[i + 2] = t[i]
        /\ \A i \in 3..Len(todo') : i - 2 \in 1..Len(t) /\ todo'[i] = t[i - 2]
    <3>1. <<"spawn", w>> \in Step /\ <<"revived", w>> \in Step
      BY DEF Step
    <3>2. t \in Seq(Step) /\ Shaped(t) /\ todo' = <<<<"spawn", w>>, <<"revived", w>>>> \o t
      BY <1>5, <2>1
    <3> HIDE DEF t
    <3> QED
      BY <2>2, <3>1, <3>2, RestartShaped
  <2> HIDE DEF t
  <2>4. Len(t) \in Nat /\ 2..Len(todo) \subseteq 1..Len(todo)
    BY <2>1
  <2>5. \A i \in 1..Len(todo') : i = 1 \/ i = 2 \/ i \in 3..Len(todo')
    BY <2>3, <2>4
  <2>6. RevivesRunning'
    <3>1. ASSUME NEW k \in 1..Len(t), t[k][1] = "revived" PROVE FALSE
      <4>1. k + 1 <= 2
        BY <2>1, <2>4, <3>1 DEF Progress, RevivesRunning
      <4>2. k = 1 /\ t # <<>>
        BY <2>1, <4>1
      <4> QED
        BY <2>2, <3>1, <4>2 DEF Ends
    <3>2. ASSUME NEW i \in 1..Len(todo'), todo'[i][1] = "revived"
          PROVE  i = 2 /\ todo'[i][2] = w
      BY <2>3, <2>5, <3>1, <3>2
    <3> QED
      BY <1>1, <1>5, <3>2 DEF RevivesRunning
  <2>7. Heard'
    BY <2>3 DEF Heard, At
  <2>8. Named'
    <3>1. ASSUME NEW i \in 2..Len(todo) PROVE \E k \in 1..Len(todo') : todo'[k] = todo[i]
      <4>1. i - 1 \in 1..Len(t) /\ t[i - 1] = todo[i]
        BY <2>1
      <4>2. (i - 1) + 2 \in 1..Len(todo') /\ todo'[(i - 1) + 2] = t[i - 1]
        BY <2>3, <2>4, <4>1
      <4> QED
        BY <4>1, <4>2
    <3>2. ASSUME NEW k \in 1..Len(todo'), todo'[k][1] = "spawn"
          PROVE  (\E i \in 1..Len(todo) : todo'[k] = todo[i]) \/ child[todo'[k][2]].cur # "null"
      <4>1. CASE k \in 3..Len(todo')
        <5>1. todo'[k] = t[k - 2] /\ k - 2 \in 1..Len(t)
          BY <2>3, <4>1
        <5>2. t[k - 2] = todo[(k - 2) + 1] /\ (k - 2) + 1 \in 1..Len(todo)
          BY <2>1, <2>4, <5>1
        <5> QED
          BY <5>1, <5>2
      <4>2. CASE k = 1
        BY <1>5, <2>3, <4>2
      <4>3. CASE k = 2
        BY <2>3, <3>2, <4>3
      <4> QED
        BY <2>5, <4>1, <4>2, <4>3
    <3>3. \A k \in 1..Len(todo') : todo'[k] \in Step
      BY <2>3
    <3> QED
      BY <1>1, <3>1, <3>2, <3>3, NamedKept DEF Progress
  <2> QED
    BY <1>3, <2>6, <2>7, <2>8 DEF Progress
<1> QED
  BY <1>1, <1>4, <1>5

\* The loop's steps.
LEMMA LoopProgress ==
  ASSUME CommandInv, Loop
  PROVE  Progress'
<1> USE DEF load, counters
<1>0. /\ ProcessType /\ RestType /\ StepType /\ LoadType /\ Progress
      /\ cmds \in Seq(Commands) /\ todo \in Seq(Step)
  BY DEF CommandInv, Typed, IInv, RestType, StepType
<1>1. CASE PollNothing
  <2>1. todo = <<>> /\ todo' = MonitorOnce /\ UNCHANGED <<state, child>>
    BY <1>1 DEF PollNothing
  <2>2. MonitorOnce # <<>> => 1 \in 1..Len(MonitorOnce)
    BY MonitorShaped
  <2> QED
    BY <1>0, <2>1, <2>2, MonitorShaped, PollStep DEF Ends
<1>2. CASE PollCommand
  <2> DEFINE c == Head(cmds)
             steps == Execution(c) \o MonitorOnce
  <2>1. /\ todo = <<>> /\ c \in Commands /\ todo' = steps /\ UNCHANGED <<state, child>>
        /\ AsksNames(c) => \A w \in Workers : child[w].cur # "null"
    BY <1>0, <1>2 DEF PollCommand
  <2> HIDE DEF c
  <2>2. /\ steps \in Seq(Step)
        /\ steps # <<>> => steps[1][1] \notin Ends
        /\ \A i \in 1..Len(steps) : steps[i][1] # "revived"
        /\ c.type \notin {"Start", "Restart"} =>
             \A i \in 1..Len(steps) : steps[i][1] # "spawn"
        /\ c.type = "Start" /\ c.service = "" =>
             \A w \in Workers : \E i \in 1..Len(steps) : steps[i] = <<"spawn", w>>
    BY <2>1, ExecutionShaped
  <2> HIDE DEF steps
  <2>3. \/ \A w \in Workers : child[w].cur # "null"
        \/ \A i \in 1..Len(steps) : steps[i][1] # "spawn"
        \/ \A w \in Workers : \E i \in 1..Len(steps) : steps[i] = <<"spawn", w>>
    BY <2>1, <2>2 DEF AsksNames
  <2> QED
    BY <1>0, <2>1, <2>2, <2>3, PollStep
<1>3. CASE PollFault
  BY <1>0, <1>3, QuietStep DEF PollFault, Pilled
<1>4. ASSUME NEW w \in Workers, Spawn(w) \/ Started(w) \/ Revived(w) \/ PassOver(w)
                                 \/ SendPill(w) \/ Wait(w) \/ Watch(w)
      PROVE  Progress'
  BY <1>0, <1>4, SpawnStep, ReplacedStep, StopStep, WatchStep
<1> QED
  BY <1>1, <1>2, <1>3, <1>4 DEF Loop

LEMMA NextProgress ==
  ASSUME CommandInv, [Next]_vars
  PROVE  Progress'
<1> USE DEF load, counters
<1>0. ProcessType /\ RestType /\ StepType /\ LoadType /\ Progress
  BY DEF CommandInv, Typed, IInv
<1>a. UNCHANGED <<todo, state, child, queue>> => Progress'
  BY <1>0, QuietStep DEF Pilled
<1>b. \A s \in Services : queue[s] \in Seq(Message)
  BY <1>0 DEF LoadType
\* A message more leaves the stop jobs where they are.
<1>c. ASSUME NEW s \in Services, NEW m, queue' = [queue EXCEPT ![s] = Append(@, m)]
      PROVE  \A v \in Services : Pilled(v) => Pilled(v)'
  <2>1. queue'[s] = Append(queue[s], m) /\ \A v \in Services : v # s => queue'[v] = queue[v]
    BY <1>0, <1>c DEF LoadType
  <2>2. \A i \in DOMAIN queue[s] : i \in DOMAIN Append(queue[s], m) /\ Append(queue[s], m)[i] = queue[s][i]
    BY <1>b
  <2> QED
    BY <2>1, <2>2 DEF Pilled
<1>1. ASSUME NEW w \in Workers, NEW r \in Role, Boot(w, r) PROVE Progress'
  <2> DEFINE x == IF LockFree(w) THEN "up" ELSE "dead"
  <2>1. /\ child[w][r] = "booting" /\ child' = [child EXCEPT ![w][r] = x]
        /\ UNCHANGED <<todo, state, queue>> /\ x \in {"up", "draining", "dead"}
    BY <1>1 DEF Boot
  <2> HIDE DEF x
  <2> QED
    BY <1>0, <2>1, ProcessStep DEF Alive, Pilled
<1>2. ASSUME NEW w \in Workers, NEW r \in Role, Kill(w, r) PROVE Progress'
  BY <1>0, <1>2, ProcessStep DEF Kill, Pilled
<1>3. ASSUME NEW s \in Services, NEW r \in Role, TakeJob(s, r) PROVE Progress'
  <2>1. /\ UNCHANGED <<todo, state, child>> /\ queue[s] # <<>> /\ Head(queue[s]) # "pill"
        /\ queue' = [queue EXCEPT ![s] = Tail(@)]
    BY <1>3 DEF TakeJob
  <2>2. queue'[s] = Tail(queue[s]) /\ \A v \in Services : v # s => queue'[v] = queue[v]
    BY <1>0, <2>1 DEF LoadType
  <2>3. Pilled(s) => Pilled(s)'
    <3>1. ASSUME NEW i \in DOMAIN queue[s], queue[s][i] = "pill"
          PROVE  \E k \in DOMAIN Tail(queue[s]) : Tail(queue[s])[k] = "pill"
      <4>1. Head(queue[s]) = queue[s][1] /\ DOMAIN queue[s] = 1..Len(queue[s]) /\ Len(queue[s]) \in Nat
        BY <1>b, <2>1
      <4>2. i # 1
        BY <2>1, <3>1, <4>1
      <4>3. i - 1 \in DOMAIN Tail(queue[s]) /\ Tail(queue[s])[i - 1] = queue[s][i]
        BY <1>b, <2>1, <4>1, <4>2
      <4> QED
        BY <3>1, <4>3
    <3> QED
      BY <2>2, <3>1 DEF Pilled
  <2>4. \A v \in Services : Pilled(v) => Pilled(v)'
    BY <2>2, <2>3 DEF Pilled
  <2> QED
    BY <1>0, <2>1, <2>4, QuietStep
<1>4. ASSUME NEW s \in Services \intersect Workers, NEW r \in Role, TakePill(s, r) PROVE Progress'
  <2>1. /\ child[s][r] = "up" /\ child' = [child EXCEPT ![s][r] = "draining"]
        /\ UNCHANGED <<todo, state>> /\ queue' = [queue EXCEPT ![s] = Tail(@)]
    BY <1>4 DEF TakePill
  <2>2. \A v \in Services : v # s => queue'[v] = queue[v]
    BY <1>0, <2>1 DEF LoadType
  <2>3. \A v \in Services : v # s /\ Pilled(v) => Pilled(v)'
    BY <2>2 DEF Pilled
  <2> QED
    BY <1>0, <2>1, <2>3, ProcessStep, ServicesAreWorkers DEF Alive
<1>5. ASSUME NEW s \in Services \intersect Workers, NEW r \in Role, Leave(s, r) PROVE Progress'
  <2>1. /\ child[s][r] = "draining" /\ child' = [child EXCEPT ![s][r] = "dead"]
        /\ UNCHANGED <<todo, state, queue>>
    BY <1>5 DEF Leave
  <2> QED
    BY <1>0, <2>1, ProcessStep, ServicesAreWorkers DEF Alive, Pilled
<1>6. ASSUME NEW s \in Services, NEW k \in Kind, Forward(s, k) PROVE Progress'
  <2>1. Destination(s, k) \in Services
    BY DEF Destination, Services
  <2>2. \A v \in Services : Pilled(v) => Pilled(v)'
    BY <1>6, <1>c, <2>1 DEF Forward
  <2> QED
    BY <1>0, <1>6, <2>2, QuietStep DEF Forward
<1>7. CASE Submit
  <2>1. \A v \in Services : Pilled(v) => Pilled(v)'
    BY <1>7, <1>c DEF Submit, Services
  <2> QED
    BY <1>0, <1>7, <2>1, QuietStep DEF Submit
<1>8. ASSUME NEW c \in Commands, Post(c) PROVE Progress'
  BY <1>8, <1>a DEF Post
<1>9. CASE SupCrash \/ UNCHANGED vars
  BY <1>9, <1>a DEF SupCrash, vars
<1>10. ASSUME NEW w \in Workers, OrphanLeaves(w) PROVE Progress'
  BY <1>10, <1>a DEF OrphanLeaves
<1>11. CASE SupStart
  <2>1. todo' = <<>> /\ child' = [w \in Workers |-> NoChild]
    BY <1>11 DEF SupStart
  <2>2. NoChild.cur = "null" /\ NoChild.old = "null" /\ \A r \in Role : ~Alive(NoChild[r])
    BY DEF NoChild, Role, Alive
  <2>3. \A i : i \notin 1..Len(todo')
    BY <2>1
  <2> QED
    BY <2>1, <2>2, <2>3
       DEF Progress, RevivesRunning, OldIsReplaced, Down, Heard, Named, At
<1>12. CASE Loop
  BY <1>12, LoopProgress
<1> QED
  BY <1>1, <1>2, <1>3, <1>4, <1>5, <1>6, <1>7, <1>8, <1>9, <1>10, <1>11, <1>12 DEF Next, Serve

LEMMA InitCommand == Init => CommandInv
<1> SUFFICES ASSUME Init PROVE CommandInv
  OBVIOUS
<1>1. IInv
  BY InitOneServer
<1>2. StepType
  BY DEF Init, StepType, Shaped
<1>3. LoadType
  <2>1. NoTasks \in [Kind -> Nat]
    BY DEF NoTasks
  <2> QED
    BY <2>1 DEF Init, LoadType
<1>4. RestType
  BY DEF Init, RestType
<1>5. Progress
  <2>1. NoChild.cur = "null" /\ NoChild.old = "null" /\ \A r \in Role : ~Alive(NoChild[r])
    BY DEF NoChild, Role, Alive
  <2>2. \A i : i \notin 1..Len(todo)
    BY DEF Init
  <2> QED
    BY <2>1, <2>2 DEF Init, Progress, RevivesRunning, OldIsReplaced, Down, Heard, Named, At
<1> QED
  BY <1>1, <1>2, <1>3, <1>4, <1>5 DEF CommandInv, Typed

LEMMA NextCommand == CommandInv /\ [Next]_vars => CommandInv'
<1> SUFFICES ASSUME CommandInv, [Next]_vars PROVE CommandInv'
  OBVIOUS
<1>1. IInv /\ StepType /\ LoadType /\ RestType /\ cmds \in Seq(Commands)
  BY DEF CommandInv, Typed, RestType
<1>2. Typed'
  BY <1>1, NextOneServer, NextSteps, NextLoad, NextRest DEF Typed
<1> QED
  BY <1>2, NextProgress DEF CommandInv

\* Between any two steps of start_workers, stop_workers and monitor_once
\* (supervisor.cpp:69-118) the processes are as the next step needs them: a
\* revived worker should run, an old process has its successor beside it, a
\* stopped worker has no process, and one that is waited for is on its way out.
THEOREM CommandInvAlways == Spec => []CommandInv
BY InitCommand, NextCommand, PTL DEF Spec

\* Every variable keeps its type, whatever commands come: the loop only ever has
\* steps of configured workers before it (supervisor.cpp:69-118), and queues and
\* pools hold what a Service takes from them.
THEOREM TypeOKAlways == Spec => []TypeOK
<1>1. CommandInv => TypeOK
  BY DEF CommandInv, Typed, IInv, ProcessType, StepType, LoadType, RestType, TypeOK
<1> QED
  BY <1>1, CommandInvAlways, PTL

\* Only a supervisor that was killed leaves processes behind: one that died of
\* a command had no children.
LeftByCrash ==
  /\ sup = "down" /\ supCrashes = 0 => \A w \in Workers, r \in Role : child[w][r] = "null"
  /\ \A w \in Workers : orphan[w] # "none" => supCrashes > 0

LEMMA FirstIsWorker == Order[1] \in Workers
<1>1. Order # <<>>
  BY SupervisorAssumption
<1>2. 1 \in 1..Len(Order)
  BY <1>1, OrderFacts
<1> QED
  BY <1>2, OrderFacts

LEMMA FaultHasNoChildren ==
  ASSUME CommandInv, PollFault
  PROVE  \A w \in Workers, r \in Role : child[w][r] = "null"
<1>1. todo = <<>> /\ child[Order[1]].cur = "null"
  BY DEF PollFault
<1>2. \A i : i \notin 1..Len(todo)
  BY <1>1
<1>3. \A w \in Workers : child[w].cur = "null"
  BY <1>1, <1>2, FirstIsWorker DEF CommandInv, Progress, Named
<1>4. \A w \in Workers : child[w].old = "null"
  BY <1>1 DEF CommandInv, Progress, OldIsReplaced, At
<1> QED
  BY <1>3, <1>4 DEF Role

LEMMA NextLeft == CommandInv /\ LeftByCrash /\ [Next]_vars => LeftByCrash'
<1> SUFFICES ASSUME CommandInv, LeftByCrash, [Next]_vars PROVE LeftByCrash'
  OBVIOUS
<1> USE DEF load, counters
<1>0. supCrashes \in Nat
  BY DEF CommandInv, Typed, RestType
\* Most steps need a supervisor or a child, and leave the rest alone.
<1>a. ASSUME UNCHANGED <<sup, orphan, supCrashes>>,
             sup = "up" \/ \E w \in Workers, r \in Role : child[w][r] # "null"
      PROVE  LeftByCrash'
  BY <1>a DEF LeftByCrash
<1>b. ASSUME UNCHANGED <<sup, orphan, supCrashes, child>> PROVE LeftByCrash'
  BY <1>b DEF LeftByCrash
<1>1. ASSUME NEW w \in Workers, Spawn(w) \/ Started(w) \/ Revived(w) \/ PassOver(w)
                                 \/ SendPill(w) \/ Wait(w) \/ Watch(w)
      PROVE  LeftByCrash'
  <2>1. UNCHANGED <<sup, orphan, supCrashes>> /\ sup = "up"
    BY <1>1 DEF Spawn, Started, Revived, Replaced, PassOver, SendPill, Wait, Watch, Doing
  <2> QED
    BY <1>a, <2>1
<1>2. CASE PollNothing \/ PollCommand
  BY <1>2, <1>b DEF PollNothing, PollCommand
<1>3. CASE PollFault
  <2>1. UNCHANGED <<child, orphan, supCrashes>>
    BY <1>3 DEF PollFault
  <2> QED
    BY <1>3, <2>1, FaultHasNoChildren DEF LeftByCrash
<1>4. CASE SupCrash
  BY <1>0, <1>4 DEF SupCrash, LeftByCrash
<1>5. CASE SupStart
  <2>1. /\ sup' = "up" /\ sup = "down" /\ supCrashes' = supCrashes
        /\ orphan' = [w \in Workers |-> LeftBehind(w)]
    BY <1>5 DEF SupStart
  <2>2. ASSUME supCrashes = 0, NEW w \in Workers PROVE orphan'[w] = "none"
    <3>1. \A r \in Role : child[w][r] = "null"
      BY <2>1, <2>2 DEF LeftByCrash
    <3>2. orphan[w] = "none"
      BY <2>2 DEF LeftByCrash
    <3>3. LeftBehind(w) = orphan[w]
      BY <3>1 DEF LeftBehind
    <3> QED
      BY <2>1, <3>2, <3>3
  <2> QED
    BY <1>0, <2>1, <2>2 DEF LeftByCrash
<1>6. ASSUME NEW w \in Workers, NEW r \in Role, Boot(w, r) \/ Kill(w, r) PROVE LeftByCrash'
  <2>1. UNCHANGED <<sup, orphan, supCrashes>> /\ child[w][r] # "null"
    BY <1>6 DEF Boot, Kill, Alive
  <2> QED
    BY <1>a, <2>1
<1>7. ASSUME NEW s \in Services \intersect Workers, Serve(s) PROVE LeftByCrash'
  <2>1. PICK r \in Role : TakeJob(s, r) \/ TakePill(s, r) \/ Leave(s, r)
    BY <1>7 DEF Serve
  <2>2. UNCHANGED <<sup, orphan, supCrashes>> /\ child[s][r] # "null"
    BY <2>1 DEF TakeJob, TakePill, Leave
  <2> QED
    BY <1>a, <2>2, ServicesAreWorkers
<1>8. ASSUME NEW s \in Services, NEW k \in Kind, Forward(s, k) PROVE LeftByCrash'
  BY <1>8, <1>b DEF Forward
<1>9. CASE Submit
  BY <1>9, <1>b DEF Submit
<1>10. ASSUME NEW c \in Commands, Post(c) PROVE LeftByCrash'
  BY <1>10, <1>b DEF Post
<1>11. ASSUME NEW w \in Workers, OrphanLeaves(w) PROVE LeftByCrash'
  <2>1. /\ UNCHANGED <<sup, child, supCrashes>>
        /\ orphan' = [orphan EXCEPT ![w] = "none"]
    BY <1>11 DEF OrphanLeaves
  <2>2. \A v \in Workers : orphan'[v] # "none" => orphan[v] # "none"
    BY <2>1 DEF CommandInv, Typed, IInv, ProcessType
  <2> QED
    BY <2>1, <2>2 DEF LeftByCrash
<1>12. CASE UNCHANGED vars
  BY <1>12, <1>b DEF vars
<1> QED
  BY <1>1, <1>2, <1>3, <1>4, <1>5, <1>6, <1>7, <1>8, <1>9, <1>10, <1>11, <1>12
     DEF Next, Loop

\* A stopped worker stays down: no interleaving of stops, restarts, revivals and
\* crashes leaves a child behind a worker taken for stopped, and a process of
\* an earlier supervisor is there only if that was killed
\* (supervisor.cpp:78, 113; worker.cpp:46).
THEOREM StoppedMeansDownAlways == Spec => []StoppedMeansDown
<1>1. Init => LeftByCrash
  BY DEF Init, LeftByCrash, NoChild
<1>2. CommandInv /\ LeftByCrash => StoppedMeansDown
  BY DEF CommandInv, Progress, Down, LeftByCrash, StoppedMeansDown, At, Doing
<1> QED
  BY <1>1, <1>2, NextLeft, CommandInvAlways, PTL DEF Spec

\* Every wait() is for a worker that is leaving or has its stop job before it
\* (supervisor.cpp:94, 113).
THEOREM StopIsHeardAlways == Spec => []StopIsHeard
<1>1. CommandInv => StopIsHeard
  BY DEF CommandInv, Progress, Heard, StopIsHeard, Pilled, At, Doing
<1> QED
  BY <1>1, CommandInvAlways, PTL

\* Only a command that asks for names before the first start of all can bring
\* the supervisor down (worker.cpp:46).
THEOREM FaultsOnlyBeforeStartAlways == Spec => FaultsOnlyBeforeStart
<1> DEFINE Fault ==
      sup = "up" /\ sup' = "down" =>
        supCrashes' # supCrashes \/ \A w \in Workers : child[w].cur = "null"
<1>1. CommandInv /\ [Next]_vars => Fault
  <2> SUFFICES ASSUME CommandInv, [Next]_vars, sup = "up", sup' = "down"
               PROVE  supCrashes' # supCrashes \/ \A w \in Workers : child[w].cur = "null"
    OBVIOUS
  <2> USE DEF load, counters
  <2>1. ASSUME NEW w \in Workers, Spawn(w) \/ Started(w) \/ Revived(w) \/ PassOver(w)
                                   \/ SendPill(w) \/ Wait(w) \/ Watch(w)
        PROVE  FALSE
    BY <2>1 DEF Spawn, Started, Revived, Replaced, PassOver, SendPill, Wait, Watch
  <2>2. ~PollNothing /\ ~PollCommand
    BY DEF PollNothing, PollCommand
  <2>3. CASE PollFault
    BY <2>3, FaultHasNoChildren DEF Role
  <2>4. CASE SupCrash
    BY <2>4 DEF SupCrash, CommandInv, Typed, RestType
  <2>5. ASSUME NEW w \in Workers, NEW r \in Role, Boot(w, r) \/ Kill(w, r) PROVE FALSE
    BY <2>5 DEF Boot, Kill
  <2>6. ASSUME NEW s \in Services, Serve(s) \/ \E k \in Kind : Forward(s, k) PROVE FALSE
    BY <2>6 DEF Serve, TakeJob, TakePill, Leave, Forward
  <2>7. ~Submit /\ ~SupStart /\ ~UNCHANGED vars
    BY DEF Submit, SupStart, vars
  <2>8. ASSUME NEW c \in Commands, Post(c) PROVE FALSE
    BY <2>8 DEF Post
  <2>9. ASSUME NEW w \in Workers, OrphanLeaves(w) PROVE FALSE
    BY <2>9 DEF OrphanLeaves
  <2> QED
    BY <2>1, <2>2, <2>3, <2>4, <2>5, <2>6, <2>7, <2>8, <2>9 DEF Next, Loop
<1> QED
  BY <1>1, CommandInvAlways, PTL DEF Spec, FaultsOnlyBeforeStart
=============================================================================
