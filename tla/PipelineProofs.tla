--------------------------- MODULE PipelineProofs ---------------------------
(***************************************************************************)
(* Theorems about Pipeline for any set of jobs, any number of pool         *)
(* threads, any queue capacity and any answers of libmagic.                *)
(***************************************************************************)
EXTENDS Pipeline, TLAPS

----------------------------------------------------------------------------
(* What the handlers' pure code returns *)

LEMMA DefaultJobType == DefaultJob \in FileJobShm
BY DEF DefaultJob, FileJobShm, Status, JobType, MimeType

LEMMA TransitionType ==
  ASSUME NEW job \in FileJobShm, NEW event \in Event
  PROVE  Transition(job, event) \in FileJobShm
BY DEF Transition, Event, FileJobShm, Status, JobType

LEMMA HandleEventType ==
  ASSUME NEW job \in FileJobShm, NEW event \in Event
  PROVE  /\ HandleEvent(job, event).to \in Destinations
         /\ HandleEvent(job, event).job \in FileJobShm
<1>1. Transition(job, event) \in FileJobShm
  BY TransitionType
<1>2. \A type : QueueOf(type) \in Destinations
  BY DEF QueueOf, Destinations, Services
<1> QED
  BY <1>1, <1>2, DefaultJobType DEF HandleEvent

LEMMA ProcessResultsType ==
  ASSUME NEW job \in FileJobShm
  PROVE  /\ ProcessResults(job).to \in Destinations
         /\ ProcessResults(job).job \in FileJobShm
<1> DEFINE new == [job EXCEPT !.status = "NEW"]
<1>1. new \in FileJobShm
  BY DEF FileJobShm, Status
<1>2. AddJob(job).to \in Destinations /\ AddJob(job).job \in FileJobShm
  BY <1>1, HandleEventType DEF AddJob, Event
<1>3. \A e \in {"DETECTION_OK", "PARSE_OK"} :
        HandleEvent(job, e).to \in Destinations /\ HandleEvent(job, e).job \in FileJobShm
  BY HandleEventType DEF Event
<1>4. job.status \in Status
  BY DEF FileJobShm
<1> QED
  BY <1>2, <1>3, <1>4, DefaultJobType DEF ProcessResults, Status, Destinations

LEMMA DetectReplyType ==
  ASSUME NEW job \in FileJobShm, NEW magic
  PROVE  DetectReply(job, magic) \in FileJobShm
<1>1. \A mime : MapType(mime) \in MimeType
  BY DEF MapType, MimeType
<1> QED
  BY <1>1 DEF DetectReply, FileJobShm, Status

LEMMA ParseReplyType ==
  ASSUME NEW job \in FileJobShm
  PROVE  ParseReply(job) \in FileJobShm
BY DEF ParseReply, FileJobShm, Status
----------------------------------------------------------------------------
(* Type correctness *)

\* A function of sequences stays one when a sequence of it changes at an end.
LEMMA AppendAt ==
  ASSUME NEW D, NEW S, NEW f \in [D -> Seq(S)], NEW d, NEW e \in S
  PROVE  [f EXCEPT ![d] = Append(@, e)] \in [D -> Seq(S)]
<1>1. CASE d \in D
  <2>1. Append(f[d], e) \in Seq(S)
    BY <1>1
  <2> QED
    BY <1>1, <2>1
<1>2. CASE d \notin D
  BY <1>2
<1> QED
  BY <1>1, <1>2

LEMMA TailAt ==
  ASSUME NEW D, NEW S, NEW f \in [D -> Seq(S)], NEW d \in D, f[d] # <<>>
  PROVE  /\ [f EXCEPT ![d] = Tail(@)] \in [D -> Seq(S)]
         /\ Head(f[d]) \in S
<1>1. f[d] \in Seq(S)
  OBVIOUS
<1>2. Tail(f[d]) \in Seq(S) /\ Head(f[d]) \in S
  BY <1>1
<1> QED
  BY <1>2

LEMMA ThreadAt ==
  ASSUME NEW f \in [Services -> [Threads -> ThreadState]], NEW s, NEW t, NEW e \in ThreadState
  PROVE  [f EXCEPT ![s][t] = e] \in [Services -> [Threads -> ThreadState]]
OBVIOUS

LEMMA IdleType == Idle \in ThreadState
BY DefaultJobType DEF Idle, ThreadState, Destinations

LEMMA SendingType ==
  ASSUME NEW to \in Destinations, NEW job \in FileJobShm
  PROVE  Sending(to, job) \in ThreadState
<1>1. Sending(to, job) = [at |-> "sending", to |-> to, job |-> job]
  BY DEF Sending
<1> QED
  BY <1>1 DEF ThreadState

LEMMA RemovingType ==
  ASSUME NEW job \in FileJobShm
  PROVE  Removing(job) \in ThreadState
BY DEF Removing, ThreadState, Destinations

LEMMA DieType == ASSUME TypeOK, NEW w \in Workers, Die(w), crashes' \in Nat
                 PROVE  TypeOK'
<1>1. phase' \in [Workers -> {"down", "up", "joining"}]
  BY DEF TypeOK, Die
<1>2. fate' \in [Jobs -> Fates]
  BY DEF TypeOK, Die, Fates, Settled
<1>3. pool' \in [Services -> Seq(FileJobShm)]
  <2>1. <<>> \in Seq(FileJobShm)
    OBVIOUS
  <2> QED
    BY <2>1 DEF TypeOK, Die
<1>4. thread' \in [Services -> [Threads -> ThreadState]]
  BY IdleType DEF TypeOK, Die
<1>5. registered' \subseteq Jobs \union {NoId}
  BY DEF TypeOK, Die
<1>6. file' \in [Jobs -> {"none", "new", "removed", "kept"}]
  BY DEF TypeOK, Die
<1> QED
  BY <1>1, <1>2, <1>3, <1>4, <1>5, <1>6 DEF TypeOK, Die

LEMMA InitType == Init => TypeOK
<1> SUFFICES ASSUME Init PROVE TypeOK
  OBVIOUS
<1>1. thread \in [Services -> [Threads -> ThreadState]]
  BY IdleType DEF Init
<1> QED
  BY <1>1 DEF Init, TypeOK, Fates

LEMMA NextType == TypeOK /\ [Next]_vars => TypeOK'
<1> SUFFICES ASSUME TypeOK, [Next]_vars PROVE TypeOK'
  OBVIOUS
<1>1. ASSUME NEW j \in Jobs, Upload(j) PROVE TypeOK'
  BY <1>1 DEF Upload, TypeOK, Fates
<1>2. ASSUME NEW j \in Jobs, Submit(j) PROVE TypeOK'
  <2>1. [DefaultJob EXCEPT !.job_id = j] \in IpcMessage
    BY DefaultJobType DEF FileJobShm, IpcMessage
  <2>2. queue' \in [Services -> Seq(IpcMessage)]
    BY <1>2, <2>1, AppendAt DEF Submit, TypeOK
  <2> QED
    BY <1>2, <2>2 DEF Submit, TypeOK, Fates
<1>3. ASSUME NEW s \in Services, Receive(s) PROVE TypeOK'
  <2>1. queue' \in [Services -> Seq(IpcMessage)] /\ Head(queue[s]) \in IpcMessage
    BY <1>3, TailAt DEF Receive, TypeOK
  <2>2. pool' \in [Services -> Seq(FileJobShm)]
    BY <1>3, <2>1, AppendAt DEF Receive, TypeOK, IpcMessage
  <2> QED
    BY <1>3, <2>1, <2>2 DEF Receive, TypeOK
<1>4. ASSUME NEW s \in Services, ReceivePill(s) PROVE TypeOK'
  <2>1. queue' \in [Services -> Seq(IpcMessage)]
    BY <1>4, TailAt DEF ReceivePill, TypeOK
  <2> QED
    BY <1>4, <2>1 DEF ReceivePill, TypeOK
<1>5. ASSUME NEW s \in Services, Exit(s) PROVE TypeOK'
  BY <1>5 DEF Exit, TypeOK
<1>6. ASSUME NEW s \in Services, NEW t \in Threads, Begin(s, t) PROVE TypeOK'
  <2>1. pool' \in [Services -> Seq(FileJobShm)] /\ Head(pool[s]) \in FileJobShm
    BY <1>6, TailAt DEF Begin, TypeOK
  <2>2. [at |-> "handling", to |-> "", job |-> Head(pool[s])] \in ThreadState
    BY <2>1 DEF ThreadState, Destinations
  <2>3. thread' \in [Services -> [Threads -> ThreadState]]
    BY <1>6, <2>2, ThreadAt DEF Begin, TypeOK
  <2> QED
    BY <1>6, <2>1, <2>3 DEF Begin, TypeOK
<1>7. ASSUME NEW t \in Threads, HandleQm(t) PROVE TypeOK'
  <2> DEFINE job == thread["qm"][t].job
             result == ProcessResults(job)
  <2>1. job \in FileJobShm
    BY DEF TypeOK, ThreadState, Services
  <2>2. result.to \in Destinations /\ result.job \in FileJobShm
    BY <2>1, ProcessResultsType
  <2>3. (IF result.to \in Services THEN Sending(result.to, result.job)
         ELSE IF RemovesFile(job) THEN Removing(job) ELSE Idle) \in ThreadState
    BY <2>1, <2>2, IdleType, SendingType, RemovingType
  <2>4. thread' \in [Services -> [Threads -> ThreadState]]
    BY <1>7, <2>3, ThreadAt DEF HandleQm, TypeOK
  <2>5. registered' \subseteq Jobs \union {NoId}
    BY <1>7, <2>1 DEF HandleQm, Registrations, TypeOK, FileJobShm
  <2>6. file' \in [Jobs -> {"none", "new", "removed", "kept"}]
    BY <1>7 DEF HandleQm, TypeOK
  <2>7. fate' \in [Jobs -> Fates]
    BY <1>7 DEF HandleQm, Conclusion, TypeOK, Fates, Settled
  <2> QED
    BY <1>7, <2>4, <2>5, <2>6, <2>7 DEF HandleQm, TypeOK
<1>8. ASSUME NEW t \in Threads, HandleDetect(t) PROVE TypeOK'
  <2>1. thread["detect"][t].job \in FileJobShm
    BY DEF TypeOK, ThreadState, Services
  <2>2. \A magic : Sending("qm", DetectReply(thread["detect"][t].job, magic)) \in ThreadState
    BY <2>1, DetectReplyType, SendingType DEF Destinations, Services
  <2>3. PICK next \in ThreadState : thread' = [thread EXCEPT !["detect"][t] = next]
    BY <1>8, <2>2, IdleType DEF HandleDetect
  <2>4. thread' \in [Services -> [Threads -> ThreadState]]
    BY <2>3, ThreadAt DEF TypeOK
  <2>5. fate' \in [Jobs -> Fates]
    BY <1>8 DEF HandleDetect, TypeOK, Fates, Settled
  <2> QED
    BY <1>8, <2>4, <2>5 DEF HandleDetect, TypeOK
<1>9. ASSUME NEW t \in Threads, HandleParse(t) PROVE TypeOK'
  <2>1. thread["parse"][t].job \in FileJobShm
    BY DEF TypeOK, ThreadState, Services
  <2>2. Sending("qm", ParseReply(thread["parse"][t].job)) \in ThreadState
    BY <2>1, ParseReplyType, SendingType DEF Destinations, Services
  <2>3. thread' \in [Services -> [Threads -> ThreadState]]
    BY <1>9, <2>2, ThreadAt DEF HandleParse, TypeOK
  <2> QED
    BY <1>9, <2>3 DEF HandleParse, TypeOK
<1>10. ASSUME NEW s \in Services, NEW t \in Threads, Send(s, t) PROVE TypeOK'
  <2>1. thread[s][t].job \in IpcMessage
    BY DEF TypeOK, ThreadState, IpcMessage
  <2>2. queue' = [queue EXCEPT ![thread[s][t].to] = Append(@, thread[s][t].job)]
    BY <1>10 DEF Send
  <2>3. queue \in [Services -> Seq(IpcMessage)]
    BY DEF TypeOK
  <2>4. queue' \in [Services -> Seq(IpcMessage)]
    <3>1. \A d : \A e \in IpcMessage :
            [queue EXCEPT ![d] = Append(@, e)] \in [Services -> Seq(IpcMessage)]
      BY <2>3, AppendAt
    <3> QED
      BY <2>1, <2>2, <3>1
  <2>5. thread' \in [Services -> [Threads -> ThreadState]]
    BY <1>10, IdleType, ThreadAt DEF Send, TypeOK
  <2> QED
    BY <1>10, <2>4, <2>5 DEF Send, TypeOK
<1>11. ASSUME NEW w \in Workers, Crash(w) PROVE TypeOK'
  <2>1. crashes' \in Nat
    BY <1>11 DEF Crash, TypeOK
  <2> QED
    BY <1>11, <2>1, DieType DEF Crash
<1>12. ASSUME NEW s \in Services, RaceCrash(s) PROVE TypeOK'
  <2>1. crashes' \in Nat
    BY <1>12 DEF RaceCrash, TypeOK
  <2> QED
    BY <1>12, <2>1, DieType DEF RaceCrash, Workers
<1>13. ASSUME NEW w \in Workers, Start(w) PROVE TypeOK'
  BY <1>13 DEF Start, TypeOK
<1>14. ASSUME NEW s \in Services, SendStopJob(s) PROVE TypeOK'
  <2>1. queue' \in [Services -> Seq(IpcMessage)]
    BY <1>14, AppendAt DEF SendStopJob, TypeOK, IpcMessage
  <2> QED
    BY <1>14, <2>1 DEF SendStopJob, TypeOK
<1>15. ASSUME NEW t \in Threads, RemoveFile(t) PROVE TypeOK'
  <2>1. thread' \in [Services -> [Threads -> ThreadState]]
    BY <1>15, IdleType, ThreadAt DEF RemoveFile, TypeOK
  <2>2. file' \in [Jobs -> {"none", "new", "removed", "kept"}]
    BY <1>15 DEF RemoveFile, TypeOK
  <2> QED
    BY <1>15, <2>1, <2>2 DEF RemoveFile, TypeOK
<1>16. CASE UNCHANGED vars
  BY <1>16 DEF vars, TypeOK
<1> QED
  BY <1>1, <1>2, <1>3, <1>4, <1>5, <1>6, <1>7, <1>8, <1>9, <1>10, <1>11, <1>12,
     <1>13, <1>14, <1>15, <1>16 DEF Next, Handle, Quiescent

\* Every variable keeps its type: in particular a pool only ever holds jobs,
\* so no handler is called on a stop job (service.cpp:52-56).
THEOREM TypeCorrect == Spec => []TypeOK
BY InitType, NextType, PTL DEF Spec

----------------------------------------------------------------------------
(* Routing: every job is where its status and type call for *)

QueueFits(s, q) == \A i \in DOMAIN q : q[i] # PoisonPill => Fits(s, q[i])
PoolFits(s, p) == \A i \in DOMAIN p : Fits(s, p[i])
ThreadFits(s, th) ==
  /\ th.at = "handling" => Fits(s, th.job)
  /\ th.at = "sending" => th.to \in Services /\ Fits(th.to, th.job)

LEMMA WellRoutedParts ==
  WellRouted <=> \A s \in Services :
                   /\ QueueFits(s, queue[s])
                   /\ PoolFits(s, pool[s])
                   /\ \A t \in Threads : ThreadFits(s, thread[s][t])
BY DEF WellRouted, QueueFits, PoolFits, ThreadFits

LEMMA QueueFitsAppend ==
  ASSUME NEW s, NEW q \in Seq(IpcMessage), QueueFits(s, q), NEW m \in IpcMessage,
         m # PoisonPill => Fits(s, m)
  PROVE  QueueFits(s, Append(q, m))
BY DEF QueueFits

LEMMA QueueFitsTail ==
  ASSUME NEW s, NEW q \in Seq(IpcMessage), q # <<>>, QueueFits(s, q)
  PROVE  /\ QueueFits(s, Tail(q))
         /\ Head(q) # PoisonPill => Fits(s, Head(q))
BY DEF QueueFits

LEMMA PoolFitsAppend ==
  ASSUME NEW s, NEW p \in Seq(FileJobShm), PoolFits(s, p), NEW m \in FileJobShm, Fits(s, m)
  PROVE  PoolFits(s, Append(p, m))
BY DEF PoolFits

LEMMA PoolFitsTail ==
  ASSUME NEW s, NEW p \in Seq(FileJobShm), p # <<>>, PoolFits(s, p)
  PROVE  PoolFits(s, Tail(p)) /\ Fits(s, Head(p))
BY DEF PoolFits

LEMMA IdleFits == ASSUME NEW s PROVE ThreadFits(s, Idle)
BY DEF ThreadFits, Idle

LEMMA RemovingFits == ASSUME NEW s, NEW job PROVE ThreadFits(s, Removing(job))
BY DEF ThreadFits, Removing

\* qm forwards a new job to detect and a detected one to parse, under its id,
\* and concludes the others.
LEMMA QmResult ==
  ASSUME NEW job \in FileJobShm, Fits("qm", job)
  PROVE  \/ /\ job.status = "NEW" /\ ProcessResults(job).to = "detect"
            /\ ProcessResults(job).job.job_id = job.job_id
            /\ ProcessResults(job).job.status = "DETECTING"
            /\ ProcessResults(job).job.type = "DETECTOR"
         \/ /\ job.status = "DETECTING" /\ ProcessResults(job).to = "parse"
            /\ ProcessResults(job).job.job_id = job.job_id
            /\ ProcessResults(job).job.status = "PARSING"
            /\ ProcessResults(job).job.type = "PARSER"
         \/ job.status \in {"DONE", "FAILED"} /\ ProcessResults(job).to \notin Services
<1>1. job.status \in {"NEW", "DETECTING", "DONE", "FAILED"}
  BY DEF Fits
<1>2. CASE job.status = "NEW"
  <2> DEFINE new == [job EXCEPT !.status = "NEW"]
             next == Transition(new, "SUBMIT")
  <2>1. next = [job EXCEPT !.type = "DETECTOR", !.status = "DETECTING"]
    BY DEF Transition, FileJobShm
  <2>2. Applies(new, "SUBMIT")
    BY DEF Applies, Transitions, FileJobShm
  <2>3. next.type = "DETECTOR" /\ next.status = "DETECTING" /\ next.job_id = job.job_id
    BY <2>1 DEF FileJobShm
  <2>4. ProcessResults(job) = [to |-> "detect", job |-> next]
    BY <1>2, <2>2, <2>3 DEF ProcessResults, AddJob, HandleEvent, QueueOf
  <2> QED
    BY <1>2, <2>3, <2>4
<1>3. CASE job.status = "DETECTING"
  <2> DEFINE next == Transition(job, "DETECTION_OK")
  <2>1. next = [job EXCEPT !.type = "PARSER", !.status = "PARSING"]
    BY DEF Transition
  <2>2. Applies(job, "DETECTION_OK")
    BY <1>3 DEF Applies, Transitions
  <2>3. next.type = "PARSER" /\ next.status = "PARSING" /\ next.job_id = job.job_id
    BY <2>1 DEF FileJobShm
  <2>4. ProcessResults(job) = [to |-> "parse", job |-> next]
    BY <1>3, <2>2, <2>3 DEF ProcessResults, HandleEvent, QueueOf
  <2> QED
    BY <1>3, <2>3, <2>4
<1>4. CASE job.status \in {"DONE", "FAILED"}
  <2>1. ProcessResults(job).to \in {"fail", "null_sender"}
    BY <1>4 DEF ProcessResults
  <2> QED
    BY <1>4, <2>1 DEF Services
<1> QED
  BY <1>1, <1>2, <1>3, <1>4

LEMMA DetectResult ==
  ASSUME NEW job \in FileJobShm, NEW magic
  PROVE  /\ DetectReply(job, magic).job_id = job.job_id
         /\ DetectReply(job, magic).status \in {"DETECTING", "FAILED"}
BY DEF DetectReply, FileJobShm

LEMMA ParseResult ==
  ASSUME NEW job \in FileJobShm
  PROVE  /\ ParseReply(job).job_id = job.job_id
         /\ ParseReply(job).status \in {"DONE", "FAILED"}
BY DEF ParseReply, FileJobShm

\* So what each of them sends fits where it is sent.
LEMMA QmRoutes ==
  ASSUME NEW job \in FileJobShm, Fits("qm", job), ProcessResults(job).to \in Services
  PROVE  Fits(ProcessResults(job).to, ProcessResults(job).job)
BY QmResult DEF Fits

LEMMA DetectRoutes ==
  ASSUME NEW job \in FileJobShm, Fits("detect", job), NEW magic
  PROVE  Fits("qm", DetectReply(job, magic))
BY DetectResult DEF Fits

LEMMA ParseRoutes ==
  ASSUME NEW job \in FileJobShm, Fits("parse", job)
  PROVE  Fits("qm", ParseReply(job))
BY ParseResult DEF Fits

Queues == \A s \in Services : QueueFits(s, queue[s])
Pools == \A s \in Services : PoolFits(s, pool[s])
Handlers == \A s \in Services : \A t \in Threads : ThreadFits(s, thread[s][t])

LEMMA RoutedParts == WellRouted <=> Queues /\ Pools /\ Handlers
BY WellRoutedParts DEF Queues, Pools, Handlers

LEMMA InitRouted == Init => WellRouted
<1> SUFFICES ASSUME Init PROVE Queues /\ Pools /\ Handlers
  BY RoutedParts
<1>1. Queues /\ Pools
  BY DEF Init, Queues, Pools, QueueFits, PoolFits
<1>2. Handlers
  BY IdleFits DEF Init, Handlers
<1> QED
  BY <1>1, <1>2

LEMMA DieRouted == ASSUME WellRouted, TypeOK, NEW w \in Workers, Die(w)
                   PROVE  Queues' /\ Pools' /\ Handlers'
<1>1. Queues /\ Pools /\ Handlers
  BY RoutedParts
<1>2. Queues'
  BY <1>1 DEF Die, Queues
<1>3. Pools'
  BY <1>1 DEF Die, Pools, PoolFits, TypeOK
<1>4. Handlers'
  BY <1>1, IdleFits DEF Die, Handlers, TypeOK
<1> QED
  BY <1>2, <1>3, <1>4

LEMMA NextRouted == TypeOK /\ WellRouted /\ [Next]_vars => WellRouted'
<1> SUFFICES ASSUME TypeOK, WellRouted, [Next]_vars PROVE Queues' /\ Pools' /\ Handlers'
  BY RoutedParts, PTL
<1>a. Queues /\ Pools /\ Handlers
  BY RoutedParts
<1>b. UNCHANGED queue => Queues'
  BY <1>a DEF Queues
<1>c. UNCHANGED pool => Pools'
  BY <1>a DEF Pools
<1>d. UNCHANGED thread => Handlers'
  BY <1>a DEF Handlers
<1>e. /\ queue \in [Services -> Seq(IpcMessage)]
      /\ pool \in [Services -> Seq(FileJobShm)]
      /\ thread \in [Services -> [Threads -> ThreadState]]
      /\ \A s \in Services : \A t \in Threads : thread[s][t].job \in FileJobShm
  BY DEF TypeOK, ThreadState
<1> DEFINE Routed == Queues' /\ Pools' /\ Handlers'
\* Replacing what one thread does by something that fits keeps the threads right.
<1>f. ASSUME NEW s \in Services, NEW t \in Threads, NEW next, ThreadFits(s, next),
             thread' = [thread EXCEPT ![s][t] = next]
      PROVE  Handlers'
  BY <1>a, <1>e, <1>f DEF Handlers
<1>1. ASSUME NEW j \in Jobs, Upload(j) PROVE Routed
  BY <1>1, <1>b, <1>c, <1>d DEF Upload
<1>2. ASSUME NEW j \in Jobs, Submit(j) PROVE Routed
  <2> DEFINE new == [DefaultJob EXCEPT !.job_id = j]
  <2>1. new \in IpcMessage
    BY DefaultJobType DEF FileJobShm, IpcMessage
  <2>2. Fits("qm", new)
    BY DEF Fits, DefaultJob
  <2>3. QueueFits("qm", Append(queue["qm"], new))
    BY <1>a, <1>e, <2>1, <2>2, QueueFitsAppend DEF Queues, Services
  <2>4. Queues'
    BY <1>2, <1>a, <1>e, <2>3 DEF Submit, Queues
  <2> QED
    BY <1>2, <1>c, <1>d, <2>4 DEF Submit
<1>3. ASSUME NEW s \in Services, Receive(s) PROVE Routed
  <2>1. QueueFits(s, Tail(queue[s])) /\ Fits(s, Head(queue[s]))
    BY <1>3, <1>a, <1>e, QueueFitsTail DEF Receive, Queues
  <2>2. Head(queue[s]) \in FileJobShm
    BY <1>3, <1>e, TailAt DEF Receive, IpcMessage
  <2>3. PoolFits(s, Append(pool[s], Head(queue[s])))
    BY <1>a, <1>e, <2>1, <2>2, PoolFitsAppend DEF Pools
  <2>4. Queues' /\ Pools'
    BY <1>3, <1>a, <1>e, <2>1, <2>3 DEF Receive, Queues, Pools
  <2> QED
    BY <1>3, <1>d, <2>4 DEF Receive
<1>4. ASSUME NEW s \in Services, ReceivePill(s) PROVE Routed
  <2>1. QueueFits(s, Tail(queue[s]))
    BY <1>4, <1>a, <1>e, QueueFitsTail DEF ReceivePill, Queues
  <2>2. Queues'
    BY <1>4, <1>a, <1>e, <2>1 DEF ReceivePill, Queues
  <2> QED
    BY <1>4, <1>c, <1>d, <2>2 DEF ReceivePill
<1>5. ASSUME NEW s \in Services, Exit(s) PROVE Routed
  BY <1>5, <1>b, <1>c, <1>d DEF Exit
<1>6. ASSUME NEW s \in Services, NEW t \in Threads, Begin(s, t) PROVE Routed
  <2>1. PoolFits(s, Tail(pool[s])) /\ Fits(s, Head(pool[s]))
    BY <1>6, <1>a, <1>e, PoolFitsTail DEF Begin, Pools
  <2>2. Pools'
    BY <1>6, <1>a, <1>e, <2>1 DEF Begin, Pools
  <2>3. ThreadFits(s, [at |-> "handling", to |-> "", job |-> Head(pool[s])])
    BY <2>1 DEF ThreadFits
  <2>4. Handlers'
    BY <1>6, <1>f, <2>3 DEF Begin
  <2> QED
    BY <1>6, <1>b, <2>2, <2>4 DEF Begin
<1>7. ASSUME NEW t \in Threads, HandleQm(t) PROVE Routed
  <2> DEFINE job == thread["qm"][t].job
             result == ProcessResults(job)
             next == IF result.to \in Services THEN Sending(result.to, result.job)
                     ELSE IF RemovesFile(job) THEN Removing(job) ELSE Idle
  <2>1. job \in FileJobShm /\ Fits("qm", job)
    BY <1>7, <1>a, <1>e DEF HandleQm, Handlers, ThreadFits, Services
  <2>2. ThreadFits("qm", next)
    BY <2>1, QmRoutes, IdleFits, RemovingFits DEF ThreadFits, Sending
  <2>3. thread' = [thread EXCEPT !["qm"][t] = next]
    BY <1>7 DEF HandleQm
  <2>4. Handlers'
    BY <1>f, <2>2, <2>3 DEF Services
  <2> QED
    BY <1>7, <1>b, <1>c, <2>4 DEF HandleQm
<1>8. ASSUME NEW t \in Threads, HandleDetect(t) PROVE Routed
  <2> DEFINE job == thread["detect"][t].job
  <2>1. job \in FileJobShm /\ Fits("detect", job)
    BY <1>8, <1>a, <1>e DEF HandleDetect, Handlers, ThreadFits, Services
  <2>2. \A magic : ThreadFits("detect", Sending("qm", DetectReply(job, magic)))
    BY <2>1, DetectRoutes DEF ThreadFits, Sending, Services
  <2>3. \E next : /\ ThreadFits("detect", next)
                  /\ thread' = [thread EXCEPT !["detect"][t] = next]
    BY <1>8, <2>2, IdleFits DEF HandleDetect
  <2>4. Handlers'
    BY <1>f, <2>3 DEF Services
  <2> QED
    BY <1>8, <1>b, <1>c, <2>4 DEF HandleDetect
<1>9. ASSUME NEW t \in Threads, HandleParse(t) PROVE Routed
  <2> DEFINE job == thread["parse"][t].job
  <2>1. job \in FileJobShm /\ Fits("parse", job)
    BY <1>9, <1>a, <1>e DEF HandleParse, Handlers, ThreadFits, Services
  <2>2. ThreadFits("parse", Sending("qm", ParseReply(job)))
    BY <2>1, ParseRoutes DEF ThreadFits, Sending, Services
  <2>3. Handlers'
    BY <1>9, <1>f, <2>2 DEF HandleParse, Services
  <2> QED
    BY <1>9, <1>b, <1>c, <2>3 DEF HandleParse
<1>10. ASSUME NEW s \in Services, NEW t \in Threads, Send(s, t) PROVE Routed
  <2> DEFINE to == thread[s][t].to
             job == thread[s][t].job
  <2>1. to \in Services /\ Fits(to, job)
    BY <1>10, <1>a DEF Send, Handlers, ThreadFits
  <2>2. job \in IpcMessage
    BY <1>e DEF IpcMessage
  <2>3. QueueFits(to, Append(queue[to], job))
    BY <1>a, <1>e, <2>1, <2>2, QueueFitsAppend DEF Queues
  <2>4. queue' = [queue EXCEPT ![to] = Append(@, job)]
    BY <1>10 DEF Send
  <2>5. Queues'
    BY <1>a, <1>e, <2>1, <2>3, <2>4 DEF Queues
  <2>6. Handlers'
    BY <1>10, <1>f, IdleFits DEF Send
  <2> QED
    BY <1>10, <1>c, <2>5, <2>6 DEF Send
<1>11. ASSUME NEW w \in Workers, Crash(w) PROVE Routed
  BY <1>11, DieRouted DEF Crash
<1>12. ASSUME NEW s \in Services, RaceCrash(s) PROVE Routed
  BY <1>12, DieRouted DEF RaceCrash, Workers
<1>13. ASSUME NEW w \in Workers, Start(w) PROVE Routed
  BY <1>13, <1>b, <1>c, <1>d DEF Start
<1>14. ASSUME NEW s \in Services, SendStopJob(s) PROVE Routed
  <2>1. PoisonPill \in IpcMessage
    BY DEF IpcMessage
  <2>2. QueueFits(s, Append(queue[s], PoisonPill))
    BY <1>a, <1>e, <2>1, QueueFitsAppend DEF Queues
  <2>3. Queues'
    BY <1>14, <1>a, <1>e, <2>2 DEF SendStopJob, Queues
  <2> QED
    BY <1>14, <1>c, <1>d, <2>3 DEF SendStopJob
<1>15. ASSUME NEW t \in Threads, RemoveFile(t) PROVE Routed
  <2>1. Handlers'
    BY <1>15, <1>f, IdleFits DEF RemoveFile, Services
  <2> QED
    BY <1>15, <1>b, <1>c, <2>1 DEF RemoveFile
<1>16. CASE UNCHANGED vars
  BY <1>16, <1>b, <1>c, <1>d DEF vars
<1> QED
  BY <1>1, <1>2, <1>3, <1>4, <1>5, <1>6, <1>7, <1>8, <1>9, <1>10, <1>11, <1>12,
     <1>13, <1>14, <1>15, <1>16 DEF Next, Handle, Quiescent

\* Through crashes, stops and every interleaving, each job waits for or is
\* handled by the service that its status and type call for (qm.cpp:37-84).
THEOREM WellRoutedAlways == Spec => []WellRouted
<1>1. Init => TypeOK /\ WellRouted
  BY InitType, InitRouted
<1>2. TypeOK /\ WellRouted /\ [Next]_vars => (TypeOK /\ WellRouted)'
  BY NextType, NextRouted
<1> QED
  BY <1>1, <1>2, PTL DEF Spec

----------------------------------------------------------------------------
(***************************************************************************)
(* Where the jobs are: every job in flight is in exactly one queue, pool   *)
(* or thread, and the spool agrees with the outcomes.                      *)
(***************************************************************************)
(* A place that holds job j, as an entry of a sequence or as a thread *)

Holds(q, i, j) == i \in DOMAIN q /\ q[i] # PoisonPill /\ q[i].job_id = j
Works(th, j) == InFlight(th) /\ th.job.job_id = j

\* The places as functions of their own, so that a lemma speaks of the places
\* before a step and of those after it alike.
AtMostOnce(q, p, th, j) ==
  \A r, s \in Services :
    /\ \A i, k \in Nat :
         /\ Holds(q[r], i, j) /\ Holds(q[s], k, j) => r = s /\ i = k
         /\ Holds(p[r], i, j) /\ Holds(p[s], k, j) => r = s /\ i = k
         /\ ~(Holds(q[r], i, j) /\ Holds(p[s], k, j))
    /\ \A t, u \in Threads : Works(th[r][t], j) /\ Works(th[s][u], j) => r = s /\ t = u
    /\ \A t \in Threads : \A i \in Nat :
         ~(Works(th[r][t], j) /\ (Holds(q[s], i, j) \/ Holds(p[s], i, j)))

Somewhere(q, p, th, j) ==
  \E s \in Services :
    \/ \E i \in Nat : Holds(q[s], i, j) \/ Holds(p[s], i, j)
    \/ \E t \in Threads : Works(th[s][t], j)

Tracked(q, p, th, f, j) ==
  AtMostOnce(q, p, th, j) /\ (f = "accepted" <=> Somewhere(q, p, th, j))

AllTracked == \A j \in Jobs : Tracked(queue, pool, thread, fate[j], j)

\* AtMostOnce by the kinds of the two places.
LEMMA AtMostOnceParts ==
  ASSUME NEW q, NEW p, NEW th, NEW j,
         \A r, s \in Services : \A i, k \in Nat :
           Holds(q[r], i, j) /\ Holds(q[s], k, j) => r = s /\ i = k,
         \A r, s \in Services : \A i, k \in Nat :
           Holds(p[r], i, j) /\ Holds(p[s], k, j) => r = s /\ i = k,
         \A r, s \in Services : \A i, k \in Nat : ~(Holds(q[r], i, j) /\ Holds(p[s], k, j)),
         \A r, s \in Services : \A t, u \in Threads :
           Works(th[r][t], j) /\ Works(th[s][u], j) => r = s /\ t = u,
         \A r, s \in Services : \A t \in Threads : \A i \in Nat :
           ~(Works(th[r][t], j) /\ (Holds(q[s], i, j) \/ Holds(p[s], i, j)))
  PROVE  AtMostOnce(q, p, th, j)
BY DEF AtMostOnce

LEMMA HoldsAppend ==
  ASSUME NEW q \in Seq(IpcMessage), NEW m \in IpcMessage, NEW i \in Nat, NEW j
  PROVE  Holds(Append(q, m), i, j) <=>
           \/ Holds(q, i, j)
           \/ i = Len(q) + 1 /\ m # PoisonPill /\ m.job_id = j
BY DEF Holds

LEMMA HoldsBounded ==
  ASSUME NEW q \in Seq(IpcMessage), NEW i, NEW j, Holds(q, i, j)
  PROVE  i \in Nat /\ i >= 1 /\ i <= Len(q)
BY DEF Holds

LEMMA HoldsTail ==
  ASSUME NEW q \in Seq(IpcMessage), q # <<>>, NEW i \in Nat, NEW j
  PROVE  /\ Holds(Tail(q), i, j) <=> i # 0 /\ Holds(q, i + 1, j)
         /\ Holds(q, 1, j) <=> Head(q) # PoisonPill /\ Head(q).job_id = j
<1>1. Len(q) \in Nat /\ Len(q) >= 1 /\ DOMAIN q = 1 .. Len(q)
  OBVIOUS
<1>2. Len(Tail(q)) = Len(q) - 1 /\ DOMAIN Tail(q) = 1 .. (Len(q) - 1) /\ Head(q) = q[1]
  BY <1>1
<1>3. \A k \in DOMAIN Tail(q) : Tail(q)[k] = q[k + 1]
  BY <1>1
<1> QED
  BY <1>1, <1>2, <1>3 DEF Holds

LEMMA PoolIsQueue == Seq(FileJobShm) \subseteq Seq(IpcMessage)
BY DEF IpcMessage

LEMMA IdleNotInFlight == ~InFlight(Idle)
BY DEF Idle, InFlight

LEMMA SendingInFlight ==
  ASSUME NEW to, NEW job
  PROVE  InFlight(Sending(to, job)) /\ Sending(to, job).job = job
BY DEF Sending, InFlight

LEMMA RemovingNotInFlight == ASSUME NEW job PROVE ~InFlight(Removing(job))
BY DEF Removing, InFlight

----------------------------------------------------------------------------
(* The places of a job are its Copies *)

\* The places of a function of sequences, as in Places.
PlacesIn(f, a) == UNION {{a} \X {s} \X DOMAIN f[s] : s \in Services}
PlacesOfThreads == {p \in {"thread"} \X Services \X Threads : InFlight(thread[p[2]][p[3]])}

LEMMA TripleIs ==
  ASSUME NEW a, NEW s, NEW D, NEW p
  PROVE  p \in {a} \X {s} \X D <=> \E i \in D : p = <<a, s, i>>
<1>1. ASSUME NEW i \in D PROVE <<a, s, i>> \in {a} \X {s} \X D
  OBVIOUS
<1>2. ASSUME p \in {a} \X {s} \X D PROVE \E i \in D : p = <<a, s, i>>
  BY <1>2
<1> QED
  BY <1>1, <1>2

LEMMA PlacesInAre ==
  ASSUME NEW f, NEW a, NEW p
  PROVE  p \in PlacesIn(f, a) <=> \E s \in Services : \E i \in DOMAIN f[s] : p = <<a, s, i>>
BY TripleIs DEF PlacesIn

LEMMA PlacesOfThreadsAre ==
  ASSUME NEW p
  PROVE  p \in PlacesOfThreads <=>
           \E s \in Services : \E t \in Threads : p = <<"thread", s, t>> /\ InFlight(thread[s][t])
<1>1. ASSUME NEW s \in Services, NEW t \in Threads, InFlight(thread[s][t])
      PROVE  <<"thread", s, t>> \in PlacesOfThreads
  BY <1>1 DEF PlacesOfThreads
<1>2. ASSUME p \in PlacesOfThreads
      PROVE  \E s \in Services : \E t \in Threads : p = <<"thread", s, t>> /\ InFlight(thread[s][t])
  BY <1>2 DEF PlacesOfThreads
<1> QED
  BY <1>1, <1>2

LEMMA AtIs ==
  ASSUME NEW p, NEW s, NEW i
  PROVE  /\ p = <<"queue", s, i>> => At(p) = queue[s][i]
         /\ p = <<"pool", s, i>> => At(p) = pool[s][i]
         /\ p = <<"thread", s, i>> => At(p) = thread[s][i].job
<1>1. p = <<"queue", s, i>> => At(p) = queue[s][i]
  BY DEF At
<1>2. p = <<"pool", s, i>> => At(p) = pool[s][i]
  BY DEF At
<1>3. p = <<"thread", s, i>> => At(p) = thread[s][i].job
  BY DEF At
<1> QED
  BY <1>1, <1>2, <1>3

\* The places of a job are those that hold it.
LEMMA CopiesAre ==
  ASSUME TypeOK, NEW j \in Jobs, NEW p
  PROVE  p \in Copies(j) <=>
           \E s \in Services :
             \/ \E i \in Nat : p = <<"queue", s, i>> /\ Holds(queue[s], i, j)
             \/ \E i \in Nat : p = <<"pool", s, i>> /\ Holds(pool[s], i, j)
             \/ \E t \in Threads : p = <<"thread", s, t>> /\ Works(thread[s][t], j)
<1>1. \A s \in Services : DOMAIN queue[s] \subseteq Nat /\ DOMAIN pool[s] \subseteq Nat
  BY DEF TypeOK
<1>2. \A s \in Services : \A t \in Threads : thread[s][t].job # PoisonPill
  BY FileJobAssumption DEF TypeOK, ThreadState
<1>3. Places = PlacesIn(queue, "queue") \union PlacesIn(pool, "pool") \union PlacesOfThreads
  BY DEF Places, PlacesIn, PlacesOfThreads
<1>4. p \in Places <=>
        \E s \in Services :
          \/ \E i \in DOMAIN queue[s] : p = <<"queue", s, i>>
          \/ \E i \in DOMAIN pool[s] : p = <<"pool", s, i>>
          \/ \E t \in Threads : p = <<"thread", s, t>> /\ InFlight(thread[s][t])
  BY <1>3, PlacesInAre, PlacesOfThreadsAre
<1>5. \A s \in Services : \A i \in DOMAIN pool[s] : pool[s][i] # PoisonPill
  BY FileJobAssumption DEF TypeOK
<1>6. p \in Copies(j) <=> p \in Places /\ At(p) # PoisonPill /\ At(p).job_id = j
  BY DEF Copies
<1>7. ASSUME p \in Copies(j)
      PROVE  \E s \in Services :
               \/ \E i \in Nat : p = <<"queue", s, i>> /\ Holds(queue[s], i, j)
               \/ \E i \in Nat : p = <<"pool", s, i>> /\ Holds(pool[s], i, j)
               \/ \E t \in Threads : p = <<"thread", s, t>> /\ Works(thread[s][t], j)
  <2>1. ASSUME NEW s \in Services, NEW i \in DOMAIN queue[s], p = <<"queue", s, i>>
        PROVE  i \in Nat /\ Holds(queue[s], i, j)
    <3>1. At(p) = queue[s][i]
      BY <2>1, AtIs
    <3> QED
      BY <1>1, <1>6, <1>7, <3>1 DEF Holds
  <2>2. ASSUME NEW s \in Services, NEW i \in DOMAIN pool[s], p = <<"pool", s, i>>
        PROVE  i \in Nat /\ Holds(pool[s], i, j)
    <3>1. At(p) = pool[s][i]
      BY <2>2, AtIs
    <3> QED
      BY <1>1, <1>6, <1>7, <3>1 DEF Holds
  <2>3. ASSUME NEW s \in Services, NEW t \in Threads, p = <<"thread", s, t>>, InFlight(thread[s][t])
        PROVE  Works(thread[s][t], j)
    <3>1. At(p) = thread[s][t].job
      BY <2>3, AtIs
    <3> QED
      BY <1>6, <1>7, <2>3, <3>1 DEF Works
  <2> QED
    BY <1>4, <1>6, <1>7, <2>1, <2>2, <2>3
<1>8. ASSUME NEW s \in Services, NEW i \in Nat, p = <<"queue", s, i>>, Holds(queue[s], i, j)
      PROVE  p \in Copies(j)
  BY <1>4, <1>6, <1>8, AtIs DEF Holds
<1>9. ASSUME NEW s \in Services, NEW i \in Nat, p = <<"pool", s, i>>, Holds(pool[s], i, j)
      PROVE  p \in Copies(j)
  BY <1>4, <1>5, <1>6, <1>9, AtIs DEF Holds
<1>10. ASSUME NEW s \in Services, NEW t \in Threads, p = <<"thread", s, t>>, Works(thread[s][t], j)
       PROVE  p \in Copies(j)
  <2>1. At(p) = thread[s][t].job
    BY <1>10, AtIs
  <2> QED
    BY <1>2, <1>4, <1>6, <1>10, <2>1 DEF Works
<1> QED
  BY <1>7, <1>8, <1>9, <1>10

\* So SingleCopy and NothingVanishes say that every job is tracked.
LEMMA TrackedIs ==
  ASSUME TypeOK
  PROVE  SingleCopy /\ NothingVanishes <=> AllTracked
<1>1. ASSUME NEW j \in Jobs
      PROVE  Copies(j) # {} <=> Somewhere(queue, pool, thread, j)
  <2>1. Copies(j) # {} <=> \E p : p \in Copies(j)
    OBVIOUS
  <2> QED
    BY <2>1, CopiesAre DEF Somewhere
<1>2. ASSUME NEW j \in Jobs
      PROVE  (\A p, q \in Copies(j) : p = q) <=> AtMostOnce(queue, pool, thread, j)
  <2>1. ASSUME \A p, q \in Copies(j) : p = q
        PROVE  AtMostOnce(queue, pool, thread, j)
    <3>1. \A s \in Services : \A i \in Nat :
            /\ Holds(queue[s], i, j) => <<"queue", s, i>> \in Copies(j)
            /\ Holds(pool[s], i, j) => <<"pool", s, i>> \in Copies(j)
      BY CopiesAre
    <3>2. \A s \in Services : \A t \in Threads :
            Works(thread[s][t], j) => <<"thread", s, t>> \in Copies(j)
      BY CopiesAre
    <3> SUFFICES ASSUME NEW r \in Services, NEW s \in Services
                 PROVE
                   /\ \A i, k \in Nat :
                        /\ Holds(queue[r], i, j) /\ Holds(queue[s], k, j) => r = s /\ i = k
                        /\ Holds(pool[r], i, j) /\ Holds(pool[s], k, j) => r = s /\ i = k
                        /\ ~(Holds(queue[r], i, j) /\ Holds(pool[s], k, j))
                   /\ \A t, u \in Threads :
                        Works(thread[r][t], j) /\ Works(thread[s][u], j) => r = s /\ t = u
                   /\ \A t \in Threads : \A i \in Nat :
                        ~(Works(thread[r][t], j) /\ (Holds(queue[s], i, j) \/ Holds(pool[s], i, j)))
      BY DEF AtMostOnce
    <3>3. ASSUME NEW i \in Nat, NEW k \in Nat
          PROVE  /\ Holds(queue[r], i, j) /\ Holds(queue[s], k, j) => r = s /\ i = k
                 /\ Holds(pool[r], i, j) /\ Holds(pool[s], k, j) => r = s /\ i = k
                 /\ ~(Holds(queue[r], i, j) /\ Holds(pool[s], k, j))
      <4>1. /\ Holds(queue[r], i, j) /\ Holds(queue[s], k, j) => <<"queue", r, i>> = <<"queue", s, k>>
            /\ Holds(pool[r], i, j) /\ Holds(pool[s], k, j) => <<"pool", r, i>> = <<"pool", s, k>>
            /\ Holds(queue[r], i, j) /\ Holds(pool[s], k, j) => <<"queue", r, i>> = <<"pool", s, k>>
        BY <2>1, <3>1
      <4> QED
        BY <4>1
    <3>4. ASSUME NEW t \in Threads, NEW u \in Threads
          PROVE  Works(thread[r][t], j) /\ Works(thread[s][u], j) => r = s /\ t = u
      <4>1. Works(thread[r][t], j) /\ Works(thread[s][u], j)
              => <<"thread", r, t>> = <<"thread", s, u>>
        BY <2>1, <3>2
      <4> QED
        BY <4>1
    <3>5. ASSUME NEW t \in Threads, NEW i \in Nat
          PROVE  ~(Works(thread[r][t], j) /\ (Holds(queue[s], i, j) \/ Holds(pool[s], i, j)))
      <4>1. /\ Works(thread[r][t], j) /\ Holds(queue[s], i, j)
                 => <<"thread", r, t>> = <<"queue", s, i>>
            /\ Works(thread[r][t], j) /\ Holds(pool[s], i, j)
                 => <<"thread", r, t>> = <<"pool", s, i>>
        BY <2>1, <3>1, <3>2
      <4> QED
        BY <4>1
    <3> QED
      BY <3>3, <3>4, <3>5
  <2>2. ASSUME AtMostOnce(queue, pool, thread, j), NEW p \in Copies(j), NEW q \in Copies(j)
        PROVE  p = q
    BY <2>2, CopiesAre DEF AtMostOnce
  <2> QED
    BY <2>1, <2>2
<1> QED
  BY <1>1, <1>2 DEF SingleCopy, NothingVanishes, AllTracked, Tracked

----------------------------------------------------------------------------
(* How each kind of step moves a job *)

\* A message is appended to a queue: nothing else moves.
LEMMA AppendPlaces ==
  ASSUME TypeOK, NEW to \in Services, NEW m \in IpcMessage,
         queue' = [queue EXCEPT ![to] = Append(@, m)],
         NEW s \in Services, NEW i \in Nat, NEW j
  PROVE  Holds(queue'[s], i, j) <=>
           \/ Holds(queue[s], i, j)
           \/ s = to /\ i = Len(queue[to]) + 1 /\ m # PoisonPill /\ m.job_id = j
<1>1. queue \in [Services -> Seq(IpcMessage)]
  BY DEF TypeOK
<1>2. CASE s = to
  BY <1>1, <1>2, HoldsAppend
<1>3. CASE s # to
  BY <1>1, <1>3
<1> QED
  BY <1>2, <1>3

\* The head of a queue is taken: the others move up.
LEMMA TailPlaces ==
  ASSUME NEW f \in [Services -> Seq(IpcMessage)], NEW d \in Services, f[d] # <<>>,
         NEW s \in Services, NEW i \in Nat, NEW j
  PROVE  Holds([f EXCEPT ![d] = Tail(@)][s], i, j) <=>
           IF s = d THEN i # 0 /\ Holds(f[d], i + 1, j) ELSE Holds(f[s], i, j)
<1>1. CASE s = d
  BY <1>1, HoldsTail
<1>2. CASE s # d
  BY <1>2
<1> QED
  BY <1>1, <1>2

\* No place of a sequence lies beyond its end.
LEMMA NoneBeyond ==
  ASSUME NEW q \in Seq(IpcMessage), NEW j
  PROVE  ~Holds(q, Len(q) + 1, j)
BY DEF Holds

LEMMA SubmitTracked ==
  ASSUME TypeOK, AllTracked, NEW k \in Jobs, Submit(k)
  PROVE  AllTracked'
<1> DEFINE new == [DefaultJob EXCEPT !.job_id = k]
           last == Len(queue["qm"]) + 1
<1>1. new \in FileJobShm /\ new \in IpcMessage /\ new # PoisonPill /\ new.job_id = k
  BY DefaultJobType, FileJobAssumption DEF FileJobShm, IpcMessage, DefaultJob
<1>2. "qm" \in Services /\ last \in Nat
  BY DEF Services, TypeOK
<1>3. ASSUME NEW s \in Services, NEW i \in Nat, NEW j \in Jobs
      PROVE  Holds(queue'[s], i, j) <=>
               Holds(queue[s], i, j) \/ (s = "qm" /\ i = last /\ j = k)
  <2>1. queue' = [queue EXCEPT !["qm"] = Append(@, new)]
    BY DEF Submit
  <2> HIDE DEF new
  <2> QED
    BY <1>1, <1>2, <2>1, AppendPlaces
<1>4. ~Somewhere(queue, pool, thread, k)
  BY DEF Submit, AllTracked, Tracked
<1> SUFFICES ASSUME NEW j \in Jobs
             PROVE  Tracked(queue', pool', thread', fate'[j], j)
  BY DEF AllTracked
<1>5. Tracked(queue, pool, thread, fate[j], j) /\ pool' = pool /\ thread' = thread
      /\ fate' = [fate EXCEPT ![k] = "accepted"] /\ fate \in [Jobs -> Fates]
  BY DEF AllTracked, Submit, TypeOK
<1> HIDE DEF last
<1>6. CASE j = k
  <2>1. \A s \in Services : \A i \in Nat :
          Holds(queue'[s], i, j) <=> s = "qm" /\ i = last
    BY <1>3, <1>4, <1>6 DEF Somewhere
  <2>2. \A s \in Services : /\ \A i \in Nat : ~Holds(pool[s], i, j)
                            /\ \A t \in Threads : ~Works(thread[s][t], j)
    BY <1>4, <1>6 DEF Somewhere
  <2>3. AtMostOnce(queue', pool, thread, j)
    BY <2>1, <2>2 DEF AtMostOnce
  <2>4. Somewhere(queue', pool, thread, j)
    BY <1>2, <2>1 DEF Somewhere
  <2> QED
    BY <1>5, <1>6, <2>3, <2>4 DEF Tracked
<1>7. CASE j # k
  <2>1. \A s \in Services : \A i \in Nat : Holds(queue'[s], i, j) <=> Holds(queue[s], i, j)
    BY <1>3, <1>7
  <2>2. AtMostOnce(queue', pool, thread, j) /\
          (Somewhere(queue', pool, thread, j) <=> Somewhere(queue, pool, thread, j))
    BY <1>5, <2>1 DEF Tracked, AtMostOnce, Somewhere
  <2> QED
    BY <1>5, <1>7, <2>2 DEF Tracked
<1> QED
  BY <1>6, <1>7

\* The receive loop moves the head of a queue to the end of the pool.
LEMMA ReceiveTracked ==
  ASSUME TypeOK, AllTracked, NEW d \in Services, Receive(d)
  PROVE  AllTracked'
<1> DEFINE last == Len(pool[d]) + 1
<1>1. /\ queue \in [Services -> Seq(IpcMessage)] /\ queue[d] # <<>>
      /\ pool \in [Services -> Seq(IpcMessage)]
      /\ last \in Nat /\ Head(queue[d]) \in IpcMessage /\ Head(queue[d]) # PoisonPill
      /\ queue' = [queue EXCEPT ![d] = Tail(@)]
      /\ pool' = [pool EXCEPT ![d] = Append(@, Head(queue[d]))]
      /\ thread' = thread /\ fate' = fate
  BY TailAt, PoolIsQueue DEF TypeOK, Receive
<1>2. ASSUME NEW s \in Services, NEW i \in Nat, NEW j
      PROVE  Holds(queue'[s], i, j) <=>
               IF s = d THEN i # 0 /\ Holds(queue[d], i + 1, j) ELSE Holds(queue[s], i, j)
  BY <1>1, TailPlaces, ZenonT(60)
<1>3. ASSUME NEW s \in Services, NEW i \in Nat, NEW j
      PROVE  Holds(pool'[s], i, j) <=>
               Holds(pool[s], i, j) \/ (s = d /\ i = last /\ Holds(queue[d], 1, j))
  <2>1. Holds(queue[d], 1, j) <=> Head(queue[d]).job_id = j
    BY <1>1, HoldsTail
  <2>2. CASE s = d
    BY <1>1, <2>1, <2>2, HoldsAppend
  <2>3. CASE s # d
    BY <1>1, <2>3
  <2> QED
    BY <2>2, <2>3
<1>4. \A j : ~Holds(pool[d], last, j)
  BY <1>1, NoneBeyond
<1> HIDE DEF last
<1> SUFFICES ASSUME NEW j \in Jobs
             PROVE  Tracked(queue', pool', thread, fate[j], j)
  BY <1>1 DEF AllTracked
<1>5. Tracked(queue, pool, thread, fate[j], j)
  BY DEF AllTracked
<1>6. \A s \in Services : \A i \in Nat : Holds(queue[s], i, j) => i # 0
  BY <1>1, HoldsBounded
<1>7. AtMostOnce(queue', pool', thread, j)
  <2>1. AtMostOnce(queue, pool, thread, j) /\ 1 \in Nat
    BY <1>5 DEF Tracked
  <2>2. ASSUME NEW r \in Services, NEW s \in Services, NEW i \in Nat, NEW k \in Nat
        PROVE  /\ Holds(queue'[r], i, j) /\ Holds(queue'[s], k, j) => r = s /\ i = k
               /\ Holds(pool'[r], i, j) /\ Holds(pool'[s], k, j) => r = s /\ i = k
               /\ ~(Holds(queue'[r], i, j) /\ Holds(pool'[s], k, j))
    <3> DEFINE before(r_, i_) == IF r_ = d THEN i_ + 1 ELSE i_
    <3>1. /\ Holds(queue'[r], i, j) => Holds(queue[r], before(r, i), j)
          /\ Holds(queue'[s], k, j) => Holds(queue[s], before(s, k), j)
      BY <1>2
    <3>2. before(r, i) \in Nat /\ before(s, k) \in Nat /\ (before(d, i) # 1 \/ i = 0)
      OBVIOUS
    <3>3. Holds(queue'[r], i, j) /\ Holds(queue'[s], k, j) => r = s /\ i = k
      BY <2>1, <3>1, <3>2 DEF AtMostOnce
    <3>4. Holds(pool'[r], i, j) /\ Holds(pool'[s], k, j) => r = s /\ i = k
      BY <2>1, <1>3, <1>4 DEF AtMostOnce
    <3>5. ~(Holds(queue'[r], i, j) /\ Holds(pool'[s], k, j))
      <4>1. ASSUME Holds(queue'[r], i, j), Holds(pool[s], k, j) PROVE FALSE
        BY <2>1, <3>1, <3>2, <4>1 DEF AtMostOnce
      <4>2. ASSUME Holds(queue'[r], i, j), Holds(queue[d], 1, j) PROVE FALSE
        <5>1. Holds(queue[r], before(r, i), j)
          BY <3>1, <4>2
        <5>2. r = d /\ before(r, i) = 1
          BY <2>1, <3>2, <4>2, <5>1 DEF AtMostOnce
        <5>3. i # 0
          BY <1>2, <4>2, <5>2
        <5> QED
          BY <5>2, <5>3
      <4> QED
        BY <1>3, <4>1, <4>2
    <3> QED
      BY <3>3, <3>4, <3>5
  <2>3. ASSUME NEW r \in Services, NEW s \in Services, NEW t \in Threads, NEW i \in Nat
        PROVE  ~(Works(thread[r][t], j) /\ (Holds(queue'[s], i, j) \/ Holds(pool'[s], i, j)))
    <3>1. ASSUME Works(thread[r][t], j)
          PROVE  \A k \in Nat : ~Holds(queue[s], k, j) /\ ~Holds(pool[s], k, j)
      BY <2>1, <3>1 DEF AtMostOnce
    <3>2. ASSUME Works(thread[r][t], j) PROVE ~Holds(queue'[s], i, j)
      BY <1>2, <3>1, <3>2
    <3>3. ASSUME Works(thread[r][t], j) PROVE ~Holds(pool'[s], i, j)
      BY <1>3, <3>1, <3>3
    <3> QED
      BY <3>2, <3>3
  <2>4. \A r, s \in Services : \A t, u \in Threads :
          Works(thread[r][t], j) /\ Works(thread[s][u], j) => r = s /\ t = u
    BY <2>1 DEF AtMostOnce
  <2> QED
    BY <2>2, <2>3, <2>4, AtMostOnceParts
<1>8. Somewhere(queue', pool', thread, j) <=> Somewhere(queue, pool, thread, j)
  <2>1. ASSUME Somewhere(queue', pool', thread, j)
        PROVE  Somewhere(queue, pool, thread, j)
    BY <1>2, <1>3, <2>1 DEF Somewhere
  <2>2. ASSUME Somewhere(queue, pool, thread, j)
        PROVE  Somewhere(queue', pool', thread, j)
    <3>1. ASSUME NEW i \in Nat, Holds(queue[d], i, j)
          PROVE  Somewhere(queue', pool', thread, j)
      <4>1. CASE i = 1
        BY <1>1, <1>3, <3>1, <4>1 DEF Somewhere
      <4>2. CASE i # 1
        <5>1. i - 1 \in Nat /\ i - 1 # 0 /\ (i - 1) + 1 = i
          BY <1>6, <3>1, <4>2
        <5>2. Holds(queue'[d], i - 1, j)
          BY <1>2, <3>1, <5>1
        <5> QED
          BY <5>1, <5>2 DEF Somewhere
      <4> QED
        BY <4>1, <4>2
    <3> QED
      BY <1>2, <1>3, <2>2, <3>1 DEF Somewhere
  <2> QED
    BY <2>1, <2>2
<1> QED
  BY <1>5, <1>7, <1>8 DEF Tracked

\* One thread turns to something else: the others do not.
LEMMA ThreadPlaces ==
  ASSUME TypeOK, NEW d \in Services, NEW v \in Threads, NEW next,
         thread' = [thread EXCEPT ![d][v] = next],
         NEW s \in Services, NEW t \in Threads, NEW j
  PROVE  Works(thread'[s][t], j) <=>
           IF s = d /\ t = v THEN Works(next, j) ELSE Works(thread[s][t], j)
<1>1. thread'[s][t] = IF s = d /\ t = v THEN next ELSE thread[s][t]
  BY DEF TypeOK
<1> QED
  BY <1>1

\* An idle thread takes the head of its pool.
LEMMA BeginTracked ==
  ASSUME TypeOK, AllTracked, NEW d \in Services, NEW v \in Threads, Begin(d, v)
  PROVE  AllTracked'
<1> DEFINE next == [at |-> "handling", to |-> "", job |-> Head(pool[d])]
<1>1. /\ pool \in [Services -> Seq(FileJobShm)] /\ pool[d] # <<>>
      /\ pool \in [Services -> Seq(IpcMessage)]
      /\ Head(pool[d]) \in FileJobShm /\ Head(pool[d]) # PoisonPill
      /\ pool' = [pool EXCEPT ![d] = Tail(@)]
      /\ thread' = [thread EXCEPT ![d][v] = next]
      /\ thread[d][v] = Idle
      /\ queue' = queue /\ fate' = fate
  <2>1. pool \in [Services -> Seq(FileJobShm)] /\ pool[d] # <<>>
    BY DEF TypeOK, Begin
  <2>2. Head(pool[d]) \in FileJobShm
    BY <2>1, TailAt
  <2> QED
    BY <2>1, <2>2, PoolIsQueue, FileJobAssumption DEF Begin
<1> SUFFICES ASSUME NEW j \in Jobs
             PROVE  Tracked(queue, pool', thread', fate[j], j)
  BY <1>1 DEF AllTracked
<1>2. \A s \in Services : \A i \in Nat :
        Holds(pool'[s], i, j) <=>
          IF s = d THEN i # 0 /\ Holds(pool[d], i + 1, j) ELSE Holds(pool[s], i, j)
  BY <1>1, TailPlaces, ZenonT(60)
<1>3. Works(next, j) <=> Holds(pool[d], 1, j)
  <2>1. Works(next, j) <=> Head(pool[d]).job_id = j
    BY DEF Works, InFlight
  <2>2. pool[d] \in Seq(IpcMessage)
    BY <1>1
  <2> QED
    BY <1>1, <2>1, <2>2, HoldsTail
<1>4. \A s \in Services : \A t \in Threads :
        Works(thread'[s][t], j) <=>
          IF s = d /\ t = v THEN Holds(pool[d], 1, j) ELSE Works(thread[s][t], j)
  <2> HIDE DEF next
  <2> QED
    BY <1>1, <1>3, ThreadPlaces
<1>5. Tracked(queue, pool, thread, fate[j], j) /\ ~Works(thread[d][v], j)
  BY <1>1, IdleNotInFlight DEF AllTracked, Works
<1>6. \A i \in Nat : Holds(pool[d], i, j) => i # 0
  <2>1. pool[d] \in Seq(IpcMessage)
    BY <1>1
  <2> QED
    BY <2>1, HoldsBounded
<1>7. AtMostOnce(queue, pool', thread', j)
  <2>1. AtMostOnce(queue, pool, thread, j) /\ 1 \in Nat
    BY <1>5 DEF Tracked
  <2>2. ASSUME NEW r \in Services, NEW s \in Services, NEW i \in Nat, NEW k \in Nat
        PROVE  /\ Holds(queue[r], i, j) /\ Holds(queue[s], k, j) => r = s /\ i = k
               /\ Holds(pool'[r], i, j) /\ Holds(pool'[s], k, j) => r = s /\ i = k
               /\ ~(Holds(queue[r], i, j) /\ Holds(pool'[s], k, j))
    <3> DEFINE before(r_, i_) == IF r_ = d THEN i_ + 1 ELSE i_
    <3>1. /\ Holds(pool'[r], i, j) => Holds(pool[r], before(r, i), j)
          /\ Holds(pool'[s], k, j) => Holds(pool[s], before(s, k), j)
      BY <1>2
    <3>2. before(r, i) \in Nat /\ before(s, k) \in Nat
      OBVIOUS
    <3>3. Holds(pool'[r], i, j) /\ Holds(pool'[s], k, j) => r = s /\ i = k
      BY <2>1, <3>1, <3>2 DEF AtMostOnce
    <3>4. ~(Holds(queue[r], i, j) /\ Holds(pool'[s], k, j))
      BY <2>1, <3>1, <3>2 DEF AtMostOnce
    <3> QED
      BY <2>1, <3>3, <3>4 DEF AtMostOnce
  <2>3. ASSUME NEW r \in Services, NEW s \in Services, NEW t \in Threads, NEW i \in Nat
        PROVE  ~(Works(thread'[r][t], j) /\ (Holds(queue[s], i, j) \/ Holds(pool'[s], i, j)))
    <3> DEFINE before == IF s = d THEN i + 1 ELSE i
    <3>1. Holds(pool'[s], i, j) => Holds(pool[s], before, j) /\ before \in Nat
                                    /\ (s = d => before # 1)
      BY <1>2
    <3>2. CASE r = d /\ t = v
      <4>1. Works(thread'[r][t], j) => Holds(pool[d], 1, j)
        BY <1>4, <3>2
      <4> HIDE DEF before
      <4> QED
        BY <2>1, <3>1, <4>1 DEF AtMostOnce
    <3>3. CASE ~(r = d /\ t = v)
      BY <1>4, <2>1, <3>1, <3>3 DEF AtMostOnce
    <3> QED
      BY <3>2, <3>3
  <2>4. \A r, s \in Services : \A t, u \in Threads :
          Works(thread'[r][t], j) /\ Works(thread'[s][u], j) => r = s /\ t = u
    BY <1>4, <2>1 DEF AtMostOnce
  <2> QED
    BY <2>2, <2>3, <2>4, AtMostOnceParts
<1>8. Somewhere(queue, pool', thread', j) <=> Somewhere(queue, pool, thread, j)
  <2>1. ASSUME Somewhere(queue, pool', thread', j)
        PROVE  Somewhere(queue, pool, thread, j)
    BY <1>2, <1>4, <2>1 DEF Somewhere
  <2>2. ASSUME Somewhere(queue, pool, thread, j)
        PROVE  Somewhere(queue, pool', thread', j)
    <3>1. ASSUME NEW i \in Nat, Holds(pool[d], i, j)
          PROVE  Somewhere(queue, pool', thread', j)
      <4>1. CASE i = 1
        BY <1>4, <3>1, <4>1 DEF Somewhere
      <4>2. CASE i # 1
        <5>1. i - 1 \in Nat /\ i - 1 # 0 /\ (i - 1) + 1 = i
          BY <1>6, <3>1, <4>2
        <5>2. Holds(pool'[d], i - 1, j)
          BY <1>2, <3>1, <5>1
        <5> QED
          BY <5>1, <5>2 DEF Somewhere
      <4> QED
        BY <4>1, <4>2
    <3>2. ASSUME NEW s \in Services, NEW t \in Threads, Works(thread[s][t], j)
          PROVE  Works(thread'[s][t], j)
      BY <1>4, <1>5, <3>2
    <3> QED
      BY <1>2, <2>2, <3>1, <3>2 DEF Somewhere
  <2> QED
    BY <2>1, <2>2
<1> QED
  BY <1>5, <1>7, <1>8 DEF Tracked

\* A thread appends the job it holds to a queue and is idle again.
LEMMA SendTracked ==
  ASSUME TypeOK, WellRouted, AllTracked, NEW d \in Services, NEW v \in Threads, Send(d, v)
  PROVE  AllTracked'
<1> DEFINE to == thread[d][v].to
           job == thread[d][v].job
           last == Len(queue[to]) + 1
<1>1. to \in Services /\ job.job_id \in Jobs
  BY DEF Send, WellRouted, Fits
<1>2. /\ job \in IpcMessage /\ job # PoisonPill
      /\ queue[to] \in Seq(IpcMessage) /\ last \in Nat
      /\ queue' = [queue EXCEPT ![to] = Append(@, job)]
      /\ thread' = [thread EXCEPT ![d][v] = Idle]
      /\ pool' = pool /\ fate' = fate
  BY <1>1, FileJobAssumption DEF TypeOK, ThreadState, IpcMessage, Send
<1> SUFFICES ASSUME NEW j \in Jobs
             PROVE  Tracked(queue', pool, thread', fate[j], j)
  BY <1>2 DEF AllTracked
<1>3. Works(thread[d][v], j) <=> job.job_id = j
  BY DEF Works, InFlight, Send
<1> HIDE DEF to, job
<1>4. \A s \in Services : \A i \in Nat :
        Holds(queue'[s], i, j) <=>
          Holds(queue[s], i, j) \/ (s = to /\ i = last /\ Works(thread[d][v], j))
  <2>1. \A s \in Services : \A i \in Nat :
          Holds(queue'[s], i, j) <=>
            Holds(queue[s], i, j) \/ (s = to /\ i = last /\ job # PoisonPill /\ job.job_id = j)
    BY <1>1, <1>2, AppendPlaces
  <2> QED
    BY <1>2, <1>3, <2>1
<1>5. ~Holds(queue[to], last, j)
  BY <1>2, NoneBeyond
<1> HIDE DEF last
<1>6. \A s \in Services : \A t \in Threads :
        Works(thread'[s][t], j) <=> ~(s = d /\ t = v) /\ Works(thread[s][t], j)
  <2>1. ~Works(Idle, j)
    BY IdleNotInFlight DEF Works
  <2> QED
    BY <1>2, <2>1, ThreadPlaces
<1>7. Tracked(queue, pool, thread, fate[j], j)
  BY DEF AllTracked
<1>8. AtMostOnce(queue', pool, thread', j)
  <2>1. AtMostOnce(queue, pool, thread, j)
    BY <1>7 DEF Tracked
  <2>2. ASSUME NEW r \in Services, NEW s \in Services, NEW i \in Nat, NEW k \in Nat
        PROVE  /\ Holds(queue'[r], i, j) /\ Holds(queue'[s], k, j) => r = s /\ i = k
               /\ Holds(pool[r], i, j) /\ Holds(pool[s], k, j) => r = s /\ i = k
               /\ ~(Holds(queue'[r], i, j) /\ Holds(pool[s], k, j))
    BY <1>4, <2>1 DEF AtMostOnce
  <2>3. ASSUME NEW r \in Services, NEW s \in Services, NEW t \in Threads, NEW i \in Nat
        PROVE  ~(Works(thread'[r][t], j) /\ (Holds(queue'[s], i, j) \/ Holds(pool[s], i, j)))
    BY <1>4, <1>6, <2>1 DEF AtMostOnce
  <2>4. \A r, s \in Services : \A t, u \in Threads :
          Works(thread'[r][t], j) /\ Works(thread'[s][u], j) => r = s /\ t = u
    BY <1>6, <2>1 DEF AtMostOnce
  <2> QED
    BY <2>2, <2>3, <2>4, AtMostOnceParts
<1>9. Somewhere(queue', pool, thread', j) <=> Somewhere(queue, pool, thread, j)
  <2>1. ASSUME Somewhere(queue', pool, thread', j)
        PROVE  Somewhere(queue, pool, thread, j)
    BY <1>4, <1>6, <2>1 DEF Somewhere
  <2>2. ASSUME Somewhere(queue, pool, thread, j)
        PROVE  Somewhere(queue', pool, thread', j)
    BY <1>1, <1>2, <1>4, <1>6, <2>2 DEF Somewhere
  <2> QED
    BY <2>1, <2>2
<1> QED
  BY <1>7, <1>8, <1>9 DEF Tracked

\* A thread goes on with a job of the same id, or stays without one.
LEMMA WorkTracked ==
  ASSUME TypeOK, AllTracked, NEW d \in Services, NEW v \in Threads, NEW next,
         \A j \in Jobs : Works(next, j) <=> Works(thread[d][v], j),
         thread' = [thread EXCEPT ![d][v] = next],
         UNCHANGED <<queue, pool>>,
         \A j \in Jobs : fate'[j] = "accepted" <=> fate[j] = "accepted"
  PROVE  AllTracked'
<1> SUFFICES ASSUME NEW j \in Jobs
             PROVE  Tracked(queue, pool, thread', fate'[j], j)
  BY DEF AllTracked
<1>1. Works(next, j) <=> Works(thread[d][v], j)
  OBVIOUS
<1>2. \A s \in Services : \A t \in Threads :
        Works(thread'[s][t], j) <=> Works(thread[s][t], j)
  BY <1>1, ThreadPlaces
<1> QED
  BY <1>2 DEF AllTracked, Tracked, AtMostOnce, Somewhere

\* A thread is done with a job that is accepted no longer.
LEMMA DoneTracked ==
  ASSUME TypeOK, AllTracked, NEW d \in Services, NEW v \in Threads, NEW next,
         InFlight(thread[d][v]), thread[d][v].job.job_id \in Jobs, ~InFlight(next),
         thread' = [thread EXCEPT ![d][v] = next],
         UNCHANGED <<queue, pool>>,
         \A j \in Jobs :
           fate'[j] = "accepted" <=> fate[j] = "accepted" /\ j # thread[d][v].job.job_id
  PROVE  AllTracked'
<1> SUFFICES ASSUME NEW j \in Jobs
             PROVE  Tracked(queue, pool, thread', fate'[j], j)
  BY DEF AllTracked
<1>1. Works(thread[d][v], j) <=> thread[d][v].job.job_id = j
  BY DEF Works
<1>2. \A s \in Services : \A t \in Threads :
        Works(thread'[s][t], j) <=> ~(s = d /\ t = v) /\ Works(thread[s][t], j)
  <2>1. ~Works(next, j)
    BY DEF Works
  <2> QED
    BY <2>1, ThreadPlaces
<1>3. Tracked(queue, pool, thread, fate[j], j)
  BY DEF AllTracked
<1>4. AtMostOnce(queue, pool, thread', j)
  BY <1>2, <1>3 DEF Tracked, AtMostOnce
<1>5. CASE Works(thread[d][v], j)
  <2>1. ~Somewhere(queue, pool, thread', j)
    BY <1>2, <1>3, <1>5 DEF Tracked, AtMostOnce, Somewhere
  <2> QED
    BY <1>1, <1>4, <1>5, <2>1 DEF Tracked
<1>6. CASE ~Works(thread[d][v], j)
  <2>1. \A s \in Services : \A t \in Threads : Works(thread'[s][t], j) <=> Works(thread[s][t], j)
    BY <1>2, <1>6
  <2>2. Somewhere(queue, pool, thread', j) <=> Somewhere(queue, pool, thread, j)
    BY <2>1 DEF Somewhere
  <2> QED
    BY <1>1, <1>3, <1>4, <1>6, <2>2 DEF Tracked
<1> QED
  BY <1>5, <1>6

\* Nothing moves.
LEMMA StillTracked ==
  ASSUME AllTracked, UNCHANGED <<queue, pool, thread>>,
         \A j \in Jobs : fate'[j] = "accepted" <=> fate[j] = "accepted"
  PROVE  AllTracked'
BY DEF AllTracked, Tracked

\* The jobs in the memory of a service are those its pool and threads hold.
LEMMA HeldByIs ==
  ASSUME TypeOK, NEW d \in Services, NEW j \in Jobs
  PROVE  j \in HeldBy(d) <=>
           \/ \E i \in Nat : Holds(pool[d], i, j)
           \/ \E t \in Threads : Works(thread[d][t], j)
<1>1. /\ d # "ingestd" /\ DOMAIN pool[d] \subseteq Nat
      /\ \A i \in DOMAIN pool[d] : pool[d][i] # PoisonPill
  BY FileJobAssumption DEF Services, TypeOK
<1> QED
  BY <1>1 DEF HeldBy, Holds, Works

\* With a process die the jobs in its memory, and no others.
LEMMA DieTracked ==
  ASSUME TypeOK, AllTracked, NEW w \in Workers, Die(w)
  PROVE  AllTracked'
<1>1. CASE w = "ingestd"
  <2>1. UNCHANGED <<queue, pool, thread>>
    BY <1>1 DEF Die
  <2>2. \A j \in Jobs : fate'[j] = "accepted" <=> fate[j] = "accepted"
    BY <1>1 DEF Die, HeldBy
  <2> QED
    BY <2>1, <2>2, StillTracked
<1>2. CASE w \in Services
  <2>1. ASSUME NEW j \in Jobs
        PROVE  Tracked(queue', pool', thread', fate'[j], j)
    <3>1. \A s \in Services : \A i \in Nat :
            Holds(pool'[s], i, j) <=> s # w /\ Holds(pool[s], i, j)
      BY <1>2 DEF Die, TypeOK, Holds, Services
    <3>2. \A s \in Services : \A t \in Threads :
            Works(thread'[s][t], j) <=> s # w /\ Works(thread[s][t], j)
      BY <1>2, IdleNotInFlight DEF Die, TypeOK, Works, Services
    <3>3. queue' = queue /\ fate'[j] = IF j \in HeldBy(w) THEN "lost" ELSE fate[j]
      BY DEF Die
    <3>4. Tracked(queue, pool, thread, fate[j], j)
      BY DEF AllTracked
    <3>5. AtMostOnce(queue, pool', thread', j)
      BY <3>1, <3>2, <3>4 DEF Tracked, AtMostOnce
    <3>6. CASE j \in HeldBy(w)
      <4>1. ~Somewhere(queue, pool', thread', j)
        BY <1>2, <3>1, <3>2, <3>4, <3>6, HeldByIs DEF Tracked, AtMostOnce, Somewhere
      <4> QED
        BY <3>3, <3>5, <3>6, <4>1 DEF Tracked
    <3>7. CASE j \notin HeldBy(w)
      <4>1. Somewhere(queue, pool', thread', j) <=> Somewhere(queue, pool, thread, j)
        BY <1>2, <3>1, <3>2, <3>7, HeldByIs DEF Somewhere
      <4> QED
        BY <3>3, <3>4, <3>5, <3>7, <4>1 DEF Tracked
    <3> QED
      BY <3>6, <3>7
  <2> QED
    BY <2>1 DEF AllTracked
<1> QED
  BY <1>1, <1>2 DEF Workers

----------------------------------------------------------------------------
(* What the handlers do with a job that fits *)

\* A thread that handles a job holds one that fits, and it is accepted.
LEMMA HandlingIs ==
  ASSUME TypeOK, WellRouted, AllTracked, NEW s \in Services, NEW t \in Threads,
         thread[s][t].at = "handling"
  PROVE  /\ thread[s][t].job \in FileJobShm
         /\ Fits(s, thread[s][t].job)
         /\ thread[s][t].job.job_id \in Jobs
         /\ fate[thread[s][t].job.job_id] = "accepted"
         /\ fate \in [Jobs -> Fates]
         /\ InFlight(thread[s][t])
<1>1. thread[s][t].job \in FileJobShm /\ fate \in [Jobs -> Fates]
  BY DEF TypeOK, ThreadState
<1>2. Fits(s, thread[s][t].job) /\ thread[s][t].job.job_id \in Jobs
  BY DEF WellRouted, Fits
<1>3. Works(thread[s][t], thread[s][t].job.job_id) /\ InFlight(thread[s][t])
  BY DEF Works, InFlight
<1> QED
  BY <1>1, <1>2, <1>3 DEF AllTracked, Tracked, Somewhere

LEMMA HandleQmTracked ==
  ASSUME TypeOK, WellRouted, AllTracked, NEW t \in Threads, HandleQm(t)
  PROVE  AllTracked'
<1> DEFINE job == thread["qm"][t].job
           result == ProcessResults(job)
<1>1. /\ job \in FileJobShm /\ Fits("qm", job)
      /\ job.job_id \in Jobs /\ fate[job.job_id] = "accepted" /\ fate \in [Jobs -> Fates]
      /\ InFlight(thread["qm"][t])
  BY HandlingIs DEF HandleQm, Services
<1>2. /\ thread' = [thread EXCEPT !["qm"][t] =
                      IF result.to \in Services THEN Sending(result.to, result.job)
                      ELSE IF RemovesFile(job) THEN Removing(job) ELSE Idle]
      /\ fate' = [fate EXCEPT ![job.job_id] = Conclusion(job, @)]
      /\ UNCHANGED <<queue, pool>>
  BY DEF HandleQm
<1>3. "qm" \in Services
  BY DEF Services
<1>4. CASE result.to \in Services
  <2>1. result.job.job_id = job.job_id /\ job.status \notin {"DONE", "FAILED"}
    BY <1>1, <1>4, QmResult
  <2>2. thread' = [thread EXCEPT !["qm"][t] = Sending(result.to, result.job)]
    BY <1>2, <1>4
  <2>3. \A j \in Jobs : Works(Sending(result.to, result.job), j) <=> Works(thread["qm"][t], j)
    BY <1>1, <2>1, SendingInFlight DEF Works
  <2>4. \A j \in Jobs : fate'[j] = "accepted" <=> fate[j] = "accepted"
    BY <1>1, <1>2, <2>1 DEF Conclusion
  <2> DEFINE next == Sending(result.to, result.job)
  <2> HIDE DEF next, result
  <2> QED
    BY <1>2, <1>3, <2>2, <2>3, <2>4, WorkTracked, ZenonT(60)
<1>5. CASE result.to \notin Services
  <2>1. job.status \in {"DONE", "FAILED"}
    BY <1>1, <1>5, QmResult DEF Services
  <2> DEFINE next == IF RemovesFile(job) THEN Removing(job) ELSE Idle
  <2>2. thread' = [thread EXCEPT !["qm"][t] = next] /\ ~InFlight(next)
    BY <1>2, <1>5, IdleNotInFlight, RemovingNotInFlight
  <2>3. \A j \in Jobs : fate'[j] = "accepted" <=> fate[j] = "accepted" /\ j # job.job_id
    BY <1>1, <1>2, <2>1 DEF Conclusion
  <2> HIDE DEF next
  <2> QED
    BY <1>1, <1>2, <1>3, <2>2, <2>3, DoneTracked, ZenonT(60)
<1> QED
  BY <1>4, <1>5

\* The removal of a file comes after the job's outcome and moves no job.
LEMMA RemoveFileTracked ==
  ASSUME TypeOK, AllTracked, NEW t \in Threads, RemoveFile(t)
  PROVE  AllTracked'
<1>1. /\ ~InFlight(thread["qm"][t]) /\ "qm" \in Services
      /\ thread' = [thread EXCEPT !["qm"][t] = Idle]
      /\ UNCHANGED <<queue, pool, fate>>
  BY DEF RemoveFile, InFlight, Services
<1>2. \A j \in Jobs : Works(Idle, j) <=> Works(thread["qm"][t], j)
  BY <1>1, IdleNotInFlight DEF Works
<1> QED
  BY <1>1, <1>2, WorkTracked

LEMMA HandleDetectTracked ==
  ASSUME TypeOK, WellRouted, AllTracked, NEW t \in Threads, HandleDetect(t)
  PROVE  AllTracked'
<1> DEFINE job == thread["detect"][t].job
<1>1. /\ job \in FileJobShm /\ job.job_id \in Jobs /\ fate \in [Jobs -> Fates]
      /\ "detect" \in Services /\ UNCHANGED <<queue, pool>>
      /\ InFlight(thread["detect"][t])
  BY HandlingIs DEF HandleDetect, Services
<1>2. CASE /\ thread' = [thread EXCEPT !["detect"][t] = Idle]
           /\ fate' = [fate EXCEPT ![job.job_id] = "dropped"]
  <2>1. \A j \in Jobs : fate'[j] = "accepted" <=> fate[j] = "accepted" /\ j # job.job_id
    BY <1>1, <1>2
  <2> QED
    BY <1>1, <1>2, <2>1, IdleNotInFlight, DoneTracked
<1>3. ASSUME NEW magic,
             thread' = [thread EXCEPT !["detect"][t] = Sending("qm", DetectReply(job, magic))],
             fate' = fate
      PROVE  AllTracked'
  <2>1. \A j \in Jobs :
          Works(Sending("qm", DetectReply(job, magic)), j) <=> Works(thread["detect"][t], j)
    BY <1>1, DetectResult, SendingInFlight DEF Works
  <2> QED
    BY <1>1, <1>3, <2>1, WorkTracked
<1> QED
  BY <1>2, <1>3 DEF HandleDetect

LEMMA HandleParseTracked ==
  ASSUME TypeOK, WellRouted, AllTracked, NEW t \in Threads, HandleParse(t)
  PROVE  AllTracked'
<1> DEFINE job == thread["parse"][t].job
<1>1. /\ job \in FileJobShm /\ InFlight(thread["parse"][t])
      /\ "parse" \in Services /\ UNCHANGED <<queue, pool, fate>>
      /\ thread' = [thread EXCEPT !["parse"][t] = Sending("qm", ParseReply(job))]
  BY HandlingIs DEF HandleParse, Services
<1>2. \A j \in Jobs : Works(Sending("qm", ParseReply(job)), j) <=> Works(thread["parse"][t], j)
  BY <1>1, ParseResult, SendingInFlight DEF Works
<1> QED
  BY <1>1, <1>2, WorkTracked

----------------------------------------------------------------------------
(* Every job in flight is in exactly one place *)

LEMMA InitTracked == Init => AllTracked
<1> SUFFICES ASSUME Init, NEW j \in Jobs
             PROVE  Tracked(queue, pool, thread, fate[j], j)
  BY DEF AllTracked
<1>1. \A s \in Services : \A i \in Nat : ~Holds(queue[s], i, j) /\ ~Holds(pool[s], i, j)
  BY DEF Init, Holds
<1>2. \A s \in Services : \A t \in Threads : ~Works(thread[s][t], j)
  BY IdleNotInFlight DEF Init, Works
<1>3. fate[j] # "accepted"
  BY DEF Init
<1> QED
  BY <1>1, <1>2, <1>3 DEF Tracked, AtMostOnce, Somewhere

\* A stop job is in nobody's place, and comes and goes without moving a job.
LEMMA SendStopJobTracked ==
  ASSUME TypeOK, AllTracked, NEW d \in Services, SendStopJob(d)
  PROVE  AllTracked'
<1>1. /\ PoisonPill \in IpcMessage
      /\ queue' = [queue EXCEPT ![d] = Append(@, PoisonPill)]
      /\ UNCHANGED <<pool, thread, fate>>
  BY DEF IpcMessage, SendStopJob
<1>2. \A s \in Services : \A i \in Nat : \A j \in Jobs :
        Holds(queue'[s], i, j) <=> Holds(queue[s], i, j)
  BY <1>1, AppendPlaces
<1> SUFFICES ASSUME NEW j \in Jobs
             PROVE  Tracked(queue', pool, thread, fate[j], j)
  BY <1>1 DEF AllTracked
<1>3. Tracked(queue, pool, thread, fate[j], j)
  BY DEF AllTracked
<1>4. AtMostOnce(queue', pool, thread, j)
  BY <1>2, <1>3 DEF Tracked, AtMostOnce
<1>5. Somewhere(queue', pool, thread, j) <=> Somewhere(queue, pool, thread, j)
  BY <1>2 DEF Somewhere
<1> QED
  BY <1>3, <1>4, <1>5 DEF Tracked

LEMMA ReceivePillTracked ==
  ASSUME TypeOK, AllTracked, NEW d \in Services, ReceivePill(d)
  PROVE  AllTracked'
<1>1. /\ queue \in [Services -> Seq(IpcMessage)] /\ queue[d] # <<>>
      /\ queue' = [queue EXCEPT ![d] = Tail(@)] /\ Head(queue[d]) = PoisonPill
      /\ UNCHANGED <<pool, thread, fate>>
  BY DEF TypeOK, ReceivePill
<1> SUFFICES ASSUME NEW j \in Jobs
             PROVE  Tracked(queue', pool, thread, fate[j], j)
  BY <1>1 DEF AllTracked
<1>2. ASSUME NEW s \in Services, NEW i \in Nat
      PROVE  Holds(queue'[s], i, j) <=>
               IF s = d THEN i # 0 /\ Holds(queue[d], i + 1, j) ELSE Holds(queue[s], i, j)
  BY <1>1, TailPlaces, ZenonT(60)
<1>3. ~Holds(queue[d], 1, j) /\ \A i \in Nat : Holds(queue[d], i, j) => i # 0
  <2>1. queue[d] \in Seq(IpcMessage)
    BY <1>1
  <2> QED
    BY <1>1, <2>1, HoldsTail, HoldsBounded
<1>4. Tracked(queue, pool, thread, fate[j], j)
  BY DEF AllTracked
<1>5. AtMostOnce(queue', pool, thread, j)
  <2>1. AtMostOnce(queue, pool, thread, j)
    BY <1>4 DEF Tracked
  <2>2. ASSUME NEW r \in Services, NEW s \in Services, NEW i \in Nat, NEW k \in Nat
        PROVE  /\ Holds(queue'[r], i, j) /\ Holds(queue'[s], k, j) => r = s /\ i = k
               /\ Holds(pool[r], i, j) /\ Holds(pool[s], k, j) => r = s /\ i = k
               /\ ~(Holds(queue'[r], i, j) /\ Holds(pool[s], k, j))
    <3> DEFINE before(r_, i_) == IF r_ = d THEN i_ + 1 ELSE i_
    <3>1. /\ Holds(queue'[r], i, j) => Holds(queue[r], before(r, i), j)
          /\ Holds(queue'[s], k, j) => Holds(queue[s], before(s, k), j)
      BY <1>2
    <3>2. before(r, i) \in Nat /\ before(s, k) \in Nat
      OBVIOUS
    <3>3. Holds(queue'[r], i, j) /\ Holds(queue'[s], k, j) => r = s /\ i = k
      BY <2>1, <3>1, <3>2 DEF AtMostOnce
    <3>4. ~(Holds(queue'[r], i, j) /\ Holds(pool[s], k, j))
      BY <2>1, <3>1, <3>2 DEF AtMostOnce
    <3> QED
      BY <2>1, <3>3, <3>4 DEF AtMostOnce
  <2>3. ASSUME NEW r \in Services, NEW s \in Services, NEW t \in Threads, NEW i \in Nat
        PROVE  ~(Works(thread[r][t], j) /\ (Holds(queue'[s], i, j) \/ Holds(pool[s], i, j)))
    BY <1>2, <2>1 DEF AtMostOnce
  <2>4. \A r, s \in Services : \A t, u \in Threads :
          Works(thread[r][t], j) /\ Works(thread[s][u], j) => r = s /\ t = u
    BY <2>1 DEF AtMostOnce
  <2> QED
    BY <2>2, <2>3, <2>4, AtMostOnceParts
<1>6. Somewhere(queue', pool, thread, j) <=> Somewhere(queue, pool, thread, j)
  <2>1. ASSUME NEW i \in Nat, Holds(queue[d], i, j)
        PROVE  \E k \in Nat : Holds(queue'[d], k, j)
    <3>1. i - 1 \in Nat /\ i - 1 # 0 /\ (i - 1) + 1 = i
      BY <1>3, <2>1
    <3>2. Holds(queue'[d], i - 1, j)
      BY <1>2, <2>1, <3>1
    <3> QED
      BY <3>1, <3>2
  <2>2. ASSUME Somewhere(queue, pool, thread, j)
        PROVE  Somewhere(queue', pool, thread, j)
    BY <1>2, <2>1, <2>2 DEF Somewhere
  <2>3. ASSUME Somewhere(queue', pool, thread, j)
        PROVE  Somewhere(queue, pool, thread, j)
    <3>1. ASSUME NEW s \in Services, NEW i \in Nat, Holds(queue'[s], i, j)
          PROVE  \E k \in Nat : Holds(queue[s], k, j)
      <4>1. i + 1 \in Nat
        OBVIOUS
      <4> QED
        BY <1>2, <3>1, <4>1
    <3> QED
      BY <2>3, <3>1 DEF Somewhere
  <2> QED
    BY <2>2, <2>3
<1> QED
  BY <1>4, <1>5, <1>6 DEF Tracked

LEMMA NextTracked == TypeOK /\ WellRouted /\ AllTracked /\ [Next]_vars => AllTracked'
<1> SUFFICES ASSUME TypeOK, WellRouted, AllTracked, [Next]_vars PROVE AllTracked'
  OBVIOUS
<1>1. ASSUME NEW j \in Jobs, Upload(j) PROVE AllTracked'
  <2>1. \A k \in Jobs : fate'[k] = "accepted" <=> fate[k] = "accepted"
    BY <1>1 DEF Upload, TypeOK
  <2> QED
    BY <1>1, <2>1, StillTracked DEF Upload
<1>2. ASSUME NEW j \in Jobs, Submit(j) PROVE AllTracked'
  BY <1>2, SubmitTracked
<1>3. ASSUME NEW s \in Services, Receive(s) PROVE AllTracked'
  BY <1>3, ReceiveTracked
<1>4. ASSUME NEW s \in Services, ReceivePill(s) PROVE AllTracked'
  BY <1>4, ReceivePillTracked
<1>5. ASSUME NEW s \in Services, Exit(s) PROVE AllTracked'
  BY <1>5, StillTracked DEF Exit
<1>6. ASSUME NEW s \in Services, NEW t \in Threads, Begin(s, t) PROVE AllTracked'
  BY <1>6, BeginTracked
<1>7. ASSUME NEW t \in Threads, HandleQm(t) PROVE AllTracked'
  BY <1>7, HandleQmTracked
<1>8. ASSUME NEW t \in Threads, HandleDetect(t) PROVE AllTracked'
  BY <1>8, HandleDetectTracked
<1>9. ASSUME NEW t \in Threads, HandleParse(t) PROVE AllTracked'
  BY <1>9, HandleParseTracked
<1>10. ASSUME NEW s \in Services, NEW t \in Threads, Send(s, t) PROVE AllTracked'
  BY <1>10, SendTracked
<1>11. ASSUME NEW w \in Workers, Crash(w) PROVE AllTracked'
  BY <1>11, DieTracked DEF Crash
<1>12. ASSUME NEW s \in Services, RaceCrash(s) PROVE AllTracked'
  BY <1>12, DieTracked DEF RaceCrash, Workers
<1>13. ASSUME NEW w \in Workers, Start(w) PROVE AllTracked'
  BY <1>13, StillTracked DEF Start
<1>14. ASSUME NEW s \in Services, SendStopJob(s) PROVE AllTracked'
  BY <1>14, SendStopJobTracked
<1>15. ASSUME NEW t \in Threads, RemoveFile(t) PROVE AllTracked'
  BY <1>15, RemoveFileTracked
<1>16. CASE UNCHANGED vars
  BY <1>16, StillTracked DEF vars
<1> QED
  BY <1>1, <1>2, <1>3, <1>4, <1>5, <1>6, <1>7, <1>8, <1>9, <1>10, <1>11, <1>12,
     <1>13, <1>14, <1>15, <1>16 DEF Next, Handle, Quiescent

\* The record of a job is in exactly one place while it is in flight, and what
\* its place and its status are agree with what became of it: the pool, the
\* queues and the handlers hand one record on (service.cpp:48-68, 27).
THEOREM TrackedAlways == Spec => [](TypeOK /\ WellRouted /\ AllTracked)
<1>1. Init => TypeOK /\ WellRouted /\ AllTracked
  BY InitType, InitRouted, InitTracked
<1>2. TypeOK /\ WellRouted /\ AllTracked /\ [Next]_vars => (TypeOK /\ WellRouted /\ AllTracked)'
  BY NextType, NextRouted, NextTracked
<1> QED
  BY <1>1, <1>2, PTL DEF Spec

\* No interleaving of receive loops, pool threads, crashes and stop jobs ever
\* forks a job: no two handlers work on the same file (service.cpp:48-68).
THEOREM SingleCopyAlways == Spec => []SingleCopy
<1>1. TypeOK /\ AllTracked => SingleCopy
  BY TrackedIs
<1> QED
  BY <1>1, TrackedAlways, PTL

\* Every job that qm was handed and that has no outcome is in a queue, a pool
\* or a thread: joining the pool before leaving loses none (service.cpp:67).
THEOREM NothingVanishesAlways == Spec => []NothingVanishes
<1>1. TypeOK /\ AllTracked => NothingVanishes
  BY TrackedIs
<1> QED
  BY <1>1, TrackedAlways, PTL

----------------------------------------------------------------------------
(* The spool agrees with the outcomes *)

\* Beside the property: no two threads of qm remove the file of one job.
OneRemover == \A j \in Jobs : \A t, u \in Threads : Removes(t, j) /\ Removes(u, j) => t = u

Spooled == SpoolMatchesFate /\ OneRemover

LEMMA IdleAt == Idle.at # "removing"
BY DEF Idle

LEMMA RemovingAt ==
  ASSUME NEW job
  PROVE  Removing(job).at = "removing" /\ Removing(job).job = job
BY DEF Removing

LEMMA SendingAt == ASSUME NEW to, NEW job PROVE Sending(to, job).at # "removing"
BY DEF Sending

\* A thread that neither was removing a file nor begins to changes no removal.
LEMMA SameRemovals ==
  ASSUME TypeOK, NEW s \in Services, NEW v \in Threads, NEW next,
         thread' = [thread EXCEPT ![s][v] = next],
         thread[s][v].at # "removing", next.at # "removing"
  PROVE  \A t \in Threads, j \in Jobs : Removes(t, j)' <=> Removes(t, j)
<1> SUFFICES ASSUME NEW t \in Threads PROVE \A j \in Jobs : Removes(t, j)' <=> Removes(t, j)
  OBVIOUS
<1>1. "qm" \in Services
  BY DEF Services
<1>2. thread'["qm"][t] = IF s = "qm" /\ t = v THEN next ELSE thread["qm"][t]
  BY <1>1 DEF TypeOK
<1> QED
  BY <1>2 DEF Removes

\* A step that touches neither a file, nor a removal, nor the end of a job
\* keeps them agreed.
LEMMA StillSpooled ==
  ASSUME Spooled, UNCHANGED file,
         \A t \in Threads, j \in Jobs : Removes(t, j)' <=> Removes(t, j),
         \A j \in Jobs : /\ fate'[j] = "absent" <=> fate[j] = "absent"
                         /\ fate'[j] = "done" <=> fate[j] = "done"
  PROVE  Spooled'
BY DEF Spooled, SpoolMatchesFate, OneRemover

\* What a dying process holds was neither concluded nor absent, and the files
\* qm was about to remove are those of concluded jobs.
LEMMA DieSpooled ==
  ASSUME TypeOK, AllTracked, Spooled, NEW w \in Workers, Die(w)
  PROVE  Spooled'
<1>1. ASSUME NEW j \in Jobs, j \in HeldBy(w)
      PROVE  fate[j] \in {"moved", "accepted"}
  <2>1. CASE w = "ingestd"
    BY <1>1, <2>1 DEF HeldBy
  <2>2. CASE w \in Services
    <3>1. Somewhere(queue, pool, thread, j)
      BY <1>1, <2>2, HeldByIs DEF Somewhere
    <3> QED
      BY <3>1 DEF AllTracked, Tracked
  <2> QED
    BY <2>1, <2>2 DEF Workers
<1>2. \A j \in Jobs : fate'[j] = IF j \in HeldBy(w) THEN "lost" ELSE fate[j]
  BY DEF Die
<1>3. \A j \in Jobs : /\ fate'[j] = "absent" <=> fate[j] = "absent"
                      /\ fate'[j] = "done" <=> fate[j] = "done"
  BY <1>1, <1>2
<1>4. \A j \in Jobs : file'[j] = IF j \in RemovedBy(w) THEN "kept" ELSE file[j]
  BY DEF Die
<1>5. CASE w = "qm"
  <2>1. \A t \in Threads : thread'["qm"][t] = Idle
    BY <1>5 DEF Die, TypeOK, Services
  <2>2. \A t \in Threads, j \in Jobs : ~Removes(t, j)'
    BY <2>1, IdleAt DEF Removes
  <2>3. \A j \in Jobs : j \in RemovedBy(w) <=> \E t \in Threads : Removes(t, j)
    BY <1>5 DEF RemovedBy
  <2>4. SpoolMatchesFate'
    <3> SUFFICES ASSUME NEW j \in Jobs
                 PROVE  /\ file'[j] = "none" <=> fate'[j] = "absent"
                        /\ file'[j] \in {"removed", "kept"} => fate'[j] = "done"
                        /\ fate'[j] = "done" => file'[j] # "new"
      BY <2>2 DEF SpoolMatchesFate
    <3>1. CASE j \in RemovedBy(w)
      <4>1. fate[j] = "done" /\ file'[j] = "kept"
        BY <1>4, <2>3, <3>1 DEF Spooled, SpoolMatchesFate
      <4> QED
        BY <1>3, <4>1
    <3>2. CASE j \notin RemovedBy(w)
      <4>1. file'[j] = file[j] /\ ~\E t \in Threads : Removes(t, j)
        BY <1>4, <2>3, <3>2
      <4> QED
        BY <1>3, <4>1 DEF Spooled, SpoolMatchesFate
    <3> QED
      BY <3>1, <3>2
  <2> QED
    BY <2>2, <2>4 DEF Spooled, OneRemover
<1>6. CASE w # "qm"
  <2>1. UNCHANGED file
    <3>1. RemovedBy(w) = {}
      BY <1>6 DEF RemovedBy
    <3> QED
      BY <3>1 DEF Die, TypeOK
  <2>2. thread'["qm"] = thread["qm"]
    BY <1>6 DEF Die, TypeOK, Services, Workers
  <2> QED
    BY <1>3, <2>1, <2>2, StillSpooled DEF Removes
<1> QED
  BY <1>5, <1>6

LEMMA InitSpooled == Init => Spooled
<1> SUFFICES ASSUME Init PROVE Spooled
  OBVIOUS
<1>1. \A t \in Threads, j \in Jobs : ~Removes(t, j)
  BY IdleAt DEF Init, Removes, Services
<1> QED
  BY <1>1 DEF Init, Spooled, SpoolMatchesFate, OneRemover

\* A DONE job was accepted, so nobody was removing its file yet.
LEMMA HandleQmSpooled ==
  ASSUME TypeOK, WellRouted, AllTracked, Spooled, NEW t \in Threads, HandleQm(t)
  PROVE  Spooled'
<1> DEFINE job == thread["qm"][t].job
           j == job.job_id
           result == ProcessResults(job)
<1>1. /\ j \in Jobs /\ fate[j] = "accepted" /\ fate \in [Jobs -> Fates]
      /\ job \in FileJobShm /\ Fits("qm", job) /\ "qm" \in Services
      /\ thread["qm"][t].at = "handling" /\ UNCHANGED file
  BY HandlingIs DEF HandleQm, Services
<1>2. \A u \in Threads : ~Removes(u, j)
  BY <1>1 DEF Spooled, SpoolMatchesFate
<1>3. fate' = [fate EXCEPT ![j] = Conclusion(job, @)]
  BY DEF HandleQm
<1>4. CASE job.status = "DONE"
  <2>1. result.to \notin Services
    BY <1>1, <1>4, QmResult
  <2>2. thread' = [thread EXCEPT !["qm"][t] = Removing(job)]
    BY <1>4, <2>1 DEF HandleQm, RemovesFile
  <2>3. \A u \in Threads, i \in Jobs : Removes(u, i)' <=> Removes(u, i) \/ (u = t /\ i = j)
    <3> SUFFICES ASSUME NEW u \in Threads, NEW i \in Jobs
                 PROVE  Removes(u, i)' <=> Removes(u, i) \/ (u = t /\ i = j)
      OBVIOUS
    <3>1. CASE u = t
      <4>1. thread'["qm"][u] = Removing(job) /\ thread["qm"][u].at # "removing"
        BY <1>1, <2>2, <3>1 DEF TypeOK
      <4> QED
        BY <3>1, <4>1, RemovingAt DEF Removes
    <3>2. CASE u # t
      <4>1. thread'["qm"][u] = thread["qm"][u]
        BY <1>1, <2>2, <3>2 DEF TypeOK
      <4> QED
        BY <3>2, <4>1 DEF Removes
    <3> QED
      BY <3>1, <3>2
  <2>4. fate'[j] = "done" /\ \A i \in Jobs : i # j => fate'[i] = fate[i]
    BY <1>1, <1>3, <1>4 DEF Conclusion
  <2>5. file[j] = "new" /\ file' = file
    BY <1>1 DEF Spooled, SpoolMatchesFate, TypeOK
  <2> HIDE DEF j, job
  <2>6. OneRemover'
    BY <1>2, <2>3 DEF Spooled, OneRemover
  <2>7. SpoolMatchesFate'
    <3> SUFFICES ASSUME NEW i \in Jobs
                 PROVE  /\ file'[i] = "none" <=> fate'[i] = "absent"
                        /\ file'[i] \in {"removed", "kept"} => fate'[i] = "done"
                        /\ fate'[i] = "done" /\ file'[i] = "new" => \E u \in Threads : Removes(u, i)'
                        /\ \A u \in Threads : Removes(u, i)' => fate'[i] = "done" /\ file'[i] = "new"
      BY DEF SpoolMatchesFate
    <3>1. CASE i = j
      BY <2>3, <2>4, <2>5, <3>1
    <3>2. CASE i # j
      BY <2>3, <2>4, <2>5, <3>2 DEF Spooled, SpoolMatchesFate
    <3> QED
      BY <3>1, <3>2
  <2> QED
    BY <2>6, <2>7 DEF Spooled
<1>5. CASE job.status # "DONE"
  <2> DEFINE next == IF result.to \in Services THEN Sending(result.to, result.job) ELSE Idle
  <2>1. thread' = [thread EXCEPT !["qm"][t] = next]
    BY <1>5 DEF HandleQm, RemovesFile
  <2>2. next.at # "removing"
    BY IdleAt, SendingAt
  <2>3. \A u \in Threads, i \in Jobs : Removes(u, i)' <=> Removes(u, i)
    <3> HIDE DEF next
    <3> QED
      BY <1>1, <2>1, <2>2, SameRemovals
  <2>4. fate'[j] \in {"accepted", "failed"} /\ \A i \in Jobs : i # j => fate'[i] = fate[i]
    BY <1>1, <1>3, <1>5 DEF Conclusion
  <2> QED
    BY <1>1, <2>3, <2>4, StillSpooled
<1> QED
  BY <1>4, <1>5

LEMMA RemoveFileSpooled ==
  ASSUME TypeOK, Spooled, NEW t \in Threads, RemoveFile(t)
  PROVE  Spooled'
<1> DEFINE k == thread["qm"][t].job.job_id
<1>1. PICK outcome \in {"removed", "kept"} : file' = [file EXCEPT ![k] = outcome]
  BY DEF RemoveFile
<1>2. /\ thread' = [thread EXCEPT !["qm"][t] = Idle] /\ UNCHANGED fate
      /\ thread["qm"][t].at = "removing" /\ "qm" \in Services
  BY DEF RemoveFile, Services
<1>3. \A u \in Threads, i \in Jobs : Removes(u, i)' <=> Removes(u, i) /\ u # t
  <2> SUFFICES ASSUME NEW u \in Threads, NEW i \in Jobs
               PROVE  Removes(u, i)' <=> Removes(u, i) /\ u # t
    OBVIOUS
  <2>1. thread'["qm"][u] = IF u = t THEN Idle ELSE thread["qm"][u]
    BY <1>2 DEF TypeOK
  <2> QED
    BY <2>1, IdleAt DEF Removes
<1>4. \A i \in Jobs : Removes(t, i) <=> i = k
  BY <1>2 DEF Removes
<1>5. OneRemover'
  BY <1>3 DEF Spooled, OneRemover
<1>6. SpoolMatchesFate'
  <2> HIDE DEF k
  <2> SUFFICES ASSUME NEW i \in Jobs
               PROVE  /\ file'[i] = "none" <=> fate'[i] = "absent"
                      /\ file'[i] \in {"removed", "kept"} => fate'[i] = "done"
                      /\ fate'[i] = "done" /\ file'[i] = "new" => \E u \in Threads : Removes(u, i)'
                      /\ \A u \in Threads : Removes(u, i)' => fate'[i] = "done" /\ file'[i] = "new"
    BY DEF SpoolMatchesFate
  <2>1. CASE i = k
    <3>1. Removes(t, i) /\ fate[i] = "done" /\ file'[i] = outcome /\ fate'[i] = "done"
      BY <1>1, <1>2, <1>4, <2>1 DEF Spooled, SpoolMatchesFate, TypeOK
    <3>2. \A u \in Threads : ~Removes(u, i)'
      BY <1>3, <3>1 DEF Spooled, OneRemover
    <3> QED
      BY <3>1, <3>2
  <2>2. CASE i # k
    <3>1. file'[i] = file[i] /\ fate'[i] = fate[i] /\ ~Removes(t, i)
      BY <1>1, <1>2, <1>4, <2>2 DEF TypeOK
    <3> QED
      BY <1>3, <3>1 DEF Spooled, SpoolMatchesFate
  <2> QED
    BY <2>1, <2>2
<1> QED
  BY <1>5, <1>6 DEF Spooled

LEMMA NextSpooled ==
  TypeOK /\ WellRouted /\ AllTracked /\ Spooled /\ [Next]_vars => Spooled'
<1> SUFFICES ASSUME TypeOK, WellRouted, AllTracked, Spooled, [Next]_vars
             PROVE  Spooled'
  OBVIOUS
<1>a. UNCHANGED thread => \A t \in Threads, j \in Jobs : Removes(t, j)' <=> Removes(t, j)
  BY DEF Removes
<1>1. ASSUME NEW j \in Jobs, Upload(j) PROVE Spooled'
  <2>1. \A t \in Threads, i \in Jobs : Removes(t, i)' <=> Removes(t, i)
    BY <1>1, <1>a DEF Upload
  <2>2. OneRemover'
    BY <2>1 DEF Spooled, OneRemover
  <2>3. SpoolMatchesFate'
    BY <1>1, <2>1 DEF Upload, TypeOK, Spooled, SpoolMatchesFate
  <2> QED
    BY <2>2, <2>3 DEF Spooled
<1>2. ASSUME NEW j \in Jobs, Submit(j) PROVE Spooled'
  <2>1. \A i \in Jobs : /\ fate'[i] = "absent" <=> fate[i] = "absent"
                        /\ fate'[i] = "done" <=> fate[i] = "done"
    BY <1>2 DEF Submit, TypeOK
  <2> QED
    BY <1>2, <1>a, <2>1, StillSpooled DEF Submit
<1>3. ASSUME NEW s \in Services, \/ Receive(s) \/ ReceivePill(s) \/ Exit(s) \/ SendStopJob(s)
      PROVE  Spooled'
  BY <1>3, <1>a, StillSpooled DEF Receive, ReceivePill, Exit, SendStopJob
<1>4. ASSUME NEW s \in Services, NEW t \in Threads, Begin(s, t) \/ Send(s, t)
      PROVE  Spooled'
  <2>1. PICK next : /\ thread' = [thread EXCEPT ![s][t] = next]
                    /\ thread[s][t].at # "removing" /\ next.at # "removing"
    <3> DEFINE begun == [at |-> "handling", to |-> "", job |-> Head(pool[s])]
    <3>1. CASE Begin(s, t)
      <4>1. begun.at # "removing" /\ thread[s][t].at # "removing"
        BY <3>1, IdleAt DEF Begin
      <4>2. thread' = [thread EXCEPT ![s][t] = begun]
        BY <3>1 DEF Begin
      <4> HIDE DEF begun
      <4> QED
        BY <4>1, <4>2
    <3>2. CASE Send(s, t)
      BY <3>2, IdleAt DEF Send
    <3> QED
      BY <1>4, <3>1, <3>2
  <2>2. \A u \in Threads, j \in Jobs : Removes(u, j)' <=> Removes(u, j)
    BY <2>1, SameRemovals
  <2> QED
    BY <1>4, <2>2, StillSpooled DEF Begin, Send
<1>5. ASSUME NEW t \in Threads, HandleQm(t) PROVE Spooled'
  BY <1>5, HandleQmSpooled
<1>6. ASSUME NEW t \in Threads, RemoveFile(t) PROVE Spooled'
  BY <1>6, RemoveFileSpooled
<1>7. ASSUME NEW t \in Threads, HandleDetect(t) PROVE Spooled'
  <2> DEFINE job == thread["detect"][t].job
  <2>1. /\ job.job_id \in Jobs /\ fate[job.job_id] = "accepted" /\ fate \in [Jobs -> Fates]
    BY <1>7, HandlingIs DEF HandleDetect, Services
  <2>2. fate' = [fate EXCEPT ![job.job_id] = "dropped"] \/ fate' = fate
    BY <1>7 DEF HandleDetect
  <2>3. file' = file
    BY <1>7 DEF HandleDetect
  <2>4. thread'["qm"] = thread["qm"]
    BY <1>7 DEF HandleDetect, TypeOK, Services
  <2>5. \A u \in Threads, j \in Jobs : Removes(u, j)' <=> Removes(u, j)
    BY <2>4 DEF Removes
  <2> HIDE DEF job
  <2> QED
    BY <2>1, <2>2, <2>3, <2>5, StillSpooled
<1>8. ASSUME NEW t \in Threads, HandleParse(t) PROVE Spooled'
  <2>1. thread'["qm"] = thread["qm"]
    BY <1>8 DEF HandleParse, TypeOK, Services
  <2> QED
    BY <1>8, <2>1, StillSpooled DEF HandleParse, Removes
<1>9. ASSUME NEW w \in Workers, Crash(w) PROVE Spooled'
  BY <1>9, DieSpooled DEF Crash
<1>10. ASSUME NEW s \in Services, RaceCrash(s) PROVE Spooled'
  BY <1>10, DieSpooled DEF RaceCrash, Workers
<1>11. ASSUME NEW w \in Workers, Start(w) PROVE Spooled'
  BY <1>11, <1>a, StillSpooled DEF Start
<1>12. CASE UNCHANGED vars
  BY <1>12, <1>a, StillSpooled DEF vars
<1> QED
  BY <1>1, <1>2, <1>3, <1>4, <1>5, <1>6, <1>7, <1>8, <1>9, <1>10, <1>11, <1>12
     DEF Next, Handle, Quiescent

\* Whatever crashes and stops do: remove_file is called for no job but one
\* that qm has logged DONE, and a DONE job's file is in "new" only while a
\* thread of qm is about to remove it, or as what a failed or cut off removal
\* has left (qm.cpp:54-57).
THEOREM SpoolMatchesFateAlways == Spec => []SpoolMatchesFate
<1>1. Init => Spooled
  BY InitSpooled
<1>2. TypeOK /\ WellRouted /\ AllTracked /\ Spooled /\ [Next]_vars => Spooled'
  BY NextSpooled
<1>3. Spooled => SpoolMatchesFate
  BY DEF Spooled
<1> QED
  BY <1>1, <1>2, <1>3, TrackedAlways, PTL DEF Spec
=============================================================================
