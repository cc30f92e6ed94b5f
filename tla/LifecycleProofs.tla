--------------------------- MODULE LifecycleProofs ---------------------------
(***************************************************************************)
(* Pipeline implements JobLifecycle: whatever the processes do, each job   *)
(* moves only along the transitions of the state machine.                  *)
(***************************************************************************)
EXTENDS PipelineProofs

----------------------------------------------------------------------------
(* The stage of a job is the status of the one record that carries it *)

Has(q, m) == \E i \in DOMAIN q : q[i] = m

InPlay(q, p, th, m) ==
  \E s \in Services :
    \/ Has(q[s], m)
    \/ Has(p[s], m)
    \/ \E t \in Threads : InFlight(th[s][t]) /\ th[s][t].job = m

Stages == [j \in Jobs |-> StageOf(j)]

StagesRead ==
  \A j \in Jobs :
    /\ fate[j] # "accepted" => Stages[j] = fate[j]
    /\ fate[j] = "accepted" =>
         \E m \in FileJobShm : /\ m.job_id = j /\ m.status = Stages[j]
                               /\ InPlay(queue, pool, thread, m)
    /\ \A m \in FileJobShm :
         m.job_id = j /\ InPlay(queue, pool, thread, m) =>
           fate[j] = "accepted" /\ Stages[j] = m.status

LEMMA HasAppend ==
  ASSUME NEW q \in Seq(IpcMessage), NEW e \in IpcMessage, NEW m
  PROVE  Has(q, m) \/ m = e => Has(Append(q, e), m)
<1>1. /\ DOMAIN q = 1 .. Len(q) /\ Len(q) \in Nat
      /\ DOMAIN Append(q, e) = 1 .. (Len(q) + 1)
      /\ \A i \in 1 .. Len(q) : Append(q, e)[i] = q[i]
      /\ Append(q, e)[Len(q) + 1] = e
  OBVIOUS
<1>2. Len(q) + 1 \in 1 .. (Len(q) + 1) /\ 1 .. Len(q) \subseteq 1 .. (Len(q) + 1)
  BY <1>1
<1> QED
  BY <1>1, <1>2 DEF Has

LEMMA HasTail ==
  ASSUME NEW q \in Seq(IpcMessage), q # <<>>, NEW m
  PROVE  Has(q, m) => Has(Tail(q), m) \/ m = Head(q)
<1>1. /\ DOMAIN q = 1 .. Len(q) /\ Len(q) \in Nat /\ Len(q) >= 1 /\ Head(q) = q[1]
      /\ DOMAIN Tail(q) = 1 .. (Len(q) - 1)
      /\ \A i \in 1 .. (Len(q) - 1) : Tail(q)[i] = q[i + 1]
  OBVIOUS
<1>2. ASSUME NEW i \in 1 .. Len(q), i # 1
      PROVE  i - 1 \in 1 .. (Len(q) - 1) /\ (i - 1) + 1 = i
  BY <1>1, <1>2
<1> QED
  <2>1. ASSUME NEW i \in DOMAIN q, q[i] = m, i # 1 PROVE Has(Tail(q), m)
    <3>1. i - 1 \in DOMAIN Tail(q) /\ Tail(q)[i - 1] = q[(i - 1) + 1]
      BY <1>1, <1>2, <2>1
    <3>2. Tail(q)[i - 1] = m
      BY <1>1, <1>2, <2>1, <3>1
    <3> QED
      BY <3>1, <3>2 DEF Has
  <2> QED
    BY <1>1, <2>1 DEF Has

\* What is in play of a job is one of its copies.
LEMMA InPlayCopy ==
  ASSUME TypeOK, NEW j \in Jobs, NEW m \in FileJobShm, m.job_id = j,
         InPlay(queue, pool, thread, m)
  PROVE  \E p \in Copies(j) : At(p) = m
<1>1. m # PoisonPill
  BY FileJobAssumption
<1>2. \A s \in Services : DOMAIN queue[s] \subseteq Nat /\ DOMAIN pool[s] \subseteq Nat
  BY DEF TypeOK
<1>3. ASSUME NEW s \in Services, NEW i \in DOMAIN queue[s], queue[s][i] = m
      PROVE  <<"queue", s, i>> \in Copies(j) /\ At(<<"queue", s, i>>) = m
  BY <1>1, <1>2, <1>3, CopiesAre, AtIs DEF Holds
<1>4. ASSUME NEW s \in Services, NEW i \in DOMAIN pool[s], pool[s][i] = m
      PROVE  <<"pool", s, i>> \in Copies(j) /\ At(<<"pool", s, i>>) = m
  BY <1>1, <1>2, <1>4, CopiesAre, AtIs DEF Holds
<1>5. ASSUME NEW s \in Services, NEW t \in Threads, InFlight(thread[s][t]), thread[s][t].job = m
      PROVE  <<"thread", s, t>> \in Copies(j) /\ At(<<"thread", s, t>>) = m
  BY <1>5, CopiesAre, AtIs DEF Works
<1> QED
  BY <1>3, <1>4, <1>5 DEF InPlay, Has

\* And a copy of it is in play.
LEMMA CopyInPlay ==
  ASSUME TypeOK, NEW j \in Jobs, NEW p \in Copies(j)
  PROVE  /\ At(p) \in FileJobShm /\ At(p).job_id = j
         /\ InPlay(queue, pool, thread, At(p))
<1>1. ASSUME NEW s \in Services, NEW i \in Nat, p = <<"queue", s, i>>, Holds(queue[s], i, j)
      PROVE  At(p) \in FileJobShm /\ At(p).job_id = j /\ Has(queue[s], At(p))
  <2>1. At(p) = queue[s][i]
    BY <1>1, AtIs
  <2>2. queue[s] \in Seq(IpcMessage)
    BY DEF TypeOK
  <2>3. queue[s][i] \in IpcMessage
    BY <1>1, <2>2 DEF Holds
  <2> QED
    BY <1>1, <2>1, <2>3 DEF Holds, Has, IpcMessage
<1>2. ASSUME NEW s \in Services, NEW i \in Nat, p = <<"pool", s, i>>, Holds(pool[s], i, j)
      PROVE  At(p) \in FileJobShm /\ At(p).job_id = j /\ Has(pool[s], At(p))
  <2>1. At(p) = pool[s][i]
    BY <1>2, AtIs
  <2>2. pool[s] \in Seq(FileJobShm)
    BY DEF TypeOK
  <2>3. pool[s][i] \in FileJobShm
    BY <1>2, <2>2 DEF Holds
  <2> QED
    BY <1>2, <2>1, <2>3 DEF Holds, Has
<1>3. ASSUME NEW s \in Services, NEW t \in Threads, p = <<"thread", s, t>>, Works(thread[s][t], j)
      PROVE  /\ At(p) \in FileJobShm /\ At(p).job_id = j
             /\ InFlight(thread[s][t]) /\ thread[s][t].job = At(p)
  <2>1. At(p) = thread[s][t].job
    BY <1>3, AtIs
  <2> QED
    BY <1>3, <2>1 DEF Works, TypeOK, ThreadState
<1> QED
  BY <1>1, <1>2, <1>3, CopiesAre DEF InPlay

LEMMA StagesAre == TypeOK /\ AllTracked => StagesRead
<1> SUFFICES ASSUME TypeOK, AllTracked, NEW j \in Jobs
             PROVE
               /\ fate[j] # "accepted" => Stages[j] = fate[j]
               /\ fate[j] = "accepted" =>
                    \E m \in FileJobShm : /\ m.job_id = j /\ m.status = Stages[j]
                                          /\ InPlay(queue, pool, thread, m)
               /\ \A m \in FileJobShm :
                    m.job_id = j /\ InPlay(queue, pool, thread, m) =>
                      fate[j] = "accepted" /\ Stages[j] = m.status
  BY DEF StagesRead
<1>1. /\ fate[j] = "accepted" <=> Copies(j) # {}
      /\ \A p, q \in Copies(j) : p = q
  BY TrackedIs DEF SingleCopy, NothingVanishes
<1> DEFINE c == CHOOSE p \in Copies(j) : TRUE
<1>2. Stages[j] = IF fate[j] = "accepted" THEN At(c).status ELSE fate[j]
  BY DEF Stages, StageOf
<1>3. Copies(j) # {} => c \in Copies(j)
  OBVIOUS
<1> HIDE DEF c
<1>4. ASSUME fate[j] = "accepted"
      PROVE  At(c) \in FileJobShm /\ At(c).job_id = j /\ At(c).status = Stages[j]
             /\ InPlay(queue, pool, thread, At(c))
  BY <1>1, <1>2, <1>3, <1>4, CopyInPlay
<1>5. ASSUME NEW m \in FileJobShm, m.job_id = j, InPlay(queue, pool, thread, m)
      PROVE  fate[j] = "accepted" /\ Stages[j] = m.status
  <2>1. PICK p \in Copies(j) : At(p) = m
    BY <1>5, InPlayCopy
  <2>2. p = c
    BY <1>1, <1>3, <2>1
  <2> QED
    BY <1>1, <1>2, <2>1, <2>2
<1> QED
  BY <1>2, <1>4, <1>5

----------------------------------------------------------------------------
(* Steps of the abstract life, in terms of Stages *)

Moves(j, from, to) == Stages[j] = from /\ Stages' = [Stages EXCEPT ![j] = to]

LEMMA ArriveStep ==
  ASSUME NEW j \in Jobs, Moves(j, "absent", "moved") \/ Moves(j, "moved", "NEW")
  PROVE  Lifecycle!Next
BY DEF Moves, Stages, Lifecycle!Next, Lifecycle!Arrive, Lifecycle!Step

LEMMA ConcludeStep ==
  ASSUME NEW j \in Jobs,
         Moves(j, "FAILED", "failed") \/ Moves(j, "DONE", "done") \/ Moves(j, "DETECTING", "dropped")
  PROVE  Lifecycle!Next
BY DEF Moves, Stages, Lifecycle!Next, Lifecycle!Conclude, Lifecycle!Step

\* What each event does to the status, in the table of the state machine.
LEMMA TransitionStatus ==
  ASSUME NEW status \in Status, NEW event \in Event
  PROVE  Lifecycle!Transition([Lifecycle!DefaultJob EXCEPT !.status = status], event).status =
           CASE event = "SUBMIT"         -> "DETECTING"
             [] event = "DETECTION_OK"   -> "PARSING"
             [] event = "DETECTION_FAIL" -> "FAILED"
             [] event = "PARSE_OK"       -> "DONE"
             [] event = "PARSE_FAIL"     -> "FAILED"
BY DEF Lifecycle!Transition, Lifecycle!DefaultJob, Event

LEMMA FireStep ==
  ASSUME NEW j \in Jobs,
         \/ Moves(j, "NEW", "DETECTING") \/ Moves(j, "DETECTING", "PARSING")
         \/ Moves(j, "DETECTING", "FAILED")
         \/ Moves(j, "PARSING", "DONE") \/ Moves(j, "PARSING", "FAILED")
  PROVE  Lifecycle!Next
<1>1. \E event \in Event :
        /\ <<Stages[j], event>> \in Lifecycle!Transitions
        /\ Stages' = [Stages EXCEPT ![j] =
             Lifecycle!Transition([Lifecycle!DefaultJob EXCEPT !.status = Stages[j]], event).status]
  BY TransitionStatus DEF Moves, Lifecycle!Transitions, Event, Status
<1> QED
  BY <1>1 DEF Stages, Lifecycle!Next, Lifecycle!Fire, Lifecycle!Event, Event

LEMMA LoseStep ==
  ASSUME NEW S \in SUBSET Jobs, \A j \in S : Stages[j] \in {"moved"} \union Status,
         Stages' = [j \in Jobs |-> IF j \in S THEN "lost" ELSE Stages[j]]
  PROVE  Lifecycle!Next
BY DEF Stages, Lifecycle!Next, Lifecycle!Lose, Lifecycle!Status, Status

----------------------------------------------------------------------------
(* What a step of the pipeline does to the stages *)

\* A job whose fate stays and that stays in play keeps its stage.
LEMMA StageKept ==
  ASSUME StagesRead, StagesRead', NEW j \in Jobs, fate'[j] = fate[j],
         \A m \in FileJobShm :
           m.job_id = j /\ InPlay(queue, pool, thread, m) => InPlay(queue', pool', thread', m)
  PROVE  Stages'[j] = Stages[j]
<1>1. CASE fate[j] = "accepted"
  <2>1. PICK m \in FileJobShm : /\ m.job_id = j /\ m.status = Stages[j]
                                /\ InPlay(queue, pool, thread, m)
    BY <1>1 DEF StagesRead
  <2>2. InPlay(queue', pool', thread', m)
    BY <2>1
  <2> QED
    BY <2>1, <2>2 DEF StagesRead
<1>2. CASE fate[j] # "accepted"
  BY <1>2 DEF StagesRead
<1> QED
  BY <1>1, <1>2

LEMMA AllKept ==
  ASSUME StagesRead, StagesRead', UNCHANGED fate,
         \A m \in FileJobShm :
           InPlay(queue, pool, thread, m) => InPlay(queue', pool', thread', m)
  PROVE  UNCHANGED Stages
<1>1. \A j \in Jobs : Stages'[j] = Stages[j]
  BY StageKept
<1> QED
  BY <1>1 DEF Stages

\* One job gets another stage, the others keep theirs.
LEMMA OneMoves ==
  ASSUME NEW j \in Jobs, NEW from, NEW to, Stages[j] = from, Stages'[j] = to,
         \A k \in Jobs \ {j} : Stages'[k] = Stages[k]
  PROVE  Moves(j, from, to)
BY DEF Moves, Stages

\* Appending a message to a queue takes nothing out of play.
LEMMA AppendPlays ==
  ASSUME TypeOK, NEW to \in Services, NEW e \in IpcMessage,
         queue' = [queue EXCEPT ![to] = Append(@, e)], UNCHANGED <<pool, thread>>
  PROVE  /\ \A m : InPlay(queue, pool, thread, m) => InPlay(queue', pool', thread', m)
         /\ InPlay(queue', pool', thread', e)
<1>1. queue \in [Services -> Seq(IpcMessage)]
  BY DEF TypeOK
<1>2. ASSUME NEW s \in Services, NEW m, Has(queue[s], m)
      PROVE  Has(queue'[s], m)
  BY <1>1, <1>2, HasAppend
<1>3. Has(queue'[to], e)
  BY <1>1, HasAppend
<1> QED
  BY <1>2, <1>3 DEF InPlay

LEMMA ReceivePlays ==
  ASSUME TypeOK, NEW d \in Services, Receive(d), NEW m, InPlay(queue, pool, thread, m)
  PROVE  InPlay(queue', pool', thread', m)
<1>1. /\ queue \in [Services -> Seq(IpcMessage)] /\ queue[d] # <<>>
      /\ pool \in [Services -> Seq(IpcMessage)]
      /\ queue' = [queue EXCEPT ![d] = Tail(@)]
      /\ pool' = [pool EXCEPT ![d] = Append(@, Head(queue[d]))]
      /\ UNCHANGED thread
  BY PoolIsQueue DEF TypeOK, Receive
<1>2. Head(queue[d]) \in IpcMessage
  BY <1>1, TailAt
<1>3. ASSUME NEW s \in Services, Has(queue[s], m)
      PROVE  Has(queue'[s], m) \/ Has(pool'[d], m)
  <2>1. CASE s = d
    BY <1>1, <1>2, <1>3, <2>1, HasTail, HasAppend
  <2>2. CASE s # d
    BY <1>1, <1>3, <2>2
  <2> QED
    BY <2>1, <2>2
<1>4. ASSUME NEW s \in Services, Has(pool[s], m)
      PROVE  Has(pool'[s], m)
  <2>1. CASE s = d
    BY <1>1, <1>2, <1>4, <2>1, HasAppend
  <2>2. CASE s # d
    BY <1>1, <1>4, <2>2
  <2> QED
    BY <2>1, <2>2
<1> QED
  BY <1>1, <1>3, <1>4 DEF InPlay

LEMMA ReceivePillPlays ==
  ASSUME TypeOK, NEW d \in Services, ReceivePill(d),
         NEW m \in FileJobShm, InPlay(queue, pool, thread, m)
  PROVE  InPlay(queue', pool', thread', m)
<1>1. /\ queue \in [Services -> Seq(IpcMessage)] /\ queue[d] # <<>>
      /\ queue' = [queue EXCEPT ![d] = Tail(@)] /\ Head(queue[d]) # m
      /\ UNCHANGED <<pool, thread>>
  BY FileJobAssumption DEF TypeOK, ReceivePill
<1>2. ASSUME NEW s \in Services, Has(queue[s], m)
      PROVE  Has(queue'[s], m)
  <2>1. CASE s = d
    BY <1>1, <1>2, <2>1, HasTail
  <2>2. CASE s # d
    BY <1>1, <1>2, <2>2
  <2> QED
    BY <2>1, <2>2
<1> QED
  BY <1>1, <1>2 DEF InPlay

LEMMA ThreadAtIs ==
  ASSUME TypeOK, NEW d \in Services, NEW v \in Threads, NEW next,
         thread' = [thread EXCEPT ![d][v] = next], NEW s \in Services, NEW t \in Threads
  PROVE  thread'[s][t] = IF s = d /\ t = v THEN next ELSE thread[s][t]
BY DEF TypeOK

LEMMA BeginPlays ==
  ASSUME TypeOK, NEW d \in Services, NEW v \in Threads, Begin(d, v),
         NEW m, InPlay(queue, pool, thread, m)
  PROVE  InPlay(queue', pool', thread', m)
<1> DEFINE next == [at |-> "handling", to |-> "", job |-> Head(pool[d])]
<1>1. /\ pool \in [Services -> Seq(IpcMessage)] /\ pool[d] # <<>>
      /\ pool' = [pool EXCEPT ![d] = Tail(@)]
      /\ thread' = [thread EXCEPT ![d][v] = next]
      /\ thread[d][v] = Idle
      /\ UNCHANGED queue
  BY PoolIsQueue DEF TypeOK, Begin
<1>2. InFlight(next) /\ next.job = Head(pool[d])
  BY DEF InFlight
<1> HIDE DEF next
<1>3. ASSUME NEW s \in Services, Has(pool[s], m)
      PROVE  Has(pool'[s], m) \/ (InFlight(thread'[d][v]) /\ thread'[d][v].job = m)
  <2>1. CASE s = d
    <3>1. Has(Tail(pool[d]), m) \/ m = Head(pool[d])
      BY <1>1, <1>3, <2>1, HasTail
    <3>2. thread'[d][v] = next
      BY <1>1 DEF TypeOK
    <3> QED
      BY <1>1, <1>2, <2>1, <3>1, <3>2
  <2>2. CASE s # d
    BY <1>1, <1>3, <2>2
  <2> QED
    BY <2>1, <2>2
<1>4. ASSUME NEW s \in Services, NEW t \in Threads, InFlight(thread[s][t])
      PROVE  thread'[s][t] = thread[s][t]
  BY <1>1, <1>4, IdleNotInFlight, ThreadAtIs
<1> QED
  BY <1>1, <1>3, <1>4 DEF InPlay

LEMMA SendPlays ==
  ASSUME TypeOK, WellRouted, NEW d \in Services, NEW v \in Threads, Send(d, v),
         NEW m, InPlay(queue, pool, thread, m)
  PROVE  InPlay(queue', pool', thread', m)
<1> DEFINE to == thread[d][v].to
           job == thread[d][v].job
<1>1. /\ to \in Services /\ job \in IpcMessage
      /\ queue \in [Services -> Seq(IpcMessage)]
      /\ queue' = [queue EXCEPT ![to] = Append(@, job)]
      /\ thread' = [thread EXCEPT ![d][v] = Idle]
      /\ UNCHANGED pool
  BY DEF Send, WellRouted, Fits, TypeOK, ThreadState, IpcMessage
<1>2. ASSUME NEW s \in Services, Has(queue[s], m)
      PROVE  Has(queue'[s], m)
  BY <1>1, <1>2, HasAppend
<1>3. ASSUME NEW s \in Services, NEW t \in Threads, InFlight(thread[s][t]), thread[s][t].job = m
      PROVE  Has(queue'[to], m) \/ thread'[s][t] = thread[s][t]
  <2>1. CASE s = d /\ t = v
    BY <1>1, <1>3, <2>1, HasAppend
  <2>2. CASE ~(s = d /\ t = v)
    BY <1>1, <2>2, ThreadAtIs
  <2> QED
    BY <2>1, <2>2
<1> QED
  BY <1>1, <1>2, <1>3 DEF InPlay

\* Nobody has the job in play whose file is being removed.
LEMMA RemoveFilePlays ==
  ASSUME TypeOK, NEW v \in Threads, RemoveFile(v),
         NEW m, InPlay(queue, pool, thread, m)
  PROVE  InPlay(queue', pool', thread', m)
<1>1. /\ thread' = [thread EXCEPT !["qm"][v] = Idle] /\ "qm" \in Services
      /\ ~InFlight(thread["qm"][v]) /\ UNCHANGED <<queue, pool>>
  BY DEF RemoveFile, InFlight, Services
<1>2. ASSUME NEW s \in Services, NEW t \in Threads, InFlight(thread[s][t])
      PROVE  thread'[s][t] = thread[s][t]
  BY <1>1, <1>2, ThreadAtIs
<1> QED
  BY <1>1, <1>2 DEF InPlay

\* A handler keeps every other job in play, and the one it passes on.
LEMMA HandlePlays ==
  ASSUME TypeOK, NEW d \in Services, NEW v \in Threads, NEW next,
         thread' = [thread EXCEPT ![d][v] = next], UNCHANGED <<queue, pool>>
  PROVE  /\ \A m : /\ InPlay(queue, pool, thread, m)
                   /\ m.job_id # thread[d][v].job.job_id
                   => InPlay(queue', pool', thread', m)
         /\ InFlight(next) => InPlay(queue', pool', thread', next.job)
<1>1. ASSUME NEW s \in Services, NEW t \in Threads,
             thread[s][t].job.job_id # thread[d][v].job.job_id
      PROVE  thread'[s][t] = thread[s][t]
  BY <1>1, ThreadAtIs
<1>2. thread'[d][v] = next
  BY DEF TypeOK
<1> QED
  BY <1>1, <1>2 DEF InPlay

----------------------------------------------------------------------------
(* Every step of the pipeline is one of the life of a job, or none *)

LifeStep == Lifecycle!Next \/ UNCHANGED Stages

LEMMA UploadLives ==
  ASSUME TypeOK, StagesRead, StagesRead', NEW j \in Jobs, Upload(j)
  PROVE  LifeStep
<1>1. /\ fate[j] = "absent" /\ fate'[j] = "moved" /\ UNCHANGED <<queue, pool, thread>>
      /\ \A k \in Jobs \ {j} : fate'[k] = fate[k]
  BY DEF Upload, TypeOK
<1>2. Stages[j] = "absent" /\ Stages'[j] = "moved"
  BY <1>1 DEF StagesRead
<1>3. \A k \in Jobs \ {j} : Stages'[k] = Stages[k]
  BY <1>1, StageKept
<1> QED
  BY <1>2, <1>3, OneMoves, ArriveStep DEF LifeStep

LEMMA SubmitLives ==
  ASSUME TypeOK, StagesRead, StagesRead', NEW j \in Jobs, Submit(j)
  PROVE  LifeStep
<1> DEFINE new == [DefaultJob EXCEPT !.job_id = j]
<1>1. new \in FileJobShm /\ new \in IpcMessage /\ new.job_id = j /\ new.status = "NEW"
  BY DefaultJobType DEF FileJobShm, IpcMessage, DefaultJob
<1>2. /\ queue' = [queue EXCEPT !["qm"] = Append(@, new)] /\ UNCHANGED <<pool, thread>>
      /\ fate[j] = "moved" /\ fate'[j] = "accepted"
      /\ \A k \in Jobs \ {j} : fate'[k] = fate[k]
      /\ "qm" \in Services
  BY DEF Submit, TypeOK, Services
<1> HIDE DEF new
<1>3. /\ \A m : InPlay(queue, pool, thread, m) => InPlay(queue', pool', thread', m)
      /\ InPlay(queue', pool', thread', new)
  BY <1>1, <1>2, AppendPlays
<1>4. Stages[j] = "moved" /\ Stages'[j] = "NEW"
  BY <1>1, <1>2, <1>3, ZenonT(60) DEF StagesRead
<1>5. \A k \in Jobs \ {j} : Stages'[k] = Stages[k]
  BY <1>2, <1>3, StageKept
<1> QED
  BY <1>4, <1>5, OneMoves, ArriveStep DEF LifeStep

\* A thread that handles a job changes the stage of that job alone.
LEMMA HandleOthers ==
  ASSUME TypeOK, StagesRead, StagesRead', NEW d \in Services, NEW v \in Threads, NEW next,
         thread' = [thread EXCEPT ![d][v] = next], UNCHANGED <<queue, pool>>,
         NEW k \in Jobs, k # thread[d][v].job.job_id, fate'[k] = fate[k]
  PROVE  Stages'[k] = Stages[k]
<1>1. \A m \in FileJobShm :
        m.job_id = k /\ InPlay(queue, pool, thread, m) => InPlay(queue', pool', thread', m)
  BY HandlePlays
<1> QED
  BY <1>1, StageKept

\* The stage of a job that is being handled is its status.
LEMMA HandlingStage ==
  ASSUME TypeOK, WellRouted, AllTracked, StagesRead, NEW d \in Services, NEW v \in Threads,
         thread[d][v].at = "handling"
  PROVE  Stages[thread[d][v].job.job_id] = thread[d][v].job.status
<1>1. thread[d][v].job \in FileJobShm /\ thread[d][v].job.job_id \in Jobs
  BY HandlingIs
<1>2. InFlight(thread[d][v])
  BY DEF InFlight
<1>3. InPlay(queue, pool, thread, thread[d][v].job)
  BY <1>2 DEF InPlay
<1> QED
  BY <1>1, <1>3 DEF StagesRead

\* A handler that sends a job on gives it the status it sends.
LEMMA SendingStage ==
  ASSUME TypeOK, StagesRead', NEW d \in Services, NEW v \in Threads, NEW to,
         NEW job \in FileJobShm, job.job_id \in Jobs,
         thread' = [thread EXCEPT ![d][v] = Sending(to, job)], UNCHANGED <<queue, pool>>
  PROVE  Stages'[job.job_id] = job.status
<1>1. InFlight(Sending(to, job)) /\ Sending(to, job).job = job
  BY SendingInFlight
<1> DEFINE next == Sending(to, job)
<1> HIDE DEF next
<1>2. InPlay(queue', pool', thread', next.job)
  BY <1>1, HandlePlays DEF next
<1>3. InPlay(queue', pool', thread', job)
  BY <1>1, <1>2 DEF next
<1> QED
  BY <1>3 DEF StagesRead

LEMMA HandleQmLives ==
  ASSUME TypeOK, WellRouted, AllTracked, StagesRead, StagesRead', NEW t \in Threads, HandleQm(t)
  PROVE  LifeStep
<1> DEFINE job == thread["qm"][t].job
           result == ProcessResults(job)
           j == job.job_id
           next == IF result.to \in Services THEN Sending(result.to, result.job)
                   ELSE IF RemovesFile(job) THEN Removing(job) ELSE Idle
<1>1. /\ "qm" \in Services /\ job \in FileJobShm /\ Fits("qm", job) /\ j \in Jobs
      /\ fate[j] = "accepted" /\ fate \in [Jobs -> Fates] /\ Stages[j] = job.status
  BY HandlingIs, HandlingStage DEF HandleQm, Services
<1>2. /\ thread' = [thread EXCEPT !["qm"][t] = next] /\ UNCHANGED <<queue, pool>>
      /\ fate' = [fate EXCEPT ![j] = Conclusion(job, @)]
  BY DEF HandleQm
<1>3. \A k \in Jobs \ {j} : fate'[k] = fate[k]
  BY <1>1, <1>2
<1>4. \A k \in Jobs \ {j} : Stages'[k] = Stages[k]
  <2> HIDE DEF next
  <2> QED
    BY <1>1, <1>2, <1>3, HandleOthers
<1>5. CASE result.to \in Services
  <2>1. /\ result.job.job_id = j /\ result.job \in FileJobShm
        /\ \/ job.status = "NEW" /\ result.job.status = "DETECTING"
           \/ job.status = "DETECTING" /\ result.job.status = "PARSING"
    BY <1>1, <1>5, QmResult, ProcessResultsType
  <2> DEFINE sent == result.job
             to == result.to
  <2>2. /\ thread' = [thread EXCEPT !["qm"][t] = Sending(to, sent)]
        /\ UNCHANGED <<queue, pool>> /\ "qm" \in Services
    BY <1>1, <1>2, <1>5
  <2>3. Stages'[j] = sent.status
    <3>1. sent.job_id \in Jobs /\ sent \in FileJobShm /\ sent.job_id = j
      BY <1>1, <2>1
    <3> HIDE DEF sent, to, j
    <3> QED
      BY <2>2, <3>1, SendingStage
  <2> HIDE DEF result, next
  <2> HIDE DEF j, job
  <2>4. Moves(j, "NEW", "DETECTING") \/ Moves(j, "DETECTING", "PARSING")
    BY <1>1, <1>4, <2>1, <2>3, OneMoves
  <2> QED
    BY <1>1, <2>4, FireStep DEF LifeStep
<1>6. CASE result.to \notin Services
  <2>1. job.status \in {"DONE", "FAILED"}
    BY <1>1, <1>6, QmResult DEF Services
  <2>2. \/ job.status = "DONE" /\ fate'[j] = "done"
        \/ job.status = "FAILED" /\ fate'[j] = "failed"
    BY <1>1, <1>2, <2>1 DEF Conclusion
  <2>3. Stages'[j] = fate'[j]
    BY <1>1, <2>2 DEF StagesRead
  <2> HIDE DEF j, job
  <2>4. Moves(j, "FAILED", "failed") \/ Moves(j, "DONE", "done")
    BY <1>1, <1>4, <2>2, <2>3, OneMoves
  <2> QED
    BY <1>1, <2>4, ConcludeStep DEF LifeStep
<1> QED
  BY <1>5, <1>6

LEMMA HandleDetectLives ==
  ASSUME TypeOK, WellRouted, AllTracked, StagesRead, StagesRead', NEW t \in Threads, HandleDetect(t)
  PROVE  LifeStep
<1> DEFINE job == thread["detect"][t].job
           j == job.job_id
<1>1. /\ "detect" \in Services /\ job \in FileJobShm /\ Fits("detect", job) /\ j \in Jobs
      /\ fate[j] = "accepted" /\ fate \in [Jobs -> Fates] /\ Stages[j] = job.status
  BY HandlingIs, HandlingStage DEF HandleDetect, Services
<1>2. job.status = "DETECTING" /\ UNCHANGED <<queue, pool>>
  BY <1>1 DEF Fits, HandleDetect
<1>3. ASSUME thread' = [thread EXCEPT !["detect"][t] = Idle],
             fate' = [fate EXCEPT ![j] = "dropped"]
      PROVE  LifeStep
  <2>1. fate'[j] = "dropped" /\ \A k \in Jobs \ {j} : fate'[k] = fate[k]
    BY <1>1, <1>3
  <2>2. \A k \in Jobs \ {j} : Stages'[k] = Stages[k]
    BY <1>1, <1>2, <1>3, <2>1, HandleOthers, ZenonT(60)
  <2>3. Stages'[j] = "dropped"
    BY <1>1, <2>1 DEF StagesRead
  <2> HIDE DEF j, job
  <2>4. Moves(j, "DETECTING", "dropped")
    BY <1>1, <1>2, <2>2, <2>3, OneMoves
  <2> QED
    BY <1>1, <2>4, ConcludeStep DEF LifeStep
<1>4. ASSUME NEW magic, fate' = fate,
             thread' = [thread EXCEPT !["detect"][t] = Sending("qm", DetectReply(job, magic))]
      PROVE  LifeStep
  <2> DEFINE reply == DetectReply(job, magic)
             next == Sending("qm", reply)
  <2>1. /\ reply \in FileJobShm /\ reply.job_id = j
        /\ reply.status \in {"DETECTING", "FAILED"}
    BY <1>1, DetectResult, DetectReplyType
  <2> HIDE DEF reply
  <2>2. thread' = [thread EXCEPT !["detect"][t] = next]
    BY <1>4 DEF reply
  <2>3. \A k \in Jobs \ {j} : fate'[k] = fate[k]
    BY <1>4
  <2>4. Stages'[j] = reply.status
    <3>1. reply.job_id \in Jobs
      BY <1>1, <2>1
    <3> QED
      BY <1>1, <1>2, <2>1, <2>2, <3>1, SendingStage
  <2>5. \A k \in Jobs \ {j} : Stages'[k] = Stages[k]
    <3> HIDE DEF next
    <3> QED
      BY <1>1, <1>2, <2>2, <2>3, HandleOthers
  <2> HIDE DEF j, job
  <2>6. CASE reply.status = "FAILED"
    <3>1. Moves(j, "DETECTING", "FAILED")
      BY <1>1, <1>2, <2>4, <2>5, <2>6, OneMoves
    <3> QED
      BY <1>1, <3>1, FireStep DEF LifeStep
  <2>7. CASE reply.status = "DETECTING"
    <3>1. \A k \in Jobs : Stages'[k] = Stages[k]
      BY <1>1, <1>2, <2>4, <2>5, <2>7
    <3> QED
      BY <3>1 DEF LifeStep, Stages
  <2> QED
    BY <2>1, <2>6, <2>7
<1> QED
  BY <1>3, <1>4 DEF HandleDetect

LEMMA HandleParseLives ==
  ASSUME TypeOK, WellRouted, AllTracked, StagesRead, StagesRead', NEW t \in Threads, HandleParse(t)
  PROVE  LifeStep
<1> DEFINE job == thread["parse"][t].job
           j == job.job_id
           reply == ParseReply(job)
           next == Sending("qm", reply)
<1>1. /\ "parse" \in Services /\ job \in FileJobShm /\ Fits("parse", job) /\ j \in Jobs
      /\ Stages[j] = job.status
  BY HandlingIs, HandlingStage DEF HandleParse, Services
<1>2. /\ job.status = "PARSING" /\ UNCHANGED <<queue, pool, fate>>
      /\ thread' = [thread EXCEPT !["parse"][t] = next]
  BY <1>1 DEF Fits, HandleParse
<1>3. reply \in FileJobShm /\ reply.job_id = j /\ reply.status \in {"DONE", "FAILED"}
  BY <1>1, ParseResult, ParseReplyType
<1> HIDE DEF reply
<1>4. Stages'[j] = reply.status
  <2>1. reply.job_id \in Jobs
    BY <1>1, <1>3
  <2> QED
    BY <1>1, <1>2, <1>3, <2>1, SendingStage
<1>5. \A k \in Jobs \ {j} : Stages'[k] = Stages[k]
  <2> HIDE DEF next
  <2> QED
    BY <1>1, <1>2, HandleOthers
<1> HIDE DEF j, job
<1>6. Moves(j, "PARSING", "DONE") \/ Moves(j, "PARSING", "FAILED")
  BY <1>1, <1>2, <1>3, <1>4, <1>5, OneMoves
<1> QED
  BY <1>1, <1>6, FireStep DEF LifeStep

LEMMA DieLives ==
  ASSUME TypeOK, AllTracked, StagesRead, StagesRead', NEW w \in Workers, Die(w)
  PROVE  LifeStep
<1> DEFINE S == HeldBy(w) \cap Jobs
<1>1. \A j \in Jobs : fate'[j] = IF j \in S THEN "lost" ELSE fate[j]
  BY DEF Die
<1>2. ASSUME NEW j \in S
      PROVE  Stages[j] \in {"moved"} \union Status /\ Stages'[j] = "lost"
  <2>1. fate[j] \in {"moved", "accepted"}
    <3>1. CASE w = "ingestd"
      BY <3>1 DEF HeldBy
    <3>2. CASE w \in Services
      <4>1. Somewhere(queue, pool, thread, j)
        BY <3>2, HeldByIs DEF Somewhere
      <4> QED
        BY <4>1 DEF AllTracked, Tracked
    <3> QED
      BY <3>1, <3>2 DEF Workers
  <2>2. Stages[j] \in {"moved"} \union Status
    BY <2>1 DEF StagesRead, FileJobShm
  <2> QED
    BY <1>1, <2>2 DEF StagesRead
<1>3. ASSUME NEW j \in Jobs \ S
      PROVE  Stages'[j] = Stages[j]
  <2>1. CASE w = "ingestd"
    BY <1>1, <2>1, StageKept DEF Die
  <2>2. CASE w \in Services
    <3> SUFFICES ASSUME NEW m \in FileJobShm, m.job_id = j, InPlay(queue, pool, thread, m)
                 PROVE  InPlay(queue', pool', thread', m)
      BY <1>1, StageKept
    <3>1. m # PoisonPill
      BY FileJobAssumption
    <3>2. DOMAIN pool[w] \subseteq Nat
      BY <2>2 DEF TypeOK
    <3>3. ~Has(pool[w], m) /\ \A t \in Threads : ~(InFlight(thread[w][t]) /\ thread[w][t].job = m)
      BY <2>2, <3>1, <3>2, HeldByIs DEF Has, Holds, Works
    <3>4. \A s \in Services \ {w} : pool'[s] = pool[s] /\ thread'[s] = thread[s]
      BY <2>2 DEF Die, TypeOK
    <3>5. queue' = queue
      BY DEF Die
    <3> QED
      BY <3>3, <3>4, <3>5 DEF InPlay
  <2> QED
    BY <2>1, <2>2 DEF Workers
<1>4. Stages' = [j \in Jobs |-> IF j \in S THEN "lost" ELSE Stages[j]]
  BY <1>2, <1>3 DEF Stages
<1> QED
  BY <1>2, <1>4, LoseStep DEF LifeStep

LEMMA NextLives ==
  TypeOK /\ WellRouted /\ AllTracked /\ StagesRead /\ StagesRead' /\ [Next]_vars => LifeStep
<1> SUFFICES ASSUME TypeOK, WellRouted, AllTracked, StagesRead, StagesRead', [Next]_vars
             PROVE  LifeStep
  OBVIOUS
<1>1. ASSUME NEW j \in Jobs, Upload(j) PROVE LifeStep
  BY <1>1, UploadLives
<1>2. ASSUME NEW j \in Jobs, Submit(j) PROVE LifeStep
  BY <1>2, SubmitLives
<1>3. ASSUME NEW s \in Services, Receive(s) PROVE LifeStep
  BY <1>3, ReceivePlays, AllKept DEF Receive, LifeStep
<1>4. ASSUME NEW s \in Services, ReceivePill(s) PROVE LifeStep
  BY <1>4, ReceivePillPlays, AllKept DEF ReceivePill, LifeStep
<1>5. ASSUME NEW s \in Services, Exit(s) PROVE LifeStep
  BY <1>5, AllKept DEF Exit, LifeStep
<1>6. ASSUME NEW s \in Services, NEW t \in Threads, Begin(s, t) PROVE LifeStep
  BY <1>6, BeginPlays, AllKept DEF Begin, LifeStep
<1>7. ASSUME NEW t \in Threads, HandleQm(t) PROVE LifeStep
  BY <1>7, HandleQmLives
<1>8. ASSUME NEW t \in Threads, HandleDetect(t) PROVE LifeStep
  BY <1>8, HandleDetectLives
<1>9. ASSUME NEW t \in Threads, HandleParse(t) PROVE LifeStep
  BY <1>9, HandleParseLives
<1>10. ASSUME NEW s \in Services, NEW t \in Threads, Send(s, t) PROVE LifeStep
  BY <1>10, SendPlays, AllKept DEF Send, LifeStep
<1>11. ASSUME NEW w \in Workers, Crash(w) PROVE LifeStep
  BY <1>11, DieLives DEF Crash
<1>12. ASSUME NEW s \in Services, RaceCrash(s) PROVE LifeStep
  BY <1>12, DieLives DEF RaceCrash, Workers
<1>13. ASSUME NEW w \in Workers, Start(w) PROVE LifeStep
  BY <1>13, AllKept DEF Start, LifeStep
<1>14. ASSUME NEW s \in Services, SendStopJob(s) PROVE LifeStep
  <2>1. PoisonPill \in IpcMessage
    BY DEF IpcMessage
  <2>2. \A m : InPlay(queue, pool, thread, m) => InPlay(queue', pool', thread', m)
    BY <1>14, <2>1, AppendPlays DEF SendStopJob
  <2> QED
    BY <1>14, <2>2, AllKept DEF SendStopJob, LifeStep
<1>15. ASSUME NEW t \in Threads, RemoveFile(t) PROVE LifeStep
  BY <1>15, RemoveFilePlays, AllKept DEF RemoveFile, LifeStep
<1>16. CASE UNCHANGED vars
  BY <1>16, AllKept DEF vars, LifeStep
<1> QED
  BY <1>1, <1>2, <1>3, <1>4, <1>5, <1>6, <1>7, <1>8, <1>9, <1>10, <1>11, <1>12,
     <1>13, <1>14, <1>15, <1>16 DEF Next, Handle, Quiescent

LEMMA InitLives == Init => Lifecycle!Init
<1> SUFFICES ASSUME Init PROVE [j \in Jobs |-> StageOf(j)] = [j \in Jobs |-> "absent"]
  BY DEF Lifecycle!Init
<1>1. \A j \in Jobs : StageOf(j) = "absent"
  BY DEF Init, StageOf
<1> QED
  BY <1>1

\* For any number of jobs, threads and crashes, and any answers of libmagic,
\* the services, which write the status field themselves, move a job only
\* along the transitions of the state machine (state_machine.cpp:23), and a
\* job in flight leaves them only by a conclusion or with its process.
THEOREM ImplementsLifecycleAlways == Spec => ImplementsLifecycle
<1> DEFINE Inv == TypeOK /\ WellRouted /\ AllTracked
<1>1. Init => Lifecycle!Init
  BY InitLives
<1>2. Inv /\ Inv' /\ [Next]_vars => [Lifecycle!Next]_([j \in Jobs |-> StageOf(j)])
  <2> SUFFICES ASSUME Inv, Inv', [Next]_vars
               PROVE  Lifecycle!Next \/ UNCHANGED [j \in Jobs |-> StageOf(j)]
    OBVIOUS
  <2>1. StagesRead /\ StagesRead'
    BY StagesAre, PTL
  <2>2. LifeStep
    BY <2>1, NextLives
  <2> QED
    BY <2>2 DEF LifeStep, Stages
<1>3. Spec => []Inv
  BY TrackedAlways
<1> QED
  BY <1>1, <1>2, <1>3, PTL DEF Spec, ImplementsLifecycle, Lifecycle!Spec
=============================================================================
