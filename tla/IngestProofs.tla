---------------------------- MODULE IngestProofs ----------------------------
(***************************************************************************)
(* Uploads under file names that clash: what holds of the spool and of     *)
(* qm's inbox for any number of uploads, threads, seconds and deaths of    *)
(* ingestd.                                                                *)
(***************************************************************************)
EXTENDS Ingest, TLAPS

LEMMA AppendFacts ==
  ASSUME NEW S, NEW q \in Seq(S), NEW m \in S
  PROVE  /\ Append(q, m) \in Seq(S) /\ Len(q) \in Nat
         /\ Len(Append(q, m)) = Len(q) + 1
         /\ \A i \in DOMAIN Append(q, m) : \/ i \in DOMAIN q /\ Append(q, m)[i] = q[i]
                                           \/ i = Len(q) + 1 /\ Append(q, m)[i] = m
         /\ Len(q) + 1 \notin DOMAIN q
OBVIOUS

LEMMA TailFacts ==
  ASSUME NEW S, NEW q \in Seq(S), q # <<>>
  PROVE  /\ Tail(q) \in Seq(S) /\ Len(q) \in Nat /\ Len(Tail(q)) = Len(q) - 1
         /\ Head(q) \in S /\ 1 \in DOMAIN q /\ Head(q) = q[1]
         /\ \A i \in DOMAIN Tail(q) : /\ i \in Nat /\ i + 1 \in DOMAIN q /\ i + 1 # 1
                                      /\ Tail(q)[i] = q[i + 1]
OBVIOUS

----------------------------------------------------------------------------
(* How a request, its name and its job go together *)

\* A request has a name from the clock once it is served, and a job only after
\* its send; those being served belong to the ingestd that runs now.
NamedOf(u) ==
  /\ request[u] \in {"absent", "waiting", "refused"} => name[u] = 0
  /\ request[u] \in Served \union {"answered"} => name[u] \in Seconds
  /\ job[u] # "none" => name[u] \in Seconds /\ request[u] \in {"handled", "answered", "lost"}
  /\ seen[u] # Unread => job[u] # "none"
  /\ request[u] \in Served => born[u] = crashes
  /\ name[u] # 0 => born[u] <= crashes

Named == \A u \in Uploads : NamedOf(u)

\* No job is in the inbox twice, or after it was taken.
Queued ==
  /\ \A i \in DOMAIN inbox : inbox[i] \in Uploads => job[inbox[i]] = "queued"
  /\ \A i, k \in DOMAIN inbox : inbox[i] \in Uploads /\ inbox[k] = inbox[i] => i = k

LEMMA Types ==
  ASSUME TypeOK
  PROVE  /\ now \in Seconds /\ now # 0 /\ Seconds \subseteq Nat /\ 0 \notin Seconds
         /\ \A u \in Uploads :
              /\ request[u] \in Served \union {"absent", "waiting", "refused", "answered", "lost"}
              /\ name[u] \in Seconds \union {0} /\ born[u] \in Nat
              /\ bytes[u] \in SUBSET Uploads /\ handle[u] \in Uploads \union {NoFile}
         /\ \A n \in Seconds : incoming[n] \in Uploads \union {NoFile}
         /\ \A n \in Seconds : spool[n] \in Uploads \union {NoFile}
         /\ crashes \in Nat
<1>1. LastSecond \in Nat \ {0}
  BY IngestAssumption
<1> QED
  BY <1>1 DEF TypeOK, Seconds

LEMMA InitNamed == Init => TypeOK /\ Named /\ Queued
<1> SUFFICES ASSUME Init PROVE TypeOK /\ Named /\ Queued
  OBVIOUS
<1>1. LastSecond \in Nat \ {0} /\ QueueCapacity \in Nat \ {0} /\ Result \notin Uploads
  BY IngestAssumption
<1>2. /\ inbox \in Seq(Uploads \union {Result}) /\ Len(inbox) <= QueueCapacity
      /\ \A i \in DOMAIN inbox : inbox[i] \notin Uploads
  <2>1. CASE inbox = <<>>
    BY <1>1, <2>1
  <2>2. CASE inbox = [i \in 1..QueueCapacity |-> Result]
    BY <1>1, <2>2
  <2> QED
    BY <2>1, <2>2 DEF Init
<1>3. TypeOK
  <2>1. now \in Seconds /\ dirs \in {{}, {"incoming"}, {"incoming", "new"}} /\ up \in BOOLEAN
    BY <1>1 DEF Init, Seconds
  <2>2. /\ name \in [Uploads -> 0..LastSecond] /\ born \in [Uploads -> Nat] /\ crashes \in Nat
    BY <1>1 DEF Init
  <2>3. /\ request \in [Uploads -> Served \union {"absent", "waiting", "refused", "answered", "lost"}]
        /\ handle \in [Uploads -> Uploads \union {NoFile}]
        /\ incoming \in [Seconds -> Uploads \union {NoFile}]
        /\ spool \in [Seconds -> Uploads \union {NoFile}]
    BY DEF Init
  <2>4. bytes \in [Uploads -> SUBSET Uploads]
    <3>1. {} \in SUBSET Uploads
      OBVIOUS
    <3> QED
      BY <3>1 DEF Init
  <2>5. /\ job \in [Uploads -> {"none", "queued", "taken", "inspected", "done", "failed", "dropped"}]
        /\ early \subseteq Uploads
    BY DEF Init
  <2>6. seen \in [Uploads -> (SUBSET Uploads) \union {Unread}]
    BY DEF Init
  <2> QED
    BY <1>2, <2>1, <2>2, <2>3, <2>4, <2>5, <2>6 DEF TypeOK
<1>4. Named
  BY DEF Init, Named, NamedOf, Served, Unread
<1> QED
  BY <1>2, <1>3, <1>4 DEF Queued

LEMMA HandlerType ==
  ASSUME TypeOK, Named, NEW u \in Uploads, Arrive(u) \/ Handler(u)
  PROVE  TypeOK'
<1> USE DEF To, world, files, jobs, history
<1>1. /\ now \in Seconds /\ name[u] \in Seconds \union {0}
      /\ bytes[u] \in SUBSET Uploads /\ handle[u] \in Uploads \union {NoFile}
      /\ \A n \in Seconds : incoming[n] \in Uploads \union {NoFile}
  BY Types
<1>2. now \in 0..LastSecond /\ crashes \in Nat
  BY IngestAssumption DEF TypeOK, Seconds
<1>3. request[u] \in Served => name[u] \in Seconds
  BY DEF Named, NamedOf
<1>4. CASE Arrive(u) \/ Refuse(u) \/ Answer(u)
  BY <1>4 DEF Arrive, Refuse, Answer, TypeOK
<1>5. CASE Name(u)
  BY <1>2, <1>5 DEF Name, TypeOK, Served
<1>6. CASE Open(u)
  <2>1. incoming[name[u]] \in Uploads \union {NoFile}
    BY <1>1, <1>3, <1>6 DEF Open, Served
  <2> DEFINE file == IF incoming[name[u]] = NoFile THEN u ELSE incoming[name[u]]
  <2>2. file \in Uploads
    BY <2>1
  <2>3. /\ request' = [request EXCEPT ![u] = "open"]
        /\ incoming' = incoming \/ incoming' = [incoming EXCEPT ![name[u]] = file]
        /\ handle' = handle \/ handle' = [handle EXCEPT ![u] = file]
        /\ bytes' = bytes \/ bytes' = [bytes EXCEPT ![file] = {}]
        /\ UNCHANGED <<world, name, spool, jobs, history>>
    BY <1>6 DEF Open
  <2> HIDE DEF file
  <2>4. request' \in [Uploads -> Served \union {"absent", "waiting", "refused", "answered", "lost"}]
    BY <2>3 DEF TypeOK, Served
  <2>6. incoming' \in [Seconds -> Uploads \union {NoFile}]
    <3>1. incoming \in [Seconds -> Uploads \union {NoFile}]
      BY DEF TypeOK
    <3> QED
      BY <2>2, <2>3, <3>1
  <2>7. handle' \in [Uploads -> Uploads \union {NoFile}]
    <3>1. handle \in [Uploads -> Uploads \union {NoFile}]
      BY DEF TypeOK
    <3> QED
      BY <2>2, <2>3, <3>1
  <2>5. bytes' \in [Uploads -> SUBSET Uploads]
    <3>1. bytes \in [Uploads -> SUBSET Uploads]
      BY DEF TypeOK
    <3> QED
      BY <2>3, <3>1
  <2> QED
    BY <2>3, <2>4, <2>5, <2>6, <2>7 DEF TypeOK
<1>7. CASE Write(u)
  <2>1. request' \in [Uploads -> Served \union {"absent", "waiting", "refused", "answered", "lost"}]
    BY <1>7 DEF Write, TypeOK, Served
  <2>2. bytes' \in [Uploads -> SUBSET Uploads]
    <3>1. bytes \in [Uploads -> SUBSET Uploads]
      BY DEF TypeOK
    <3>2. CASE handle[u] = NoFile
      BY <1>7, <3>1, <3>2 DEF Write
    <3>3. CASE handle[u] # NoFile
      BY <1>1, <1>7, <3>1, <3>3 DEF Write
    <3> QED
      BY <3>2, <3>3
  <2> QED
    BY <1>7, <2>1, <2>2 DEF Write, TypeOK
<1>8. CASE Move(u)
  <2>1. incoming[name[u]] \in Uploads \union {NoFile}
    BY <1>1, <1>3, <1>8 DEF Move, Served
  <2> QED
    BY <1>8, <2>1 DEF Move, TypeOK, Served
<1>9. CASE Send(u)
  <2>1. inbox' \in Seq(Uploads \union {Result}) /\ Len(inbox') <= QueueCapacity
    <3>1. inbox \in Seq(Uploads \union {Result}) /\ QueueCapacity \in Nat
      BY IngestAssumption DEF TypeOK
    <3>2. inbox' = Append(inbox, u) /\ Len(inbox) < QueueCapacity
      BY <1>9 DEF Send
    <3> QED
      BY <3>1, <3>2, AppendFacts
  <2> QED
    BY <1>9, <2>1 DEF Send, TypeOK, Served
<1> QED
  BY <1>4, <1>5, <1>6, <1>7, <1>8, <1>9 DEF Handler

LEMMA OthersType ==
  ASSUME TypeOK, Named,
         \/ \E u \in Uploads : Inspect(u) \/ Conclude(u)
         \/ MakeDir \/ Take \/ Tick \/ Crash \/ Restart
  PROVE  TypeOK'
<1> USE DEF world, files, jobs, history
<1>1. ASSUME NEW u \in Uploads, Inspect(u) PROVE TypeOK'
  <2>1. spool[name[u]] \in Uploads \union {NoFile}
    BY <1>1, Types DEF Inspect, Named, NamedOf
  <2>2. spool[name[u]] # NoFile => bytes[spool[name[u]]] \in SUBSET Uploads
    BY <2>1 DEF TypeOK
  <2>3. seen' \in [Uploads -> (SUBSET Uploads) \union {Unread}]
    BY <1>1, <2>2 DEF Inspect, TypeOK
  <2>4. job' = [job EXCEPT ![u] = "dropped"] \/ job' = [job EXCEPT ![u] = "inspected"]
    BY <1>1 DEF Inspect
  <2> QED
    BY <1>1, <2>3, <2>4 DEF Inspect, TypeOK
<1>2. ASSUME NEW u \in Uploads, Conclude(u) PROVE TypeOK'
  BY <1>2 DEF Conclude, TypeOK
<1>3. CASE MakeDir
  BY <1>3 DEF MakeDir, TypeOK
<1>4. CASE Take
  <2>1. inbox \in Seq(Uploads \union {Result}) /\ Len(inbox) <= QueueCapacity /\ QueueCapacity \in Nat
    BY IngestAssumption DEF TypeOK
  <2>2. inbox # <<>> /\ inbox' = Tail(inbox)
    BY <1>4 DEF Take
  <2>3. inbox' \in Seq(Uploads \union {Result}) /\ Len(inbox') <= QueueCapacity
    BY <2>1, <2>2, TailFacts
  <2> QED
    BY <1>4, <2>3 DEF Take, TypeOK
<1>5. CASE Tick
  <2>1. now' \in Seconds
    BY <1>5, IngestAssumption DEF Tick, TypeOK, Seconds
  <2> QED
    BY <1>5, <2>1 DEF Tick, TypeOK
<1>6. CASE Crash
  <2>1. request' \in [Uploads -> Served \union {"absent", "waiting", "refused", "answered", "lost"}]
    BY <1>6 DEF Crash, TypeOK
  <2>2. up' \in BOOLEAN
    BY <1>6 DEF Crash
  <2>3. crashes' \in Nat
    BY <1>6 DEF Crash, TypeOK
  <2> QED
    BY <1>6, <2>1, <2>2, <2>3 DEF Crash, TypeOK
<1>7. CASE Restart
  BY <1>7 DEF Restart, TypeOK
<1> QED
  BY <1>1, <1>2, <1>3, <1>4, <1>5, <1>6, <1>7

LEMMA StillType == ASSUME TypeOK, UNCHANGED vars PROVE TypeOK'
BY DEF TypeOK, vars

LEMMA NextType == TypeOK /\ Named /\ [Next]_vars => TypeOK'
<1> SUFFICES ASSUME TypeOK, Named, [Next]_vars PROVE TypeOK'
  OBVIOUS
<1>1. ASSUME NEW u \in Uploads, Arrive(u) \/ Handler(u) \/ Inspect(u) \/ Conclude(u)
      PROVE  TypeOK'
  BY <1>1, HandlerType, OthersType
<1>2. CASE MakeDir \/ Take \/ Tick \/ Crash \/ Restart
  BY <1>2, OthersType
<1>3. CASE UNCHANGED vars
  BY <1>3, StillType
<1> QED
  BY <1>1, <1>2, <1>3 DEF Next, Quiescent

----------------------------------------------------------------------------
(* What no step takes back *)

\* A name once given, and its birth, stay; so does a job, and its end.
Frame ==
  /\ \A v \in Uploads : name[v] # 0 => name'[v] = name[v] /\ born'[v] = born[v]
  /\ \A v \in Uploads : job[v] # "none" => job'[v] # "none"
  /\ \A v \in Uploads : job[v] = "done" => job'[v] = "done"

LEMMA SameFrame == UNCHANGED <<name, born, job>> => Frame
BY DEF Frame

LEMMA HandlerFrame ==
  ASSUME TypeOK, Named, NEW u \in Uploads, Arrive(u) \/ Handler(u)
  PROVE  Frame
<1> USE DEF world, files, jobs, history
<1>1. CASE Name(u)
  <2>1. name[u] = 0
    BY <1>1 DEF Name, Named, NamedOf
  <2>2. /\ name' = [name EXCEPT ![u] = now] /\ born' = [born EXCEPT ![u] = crashes]
        /\ job' = job
    BY <1>1 DEF Name
  <2>3. \A v \in Uploads : v # u => name'[v] = name[v] /\ born'[v] = born[v]
    BY <2>2 DEF TypeOK
  <2> QED
    BY <2>1, <2>2, <2>3 DEF Frame
<1>2. CASE Send(u)
  <2>1. job[u] = "none"
    BY <1>2 DEF Send, Named, NamedOf, TypeOK
  <2>2. job' = [job EXCEPT ![u] = "queued"] /\ UNCHANGED <<name, born>>
    BY <1>2 DEF Send
  <2>3. \A v \in Uploads : v # u => job'[v] = job[v]
    BY <2>2 DEF TypeOK
  <2>4. job'[u] = "queued"
    BY <2>2 DEF TypeOK
  <2> QED
    BY <2>1, <2>2, <2>3, <2>4 DEF Frame
<1>3. CASE Arrive(u) \/ Refuse(u) \/ Open(u) \/ Write(u) \/ Move(u) \/ Answer(u)
  BY <1>3, SameFrame DEF Arrive, Refuse, Open, Write, Move, Answer
<1> QED
  BY <1>1, <1>2, <1>3 DEF Handler

LEMMA OthersFrame ==
  ASSUME TypeOK, Queued,
         \/ \E u \in Uploads : Inspect(u) \/ Conclude(u)
         \/ MakeDir \/ Take \/ Tick \/ Crash \/ Restart
  PROVE  Frame
<1> USE DEF world, files, jobs, history
<1>0. job \in [Uploads -> {"none", "queued", "taken", "inspected", "done", "failed", "dropped"}]
  BY DEF TypeOK
<1>1. ASSUME NEW u \in Uploads, Inspect(u) \/ Conclude(u) PROVE Frame
  <2>1. PICK new \in {"inspected", "dropped", "done", "failed"} : job' = [job EXCEPT ![u] = new]
    BY <1>1 DEF Inspect, Conclude
  <2>2. job[u] \in {"taken", "inspected"} /\ UNCHANGED <<name, born>>
    BY <1>1 DEF Inspect, Conclude
  <2>3. \A v \in Uploads : job'[v] = IF v = u THEN new ELSE job[v]
    BY <1>0, <2>1
  <2> QED
    BY <2>2, <2>3 DEF Frame
<1>2. CASE Take
  <2>1. \A v \in Uploads : job'[v] = IF v = Head(inbox) THEN "taken" ELSE job[v]
    BY <1>2 DEF Take
  <2>2. Head(inbox) \in Uploads => job[Head(inbox)] = "queued"
    <3>1. inbox \in Seq(Uploads \union {Result}) /\ inbox # <<>>
      BY <1>2 DEF TypeOK, Take
    <3>2. 1 \in DOMAIN inbox /\ Head(inbox) = inbox[1]
      BY <3>1, TailFacts
    <3> QED
      BY <3>2 DEF Queued
  <2>3. UNCHANGED <<name, born>>
    BY <1>2 DEF Take
  <2> QED
    BY <2>1, <2>2, <2>3 DEF Frame
<1>3. CASE MakeDir \/ Tick \/ Crash \/ Restart
  BY <1>3, SameFrame DEF MakeDir, Tick, Crash, Restart
<1> QED
  BY <1>1, <1>2, <1>3

LEMMA NextFrame == TypeOK /\ Named /\ Queued /\ [Next]_vars => Frame
<1> SUFFICES ASSUME TypeOK, Named, Queued, [Next]_vars PROVE Frame
  OBVIOUS
<1>1. CASE UNCHANGED vars
  BY <1>1, SameFrame DEF vars
<1> QED
  BY <1>1, HandlerFrame, OthersFrame DEF Next, Quiescent

LEMMA NamedKept ==
  ASSUME NEW v \in Uploads, NamedOf(v), request'[v] = request[v], name'[v] = name[v],
         job'[v] = job[v], seen'[v] = seen[v], born'[v] = born[v], crashes' = crashes
  PROVE  NamedOf(v)'
BY DEF NamedOf

LEMMA HandlerNamed ==
  ASSUME TypeOK, Named, NEW u \in Uploads, Arrive(u) \/ Handler(u)
  PROVE  Named'
<1> USE DEF To, world, files, jobs, history
<1>1. request \in [Uploads -> Served \union {"absent", "waiting", "refused", "answered", "lost"}]
  BY DEF TypeOK
<1>2. \A v \in Uploads : v # u => request'[v] = request[v]
  BY <1>1 DEF Arrive, Handler, Refuse, Name, Open, Write, Move, Send, Answer
<1>3. UNCHANGED <<seen, crashes>>
  BY DEF Arrive, Handler, Refuse, Name, Open, Write, Move, Send, Answer
<1>4. NamedOf(u)
  BY DEF Named
<1>5. CASE Name(u)
  <2>1. /\ name' = [name EXCEPT ![u] = now] /\ born' = [born EXCEPT ![u] = crashes]
        /\ job' = job /\ request' = [request EXCEPT ![u] = "named"]
    BY <1>5 DEF Name
  <2>2. \A v \in Uploads : v # u => name'[v] = name[v] /\ born'[v] = born[v]
    BY <2>1 DEF TypeOK
  <2>3. name'[u] = now /\ born'[u] = crashes /\ request'[u] = "named" /\ now \in Seconds
    BY <2>1 DEF TypeOK
  <2>4. job[u] = "none" /\ crashes \in Nat
    BY <1>4, <1>5 DEF Name, NamedOf, TypeOK
  <2>5. NamedOf(u)'
    BY <1>3, <1>4, <2>1, <2>3, <2>4, Types DEF NamedOf, Served
  <2>6. ASSUME NEW v \in Uploads, v # u PROVE NamedOf(v)'
    <3>1. request'[v] = request[v] /\ name'[v] = name[v] /\ born'[v] = born[v]
          /\ job'[v] = job[v] /\ seen'[v] = seen[v] /\ crashes' = crashes /\ NamedOf(v)
      BY <1>2, <1>3, <2>1, <2>2, <2>6 DEF Named
    <3> QED
      BY <3>1, NamedKept
  <2> QED
    BY <2>5, <2>6 DEF Named
<1>6. CASE Send(u)
  <2>1. /\ UNCHANGED <<name, born>> /\ request'[u] = "handled" /\ request[u] = "moved"
        /\ job' = [job EXCEPT ![u] = "queued"]
    BY <1>1, <1>6 DEF Send
  <2>2. NamedOf(u)'
    BY <1>3, <1>4, <2>1 DEF NamedOf, Served, TypeOK
  <2>3. ASSUME NEW v \in Uploads, v # u PROVE NamedOf(v)'
    <3>1. job'[v] = job[v]
      BY <2>1, <2>3 DEF TypeOK
    <3> QED
      BY <1>2, <1>3, <2>1, <2>3, <3>1, NamedKept DEF Named
  <2> QED
    BY <2>2, <2>3 DEF Named
<1>7. CASE Arrive(u) \/ Refuse(u) \/ Open(u) \/ Write(u) \/ Move(u) \/ Answer(u)
  <2>1. UNCHANGED <<name, born, job>>
    BY <1>7 DEF Arrive, Refuse, Open, Write, Move, Answer
  <2>2. \/ request[u] \in {"absent", "waiting"} /\ request'[u] \in {"waiting", "refused"}
        \/ /\ request[u] \in {"named", "open", "written"}
           /\ request'[u] \in {"open", "written", "moved", "handled"}
        \/ request[u] = "handled" /\ request'[u] = "answered"
    BY <1>1, <1>7 DEF Arrive, Refuse, Open, Write, Move, Answer
  <2>3. NamedOf(u)'
    BY <1>3, <1>4, <2>1, <2>2 DEF NamedOf, Served
  <2>4. ASSUME NEW v \in Uploads, v # u PROVE NamedOf(v)'
    BY <1>2, <1>3, <2>1, <2>4, NamedKept DEF Named
  <2> QED
    BY <2>3, <2>4 DEF Named
<1> QED
  BY <1>5, <1>6, <1>7 DEF Handler

LEMMA OthersNamed ==
  ASSUME TypeOK, Named, Queued,
         \/ \E u \in Uploads : Inspect(u) \/ Conclude(u)
         \/ MakeDir \/ Take \/ Tick \/ Crash \/ Restart
  PROVE  Named'
<1> USE DEF world, files, jobs, history
<1>0. job \in [Uploads -> {"none", "queued", "taken", "inspected", "done", "failed", "dropped"}]
  BY DEF TypeOK
<1>1. ASSUME NEW u \in Uploads, Inspect(u) \/ Conclude(u) PROVE Named'
  <2>1. PICK new \in {"inspected", "dropped", "done", "failed"} : job' = [job EXCEPT ![u] = new]
    BY <1>1 DEF Inspect, Conclude
  <2>2. job[u] \in {"taken", "inspected"} /\ UNCHANGED <<request, name, born, crashes>>
    BY <1>1 DEF Inspect, Conclude
  <2>3. \A v \in Uploads : v # u => seen'[v] = seen[v]
    BY <1>1 DEF Inspect, Conclude, TypeOK
  <2>4. \A v \in Uploads : job'[v] = IF v = u THEN new ELSE job[v]
    BY <1>0, <2>1
  <2>5. NamedOf(u)'
    BY <2>2, <2>4 DEF Named, NamedOf
  <2>6. ASSUME NEW v \in Uploads, v # u PROVE NamedOf(v)'
    BY <2>2, <2>3, <2>4, <2>6, NamedKept DEF Named
  <2> QED
    BY <2>5, <2>6 DEF Named
<1>2. CASE Take
  <2>1. \A v \in Uploads : job'[v] = IF v = Head(inbox) THEN "taken" ELSE job[v]
    BY <1>2 DEF Take
  <2>2. Frame /\ UNCHANGED <<request, name, born, seen, crashes>>
    BY <1>2, OthersFrame DEF Take
  <2>3. Head(inbox) \in Uploads => job[Head(inbox)] = "queued"
    <3>1. inbox \in Seq(Uploads \union {Result}) /\ inbox # <<>>
      BY <1>2 DEF TypeOK, Take
    <3>2. 1 \in DOMAIN inbox /\ Head(inbox) = inbox[1]
      BY <3>1, TailFacts
    <3> QED
      BY <3>2 DEF Queued
  <2>4. \A v \in Uploads : job'[v] # "none" <=> job[v] # "none"
    BY <2>1, <2>3
  <2> QED
    BY <2>2, <2>4 DEF Named, NamedOf
<1>3. CASE MakeDir \/ Tick \/ Restart
  BY <1>3 DEF MakeDir, Tick, Restart, Named, NamedOf
<1>4. CASE Crash
  <2>1. /\ UNCHANGED <<name, born, seen, job>> /\ crashes' = crashes + 1 /\ crashes \in Nat
        /\ \A v \in Uploads : request'[v] =
             IF request[v] \in Served \union {"waiting"} THEN "lost" ELSE request[v]
    BY <1>4 DEF Crash, TypeOK
  <2>2. ASSUME NEW v \in Uploads PROVE NamedOf(v)'
    <3>1. NamedOf(v) /\ born[v] \in Nat
      BY Types DEF Named
    <3>2. request'[v] \notin Served /\ request'[v] \in {"lost", request[v]} /\ request'[v] # "waiting"
      BY <2>1 DEF Served
    <3>3. request[v] \in Served => request'[v] = "lost"
      BY <2>1
    <3>4. "handled" \in Served
      BY DEF Served
    <3>5. name'[v] # 0 => born'[v] <= crashes'
      BY <2>1, <3>1 DEF NamedOf
    <3>6. /\ request'[v] \in {"absent", "waiting", "refused"} => name'[v] = 0
          /\ request'[v] \in Served \union {"answered"} => name'[v] \in Seconds'
      BY <2>1, <3>1, <3>2 DEF NamedOf, Seconds
    <3>7. /\ job'[v] # "none" =>
               name'[v] \in Seconds' /\ request'[v] \in {"handled", "answered", "lost"}
          /\ seen'[v] # Unread' => job'[v] # "none"
      BY <2>1, <3>1, <3>2, <3>3, <3>4 DEF NamedOf, Seconds, Unread
    <3> QED
      BY <3>2, <3>5, <3>6, <3>7 DEF NamedOf, Served
  <2> QED
    BY <2>2 DEF Named
<1> QED
  BY <1>1, <1>2, <1>3, <1>4

LEMMA NextNamed == TypeOK /\ Named /\ Queued /\ [Next]_vars => Named'
<1> SUFFICES ASSUME TypeOK, Named, Queued, [Next]_vars PROVE Named'
  OBVIOUS
<1>1. CASE UNCHANGED vars
  BY <1>1 DEF vars, Named, NamedOf
<1> QED
  BY <1>1, HandlerNamed, OthersNamed DEF Next, Quiescent

LEMMA QueuedKept ==
  ASSUME Queued, inbox' = inbox, \A v \in Uploads : job[v] = "queued" => job'[v] = "queued"
  PROVE  Queued'
BY DEF Queued

LEMMA NextQueued == TypeOK /\ Named /\ Queued /\ [Next]_vars => Queued'
<1> SUFFICES ASSUME TypeOK, Named, Queued, [Next]_vars PROVE Queued'
  OBVIOUS
<1> USE DEF world, files, jobs, history
<1>0. /\ job \in [Uploads -> {"none", "queued", "taken", "inspected", "done", "failed", "dropped"}]
      /\ inbox \in Seq(Uploads \union {Result})
  BY DEF TypeOK
<1>1. ASSUME NEW u \in Uploads, Send(u) PROVE Queued'
  <2>1. /\ inbox' = Append(inbox, u) /\ job' = [job EXCEPT ![u] = "queued"]
        /\ job[u] = "none"
    BY <1>0, <1>1 DEF Send, Named, NamedOf
  <2>2. \A v \in Uploads : job'[v] = IF v = u THEN "queued" ELSE job[v]
    BY <1>0, <2>1
  <2>3. \A i \in DOMAIN inbox : inbox[i] # u
    BY <2>1 DEF Queued
  <2>4. /\ \A i \in DOMAIN inbox' : \/ i \in DOMAIN inbox /\ inbox'[i] = inbox[i]
                                    \/ i = Len(inbox) + 1 /\ inbox'[i] = u
    BY <1>0, <2>1, AppendFacts
  <2>5. ASSUME NEW i \in DOMAIN inbox', inbox'[i] \in Uploads
        PROVE  job'[inbox'[i]] = "queued"
    BY <2>2, <2>4, <2>5 DEF Queued
  <2>6. ASSUME NEW i \in DOMAIN inbox', NEW k \in DOMAIN inbox', inbox'[i] \in Uploads,
               inbox'[k] = inbox'[i]
        PROVE  i = k
    BY <2>3, <2>4, <2>6 DEF Queued
  <2> QED
    BY <2>5, <2>6 DEF Queued
<1>2. CASE Take
  <2>1. inbox # <<>> /\ inbox' = Tail(inbox)
    BY <1>2 DEF Take
  <2>2. /\ 1 \in DOMAIN inbox /\ Head(inbox) = inbox[1]
        /\ \A i \in DOMAIN inbox' : /\ i \in Nat /\ i + 1 \in DOMAIN inbox /\ i + 1 # 1
                                    /\ inbox'[i] = inbox[i + 1]
    BY <1>0, <2>1, TailFacts
  <2>3. \A v \in Uploads : job'[v] = IF v = Head(inbox) THEN "taken" ELSE job[v]
    BY <1>2 DEF Take
  <2>4. ASSUME NEW i \in DOMAIN inbox', inbox'[i] \in Uploads
        PROVE  job'[inbox'[i]] = "queued"
    <3>1. inbox'[i] # Head(inbox) /\ job[inbox'[i]] = "queued"
      BY <2>2, <2>4 DEF Queued
    <3> QED
      BY <2>3, <2>4, <3>1
  <2>5. ASSUME NEW i \in DOMAIN inbox', NEW k \in DOMAIN inbox', inbox'[i] \in Uploads,
               inbox'[k] = inbox'[i]
        PROVE  i = k
    <3>1. i + 1 = k + 1
      BY <2>2, <2>5 DEF Queued
    <3> QED
      BY <2>2, <3>1
  <2> QED
    BY <2>4, <2>5 DEF Queued
<1>3. ASSUME NEW u \in Uploads, Inspect(u) \/ Conclude(u) PROVE Queued'
  <2>1. /\ job[u] \in {"taken", "inspected"} /\ inbox' = inbox
        /\ \E new : job' = [job EXCEPT ![u] = new]
    BY <1>3 DEF Inspect, Conclude
  <2>2. \A v \in Uploads : v # u => job'[v] = job[v]
    BY <1>0, <2>1
  <2> QED
    BY <2>1, <2>2, QueuedKept
<1>4. ASSUME NEW u \in Uploads,
             \/ Arrive(u) \/ Refuse(u) \/ Name(u) \/ Open(u) \/ Write(u) \/ Move(u) \/ Answer(u)
      PROVE  Queued'
  BY <1>4, QueuedKept DEF Arrive, Refuse, Name, Open, Write, Move, Answer
<1>5. CASE MakeDir \/ Tick \/ Crash \/ Restart \/ UNCHANGED vars
  BY <1>5, QueuedKept DEF MakeDir, Tick, Crash, Restart, vars
<1> QED
  BY <1>1, <1>2, <1>3, <1>4, <1>5 DEF Next, Handler, Quiescent

----------------------------------------------------------------------------
(* The files: each is found only under the name of the upload it is of *)

Filed ==
  /\ \A n \in Seconds : incoming[n] # NoFile => name[incoming[n]] = n /\ "incoming" \in dirs
  /\ \A n \in Seconds : spool[n] # NoFile => name[spool[n]] = n
  /\ \A u \in Uploads : handle[u] # NoFile => name[handle[u]] = name[u] /\ name[u] # 0

LEMMA FiledKept ==
  ASSUME TypeOK, Filed, Frame, UNCHANGED <<handle, incoming>>, dirs \subseteq dirs',
         \A n \in Seconds : spool'[n] \in {NoFile, spool[n]}
  PROVE  Filed'
<1>1. \A v \in Uploads : name[v] # 0 => name'[v] = name[v]
  BY DEF Frame
<1>2. Seconds' = Seconds
  BY DEF Seconds
<1>3. ASSUME NEW n \in Seconds, incoming'[n] # NoFile
      PROVE  name'[incoming'[n]] = n /\ "incoming" \in dirs'
  BY <1>1, <1>3, Types DEF Filed
<1>4. ASSUME NEW n \in Seconds, spool'[n] # NoFile
      PROVE  name'[spool'[n]] = n
  <2>1. spool'[n] = spool[n] /\ spool[n] \in Uploads /\ name[spool[n]] = n /\ n # 0
    BY <1>4, Types DEF Filed
  <2> QED
    BY <1>1, <2>1
<1>5. ASSUME NEW u \in Uploads, handle'[u] # NoFile
      PROVE  name'[handle'[u]] = name'[u] /\ name'[u] # 0
  <2>1. handle'[u] = handle[u] /\ handle[u] \in Uploads /\ name[handle[u]] = name[u] /\ name[u] # 0
    BY <1>5, Types DEF Filed
  <2> QED
    BY <1>1, <2>1
<1> QED
  BY <1>2, <1>3, <1>4, <1>5 DEF Filed

LEMMA OpenFiled ==
  ASSUME TypeOK, Named, Filed, NEW u \in Uploads, Open(u)
  PROVE  Filed'
<1> DEFINE n == name[u]
           file == IF incoming[n] = NoFile THEN u ELSE incoming[n]
<1>1. n \in Seconds /\ n # 0
  BY Types DEF Open, Named, NamedOf, Served
<1>2. file \in Uploads /\ name[file] = n
  BY <1>1, Types DEF Filed
<1>3. UNCHANGED <<name, spool, dirs, LastSecond>>
  BY DEF Open, world
<1>4. CASE "incoming" \notin dirs
  BY <1>3, <1>4 DEF Open, Filed, Seconds
<1>5. CASE "incoming" \in dirs
  <2>1. /\ incoming' = [incoming EXCEPT ![n] = file]
        /\ handle' = [handle EXCEPT ![u] = file]
    BY <1>5 DEF Open
  <2> HIDE DEF file, n
  <2>2. \A m \in Seconds : incoming'[m] = IF m = n THEN file ELSE incoming[m]
    BY <2>1 DEF TypeOK
  <2>3. \A v \in Uploads : handle'[v] = IF v = u THEN file ELSE handle[v]
    BY <2>1 DEF TypeOK
  <2>4. name[u] = n
    BY DEF n
  <2> QED
    BY <1>1, <1>2, <1>3, <1>5, <2>2, <2>3, <2>4 DEF Filed, Seconds
<1> QED
  BY <1>4, <1>5

LEMMA MoveFiled ==
  ASSUME TypeOK, Named, Filed, NEW u \in Uploads, Move(u)
  PROVE  Filed'
<1> DEFINE n == name[u]
<1>1. UNCHANGED <<name, handle, dirs>>
  BY DEF Move, world
<1>2. CASE UNCHANGED <<incoming, spool>>
  BY <1>1, <1>2 DEF Filed, Seconds
<1>3. CASE ~UNCHANGED <<incoming, spool>>
  <2>1. /\ spool' = [spool EXCEPT ![n] = incoming[n]]
        /\ incoming' = [incoming EXCEPT ![n] = NoFile]
    BY <1>3 DEF Move
  <2> HIDE DEF n
  <2>2. \A m \in Seconds : spool'[m] = IF m = n THEN incoming[n] ELSE spool[m]
    BY <2>1 DEF TypeOK
  <2>3. \A m \in Seconds : incoming'[m] = IF m = n THEN NoFile ELSE incoming[m]
    BY <2>1 DEF TypeOK
  <2> QED
    BY <1>1, <2>2, <2>3 DEF Filed, Seconds
<1> QED
  BY <1>2, <1>3

LEMMA NextFiled == TypeOK /\ Named /\ Queued /\ Filed /\ [Next]_vars => Filed'
<1> SUFFICES ASSUME TypeOK, Named, Queued, Filed, [Next]_vars PROVE Filed'
  OBVIOUS
<1> USE DEF world, files, jobs, history
<1>0. Frame
  BY NextFrame
<1>1. ASSUME NEW u \in Uploads,
             Arrive(u) \/ Refuse(u) \/ Name(u) \/ Write(u) \/ Send(u) \/ Answer(u) \/ Inspect(u)
      PROVE  Filed'
  <2>1. UNCHANGED <<handle, incoming, spool, dirs>>
    BY <1>1 DEF Arrive, Refuse, Name, Write, Send, Answer, Inspect
  <2> QED
    BY <1>0, <2>1, FiledKept
<1>2. ASSUME NEW u \in Uploads, Conclude(u) PROVE Filed'
  <2>1. UNCHANGED <<handle, incoming, dirs>>
    BY <1>2 DEF Conclude
  <2>2. spool' = spool \/ spool' = [spool EXCEPT ![name[u]] = NoFile]
    BY <1>2 DEF Conclude
  <2>3. \A n \in Seconds : spool'[n] \in {NoFile, spool[n]}
    BY <2>2 DEF TypeOK
  <2> QED
    BY <1>0, <2>1, <2>3, FiledKept
<1>3. CASE MakeDir
  <2>1. UNCHANGED <<handle, incoming, spool>>
    BY <1>3 DEF MakeDir
  <2>2. dirs \subseteq dirs'
    BY <1>3 DEF MakeDir, TypeOK
  <2> QED
    BY <1>0, <2>1, <2>2, FiledKept
<1>4. CASE Take \/ Tick \/ Crash \/ Restart \/ UNCHANGED vars
  <2>1. UNCHANGED <<handle, incoming, spool, dirs>>
    BY <1>4 DEF Take, Tick, Crash, Restart, vars
  <2> QED
    BY <1>0, <2>1, FiledKept
<1> QED
  BY <1>1, <1>2, <1>3, <1>4, OpenFiled, MoveFiled DEF Next, Handler, Quiescent

----------------------------------------------------------------------------
(* A job under way finds a file *)

Found(n) == spool[n] # NoFile \/ \E v \in Uploads : name[v] = n /\ job[v] = "done"
UnderWay == {"queued", "taken", "inspected"}

\* From the rename on, not only from the send.
Findable ==
  \A u \in Uploads : request[u] = "moved" \/ job[u] \in UnderWay => Found(name[u])

LEMMA FindsFile == Findable => JobFindsFile
BY DEF Findable, Found, UnderWay, JobFindsFile

LEMMA FoundKept ==
  ASSUME TypeOK, Frame, NEW n \in Seconds, Found(n),
         spool'[n] # NoFile \/ spool[n] = NoFile
           \/ \E v \in Uploads : name'[v] = n /\ job'[v] = "done"
  PROVE  Found(n)'
<1>1. n # 0
  BY Types
<1>2. CASE \E v \in Uploads : name[v] = n /\ job[v] = "done"
  BY <1>1, <1>2 DEF Frame, Found
<1>3. CASE spool[n] # NoFile
  BY <1>3 DEF Found
<1> QED
  BY <1>2, <1>3 DEF Found

\* A step that takes no file away but for a job that is done.
LEMMA FindableKept ==
  ASSUME TypeOK, Named, Findable, Frame,
         \A u \in Uploads : request'[u] = "moved" \/ job'[u] \in UnderWay =>
           request[u] = "moved" \/ job[u] \in UnderWay,
         \A n \in Seconds : spool'[n] # NoFile \/ spool[n] = NoFile
           \/ \E v \in Uploads : name'[v] = n /\ job'[v] = "done"
  PROVE  Findable'
<1> SUFFICES ASSUME NEW u \in Uploads, request'[u] = "moved" \/ job'[u] \in UnderWay
             PROVE  Found(name[u])'
  BY DEF Findable, UnderWay
<1>1. request[u] = "moved" \/ job[u] \in UnderWay
  OBVIOUS
<1>2. name[u] \in Seconds /\ name[u] # 0
  BY <1>1, Types DEF Named, NamedOf, Served, UnderWay
<1>3. name'[u] = name[u]
  BY <1>2 DEF Frame
<1>4. Found(name[u])
  BY <1>1 DEF Findable
<1> DEFINE n == name[u]
<1>5. n \in Seconds /\ Found(n) /\ name'[u] = n
  BY <1>2, <1>3, <1>4
<1>6. \/ spool'[n] # NoFile \/ spool[n] = NoFile
      \/ \E v \in Uploads : name'[v] = n /\ job'[v] = "done"
  BY <1>5
<1> HIDE DEF n
<1>7. spool'[n] # NoFile \/ \E v \in Uploads : name'[v] = n /\ job'[v] = "done"
  BY <1>5, <1>6, FoundKept DEF Found
<1> QED
  BY <1>5, <1>7 DEF Found

LEMMA NextFindable == TypeOK /\ Named /\ Queued /\ Findable /\ [Next]_vars => Findable'
<1> SUFFICES ASSUME TypeOK, Named, Queued, Findable, [Next]_vars PROVE Findable'
  OBVIOUS
<1> USE DEF To, world, files, jobs, history
<1>0. /\ Frame
      /\ job \in [Uploads -> {"none", "queued", "taken", "inspected", "done", "failed", "dropped"}]
      /\ request \in [Uploads -> Served \union {"absent", "waiting", "refused", "answered", "lost"}]
  BY NextFrame DEF TypeOK
<1>1. ASSUME NEW u \in Uploads,
             Arrive(u) \/ Refuse(u) \/ Name(u) \/ Open(u) \/ Write(u) \/ Answer(u)
      PROVE  Findable'
  <2>1. UNCHANGED <<spool, job>>
    BY <1>1 DEF Arrive, Refuse, Name, Open, Write, Answer
  <2>2. \A v \in Uploads : request'[v] = "moved" => request[v] = "moved"
    BY <1>0, <1>1 DEF Arrive, Refuse, Name, Open, Write, Answer
  <2> QED
    BY <1>0, <2>1, <2>2, FindableKept
<1>2. ASSUME NEW u \in Uploads, Send(u) PROVE Findable'
  <2>1. /\ spool' = spool /\ request[u] = "moved"
        /\ \A v \in Uploads : v # u => request'[v] = request[v] /\ job'[v] = job[v]
    BY <1>0, <1>2 DEF Send
  <2> QED
    BY <1>0, <2>1, FindableKept
<1>3. ASSUME NEW u \in Uploads, Move(u) PROVE Findable'
  <2>1. CASE request'[u] # "moved"
    <3>1. UNCHANGED <<spool, job>>
      BY <1>0, <1>3, <2>1 DEF Move
    <3>2. \A v \in Uploads : request'[v] = "moved" => request[v] = "moved"
      BY <1>0, <1>3, <2>1 DEF Move
    <3> QED
      BY <1>0, <3>1, <3>2, FindableKept
  <2>2. CASE request'[u] = "moved"
    <3>1. /\ UNCHANGED <<job, name>> /\ incoming[name[u]] # NoFile
          /\ spool' = [spool EXCEPT ![name[u]] = incoming[name[u]]]
          /\ request[u] = "written"
      BY <1>0, <1>3, <2>2 DEF Move
    <3>2. name[u] \in Seconds
      BY <3>1 DEF Named, NamedOf, Served
    <3>3. spool'[name[u]] # NoFile /\ \A n \in Seconds : n # name[u] => spool'[n] = spool[n]
      BY <3>1, <3>2 DEF TypeOK
    <3>4. \A v \in Uploads : v # u => request'[v] = request[v]
      BY <1>0, <1>3 DEF Move
    <3>5. ASSUME NEW v \in Uploads, request'[v] = "moved" \/ job'[v] \in UnderWay
          PROVE  Found(name[v])'
      <4>1. CASE name[v] = name[u]
        BY <3>1, <3>3, <4>1 DEF Found
      <4>2. CASE name[v] # name[u]
        <5>1. request[v] = "moved" \/ job[v] \in UnderWay
          BY <3>1, <3>4, <3>5, <4>2
        <5>2. Found(name[v]) /\ name[v] \in Seconds
          BY <5>1 DEF Findable, Named, NamedOf, Served, UnderWay
        <5> QED
          BY <3>1, <3>3, <4>2, <5>2 DEF Found
      <4> QED
        BY <4>1, <4>2
    <3> QED
      BY <3>5 DEF Findable, UnderWay
  <2> QED
    BY <2>1, <2>2
<1>4. ASSUME NEW u \in Uploads, Inspect(u) PROVE Findable'
  <2>1. /\ UNCHANGED <<spool, request>> /\ job[u] = "taken"
        /\ \A v \in Uploads : v # u => job'[v] = job[v]
    BY <1>0, <1>4 DEF Inspect
  <2> QED
    BY <1>0, <2>1, FindableKept DEF UnderWay
<1>5. ASSUME NEW u \in Uploads, Conclude(u) PROVE Findable'
  <2>1. /\ UNCHANGED <<request, name>> /\ job[u] = "inspected"
        /\ \A v \in Uploads : v # u => job'[v] = job[v]
    BY <1>0, <1>5 DEF Conclude
  <2>2. ASSUME NEW n \in Seconds
        PROVE  \/ spool'[n] # NoFile \/ spool[n] = NoFile
               \/ \E v \in Uploads : name'[v] = n /\ job'[v] = "done"
    <3>1. CASE spool' = spool
      BY <3>1
    <3>2. CASE job'[u] = "done" /\ spool' = [spool EXCEPT ![name[u]] = NoFile]
      BY <2>1, <3>2 DEF TypeOK
    <3> QED
      BY <1>0, <1>5, <3>1, <3>2 DEF Conclude
  <2> QED
    BY <1>0, <2>1, <2>2, FindableKept DEF UnderWay
<1>6. CASE Take
  <2>1. /\ UNCHANGED <<spool, request>>
        /\ \A v \in Uploads : job'[v] = IF v = Head(inbox) THEN "taken" ELSE job[v]
    BY <1>6 DEF Take
  <2>2. Head(inbox) \in Uploads => job[Head(inbox)] = "queued"
    <3>1. inbox \in Seq(Uploads \union {Result}) /\ inbox # <<>>
      BY <1>6 DEF TypeOK, Take
    <3>2. 1 \in DOMAIN inbox /\ Head(inbox) = inbox[1]
      BY <3>1, TailFacts
    <3> QED
      BY <3>2 DEF Queued
  <2>3. \A v \in Uploads : job'[v] \in UnderWay => job[v] \in UnderWay
    BY <2>1, <2>2 DEF UnderWay
  <2> QED
    BY <1>0, <2>1, <2>3, FindableKept
<1>7. CASE Crash
  <2>1. /\ UNCHANGED <<spool, job>>
        /\ \A v \in Uploads : request'[v] = "moved" => request[v] = "moved"
    BY <1>7 DEF Crash
  <2> QED
    BY <1>0, <2>1, FindableKept
<1>8. CASE MakeDir \/ Tick \/ Restart \/ UNCHANGED vars
  <2>1. UNCHANGED <<spool, job, request>>
    BY <1>8 DEF MakeDir, Tick, Restart, vars
  <2> QED
    BY <1>0, <2>1, FindableKept
<1> QED
  BY <1>1, <1>2, <1>3, <1>4, <1>5, <1>6, <1>7, <1>8 DEF Next, Handler, Quiescent

----------------------------------------------------------------------------
(* Of the uploads of one name, somebody is submitted *)

\* A job of that name was sent, is about to be, or its request was cut off.
Someone(n) ==
  \E v \in Uploads : name[v] = n /\ (job[v] # "none" \/ request[v] \in {"moved", "lost"})

\* As long as nobody has been, the file of that name is where the rename of
\* each of them will find it.
RenamedOf(u) ==
  /\ request[u] \in {"open", "written"} => incoming[name[u]] # NoFile \/ Someone(name[u])
  /\ request[u] \in {"handled", "answered"} => Someone(name[u])

Renamed == \A u \in Uploads \ early : RenamedOf(u)

\* Who was named with a directory missing is known.
Early ==
  \A u \in Uploads : request[u] \in Served \union {"answered"} /\ "new" \notin dirs => u \in early

LEMMA SubmittedIs == Renamed => SomeoneSubmitted
BY DEF Renamed, RenamedOf, Someone, SomeoneSubmitted

LEMMA RequestSteps ==
  ASSUME TypeOK, [Next]_vars, NEW v \in Uploads
  PROVE  /\ request[v] = "lost" => request'[v] = "lost"
         /\ request[v] = "moved" => request'[v] \in {"moved", "lost"} \/ job'[v] # "none"
         /\ request'[v] \in Served \union {"answered"} /\ request[v] \notin Served \union {"answered"} =>
              Name(v)
         /\ early \subseteq early' /\ dirs \subseteq dirs'
<1> USE DEF To, world, files, jobs, history
<1>0. /\ job \in [Uploads -> {"none", "queued", "taken", "inspected", "done", "failed", "dropped"}]
      /\ request \in [Uploads -> Served \union {"absent", "waiting", "refused", "answered", "lost"}]
  BY DEF TypeOK
<1>1. ASSUME NEW u \in Uploads, Send(u)
      PROVE  /\ request[u] = "moved" /\ request'[u] = "handled" /\ job'[u] = "queued"
             /\ UNCHANGED <<early, dirs>>
             /\ \A w \in Uploads : w # u => request'[w] = request[w]
  BY <1>0, <1>1 DEF Send
<1>2. ASSUME NEW u \in Uploads,
             Arrive(u) \/ Refuse(u) \/ Open(u) \/ Write(u) \/ Move(u) \/ Answer(u)
      PROVE  /\ UNCHANGED <<early, dirs>> /\ request[u] \notin {"lost", "moved"}
             /\ request[u] \in {"absent", "waiting"} => request'[u] \in {"waiting", "refused"}
             /\ request[u] \in {"absent", "waiting"} \union Served
             /\ \A w \in Uploads : w # u => request'[w] = request[w]
  BY <1>0, <1>2 DEF Arrive, Refuse, Open, Write, Move, Answer, Served
<1>3. ASSUME NEW u \in Uploads, Name(u)
      PROVE  /\ dirs' = dirs /\ early \subseteq early' /\ request[u] = "waiting"
             /\ \A w \in Uploads : w # u => request'[w] = request[w]
  BY <1>0, <1>3 DEF Name
<1>4. ASSUME NEW u \in Uploads, Inspect(u) \/ Conclude(u)
      PROVE  UNCHANGED <<early, dirs, request>>
  BY <1>4 DEF Inspect, Conclude
<1>5. ASSUME Take \/ Tick \/ Restart \/ UNCHANGED vars
      PROVE  UNCHANGED <<early, dirs, request>>
  BY <1>5 DEF Take, Tick, Restart, vars
<1>6. ASSUME MakeDir
      PROVE  UNCHANGED <<early, request>> /\ dirs \subseteq dirs'
  BY <1>6 DEF MakeDir, TypeOK
<1>7. ASSUME Crash
      PROVE  /\ UNCHANGED <<early, dirs>>
             /\ \A w \in Uploads :
                  request'[w] = IF request[w] \in Served \union {"waiting"} THEN "lost" ELSE request[w]
  BY <1>7 DEF Crash
<1>8. "moved" \in Served /\ "waiting" \notin Served \union {"answered"} /\ "lost" \notin Served
      /\ "refused" \notin Served \union {"answered"} /\ "handled" \in Served
  BY DEF Served
<1>9. CASE \E u \in Uploads : Arrive(u) \/ Handler(u)
  BY <1>1, <1>2, <1>3, <1>8, <1>9 DEF Handler
<1>10. CASE ~\E u \in Uploads : Arrive(u) \/ Handler(u)
  BY <1>4, <1>5, <1>6, <1>7, <1>8, <1>10 DEF Next, Quiescent
<1> QED
  BY <1>9, <1>10

LEMMA SomeoneKept ==
  ASSUME TypeOK, Frame, [Next]_vars, NEW n \in Seconds, Someone(n)
  PROVE  Someone(n)'
<1>1. PICK v \in Uploads : name[v] = n /\ (job[v] # "none" \/ request[v] \in {"moved", "lost"})
  BY DEF Someone
<1>2. name'[v] = n
  BY <1>1, Types DEF Frame
<1>3. job'[v] # "none" \/ request'[v] \in {"moved", "lost"}
  BY <1>1, RequestSteps DEF Frame
<1> QED
  BY <1>2, <1>3 DEF Someone

LEMMA NextEarly == TypeOK /\ Early /\ [Next]_vars => Early'
<1> SUFFICES ASSUME TypeOK, Early, [Next]_vars, NEW u \in Uploads,
                    request'[u] \in Served \union {"answered"}, "new" \notin dirs'
             PROVE  u \in early'
  BY DEF Early, Served
<1>1. CASE request[u] \in Served \union {"answered"}
  BY <1>1, RequestSteps DEF Early
<1>2. CASE request[u] \notin Served \union {"answered"}
  <2>1. Name(u)
    BY <1>2, RequestSteps
  <2> QED
    BY <2>1 DEF Name, world
<1> QED
  BY <1>1, <1>2

\* Only a rename takes a file out of "incoming", and that upload is about to
\* be submitted.
LEMMA IncomingSteps ==
  ASSUME TypeOK, Named, Queued, Filed, [Next]_vars, NEW n \in Seconds, incoming[n] # NoFile
  PROVE  incoming'[n] # NoFile \/ Someone(n)'
<1> USE DEF To, world, files, jobs, history
<1>1. ASSUME NEW u \in Uploads, Move(u) PROVE incoming'[n] # NoFile \/ Someone(n)'
  <2>1. CASE incoming' = incoming
    BY <2>1
  <2>2. CASE /\ incoming' = [incoming EXCEPT ![name[u]] = NoFile]
             /\ request' = [request EXCEPT ![u] = "moved"]
    <3>1. CASE n = name[u]
      <4>1. name' = name /\ request'[u] = "moved"
        BY <1>1, <2>2 DEF Move, TypeOK
      <4> QED
        BY <3>1, <4>1 DEF Someone
    <3>2. CASE n # name[u]
      BY <2>2, <3>2 DEF TypeOK
    <3> QED
      BY <3>1, <3>2
  <2> QED
    BY <1>1, <2>1, <2>2 DEF Move
<1>2. ASSUME NEW u \in Uploads, Open(u) PROVE incoming'[n] # NoFile
  <2>1. name[u] \in Seconds
    BY <1>2 DEF Open, Named, NamedOf, Served
  <2>2. \/ incoming' = incoming
        \/ \E f \in {u, incoming[name[u]]} : f # NoFile /\ incoming' = [incoming EXCEPT ![name[u]] = f]
    BY <1>2, IngestAssumption DEF Open
  <2> QED
    BY <2>1, <2>2 DEF TypeOK
<1>3. ASSUME NEW u \in Uploads,
             \/ Arrive(u) \/ Refuse(u) \/ Name(u) \/ Write(u) \/ Send(u) \/ Answer(u)
             \/ Inspect(u) \/ Conclude(u)
      PROVE  incoming' = incoming
  BY <1>3 DEF Arrive, Refuse, Name, Write, Send, Answer, Inspect, Conclude
<1>4. ASSUME MakeDir \/ Take \/ Tick \/ Crash \/ Restart \/ UNCHANGED vars
      PROVE  incoming' = incoming
  BY <1>4 DEF MakeDir, Take, Tick, Crash, Restart, vars
<1> QED
  BY <1>1, <1>2, <1>3, <1>4 DEF Next, Handler, Quiescent

LEMMA NextRenamed ==
  TypeOK /\ Named /\ Queued /\ Filed /\ Early /\ Renamed /\ [Next]_vars => Renamed'
<1> SUFFICES ASSUME TypeOK, Named, Queued, Filed, Early, Renamed, [Next]_vars,
                    NEW u \in Uploads, u \notin early'
             PROVE  RenamedOf(u)'
  BY DEF Renamed
<1> USE DEF To, world, files, jobs, history
<1>0. /\ Frame /\ u \notin early
      /\ request \in [Uploads -> Served \union {"absent", "waiting", "refused", "answered", "lost"}]
  BY NextFrame, RequestSteps DEF TypeOK
<1>a. PICK n : n = name[u]
  OBVIOUS
<1>1. RenamedOf(u)
  BY <1>0 DEF Renamed
<1>2. ASSUME n \in Seconds PROVE n # 0 /\ name'[u] = n
  BY <1>a, <1>0, <1>2, Types DEF Frame
<1>3. CASE request'[u] = request[u]
  <2>1. CASE request[u] \in {"open", "written", "handled", "answered"}
    <3>1. n \in Seconds
      BY <1>a, <2>1 DEF Named, NamedOf, Served
    <3>2. name'[u] = n
      BY <1>2, <3>1
    <3>3. (incoming[n] # NoFile => incoming'[n] # NoFile \/ Someone(n)') /\ (Someone(n) => Someone(n)')
      BY <1>0, <3>1, IncomingSteps, SomeoneKept
    <3> QED
      BY <1>a, <1>1, <1>3, <3>2, <3>3 DEF RenamedOf, Someone
  <2>2. CASE request[u] \notin {"open", "written", "handled", "answered"}
    BY <1>3, <2>2 DEF RenamedOf
  <2> QED
    BY <2>1, <2>2
<1>4. CASE request'[u] \notin {"open", "written", "handled", "answered"}
  BY <1>4 DEF RenamedOf
<1>5. CASE Open(u)
  <2>1. n \in Seconds /\ "new" \in dirs
    BY <1>a, <1>0, <1>5 DEF Open, Named, NamedOf, Served, Early
  <2>2. "incoming" \in dirs
    BY <2>1 DEF TypeOK
  <2>3. \E f \in {u, incoming[n]} : f # NoFile /\ incoming' = [incoming EXCEPT ![n] = f]
    BY <1>a, <1>5, <2>2, IngestAssumption DEF Open
  <2>4. incoming'[n] # NoFile
    BY <2>1, <2>3 DEF TypeOK
  <2>5. request'[u] = "open" /\ name'[u] = n
    BY <1>a, <1>0, <1>5 DEF Open
  <2> QED
    BY <1>a, <2>4, <2>5 DEF RenamedOf
<1>6. CASE Write(u)
  <2>1. request[u] = "open" /\ request'[u] = "written" /\ UNCHANGED <<incoming, name, job>>
    BY <1>0, <1>6 DEF Write
  <2>2. n \in Seconds
    BY <1>a, <2>1 DEF Named, NamedOf, Served
  <2>3. (Someone(n) => Someone(n)')
    BY <1>0, <2>2, SomeoneKept
  <2> QED
    BY <1>a, <1>1, <2>1, <2>3 DEF RenamedOf, Someone
<1>7. CASE Move(u) /\ request'[u] = "handled"
  <2>1. request[u] = "written" /\ "new" \in dirs /\ name' = name
    BY <1>0, <1>7 DEF Move, Early, Served
  <2>2. incoming[n] = NoFile
    BY <1>a, <1>0, <1>7, <2>1 DEF Move
  <2>3. n \in Seconds /\ Someone(n)
    BY <1>a, <1>1, <2>1, <2>2 DEF RenamedOf, Named, NamedOf, Served
  <2>4. Someone(n)'
    BY <1>0, <2>3, SomeoneKept
  <2> QED
    BY <1>a, <1>7, <2>1, <2>4 DEF RenamedOf, Someone
<1>8. CASE Send(u)
  <2>1. name' = name /\ request'[u] = "handled" /\ job'[u] = "queued"
    BY <1>0, <1>8 DEF Send, TypeOK
  <2> QED
    BY <2>1 DEF RenamedOf, Someone
<1>9. CASE Answer(u)
  <2>1. request[u] = "handled" /\ request'[u] = "answered" /\ name' = name
    BY <1>0, <1>9 DEF Answer
  <2>2. n \in Seconds /\ Someone(n)
    BY <1>a, <1>1, <2>1 DEF RenamedOf, Named, NamedOf, Served
  <2>3. Someone(n)'
    BY <1>0, <2>2, SomeoneKept
  <2> QED
    BY <1>a, <2>1, <2>3 DEF RenamedOf, Someone
<1>10. \/ request'[u] = request[u] \/ request'[u] \notin {"open", "written", "handled", "answered"}
       \/ Open(u) \/ Write(u) \/ (Move(u) /\ request'[u] = "handled") \/ Send(u) \/ Answer(u)
  <2>1. ASSUME NEW v \in Uploads, v # u, Arrive(v) \/ Handler(v)
        PROVE  request'[u] = request[u]
    BY <1>0, <2>1 DEF Arrive, Handler, Refuse, Name, Open, Write, Move, Send, Answer
  <2>2. ASSUME Arrive(u) \/ Refuse(u) \/ Name(u)
        PROVE  request'[u] \in {"waiting", "refused", "named"}
    BY <1>0, <2>2 DEF Arrive, Refuse, Name
  <2>3. ASSUME Move(u) PROVE request'[u] \in {"moved", "handled"}
    BY <1>0, <2>3 DEF Move
  <2>4. ASSUME NEW v \in Uploads, Inspect(v) \/ Conclude(v) PROVE request'[u] = request[u]
    BY <2>4 DEF Inspect, Conclude
  <2>5. ASSUME MakeDir \/ Take \/ Tick \/ Restart \/ UNCHANGED vars PROVE request'[u] = request[u]
    BY <2>5 DEF MakeDir, Take, Tick, Restart, vars
  <2>6. ASSUME Crash PROVE request'[u] \in {request[u], "lost"}
    BY <2>6 DEF Crash
  <2>7. CASE \E v \in Uploads : Arrive(v) \/ Handler(v)
    BY <2>1, <2>2, <2>3, <2>7 DEF Handler
  <2>8. CASE ~\E v \in Uploads : Arrive(v) \/ Handler(v)
    BY <2>4, <2>5, <2>6, <2>8 DEF Next, Quiescent
  <2> QED
    BY <2>7, <2>8
<1> QED
  BY <1>3, <1>4, <1>5, <1>6, <1>7, <1>8, <1>9, <1>10

----------------------------------------------------------------------------
(* What detect inspects is the upload's own body *)

Alone(u) == \A v \in Uploads : ~Rivals(u, v)

\* The way of an upload's body under the name n: its ofstream is open on the
\* emptied file of that name, which then holds the body and nothing else, in
\* "incoming" and after the rename in "new", until detect reads it.
OwnAt(u, n) ==
  /\ request[u] = "open" =>
       handle[u] = incoming[n] /\ (handle[u] # NoFile => bytes[handle[u]] = {})
  /\ request[u] = "written" /\ incoming[n] # NoFile => bytes[incoming[n]] = {u}
  /\ request[u] = "moved" \/ job[u] \in {"queued", "taken"} =>
       spool[n] # NoFile /\ bytes[spool[n]] = {u}
  /\ seen[u] # Unread => seen[u] = {u}

Own == \A u \in Uploads : Alone(u) => OwnAt(u, name[u])

\* No ofstream is open before its time.
Unopened == \A u \in Uploads : request[u] = "named" => handle[u] = NoFile

LEMMA InspectsIs == Own => InspectsOwn
BY DEF Own, OwnAt, Alone, InspectsOwn

\* Rivals stay rivals.
LEMMA AloneBefore ==
  ASSUME TypeOK, Frame, NEW u \in Uploads, name[u] # 0, Alone(u)'
  PROVE  Alone(u)
<1> SUFFICES ASSUME NEW v \in Uploads, Rivals(u, v) PROVE FALSE
  BY DEF Alone
<1>1. u # v /\ name[v] = name[u] /\ ~(born[v] < born[u] /\ job[v] = "none")
  BY DEF Rivals
<1>2. /\ name'[u] = name[u] /\ name'[v] = name[v] /\ born'[u] = born[u] /\ born'[v] = born[v]
      /\ job'[v] = "none" => job[v] = "none"
  BY <1>1 DEF Frame
<1>3. Rivals(u, v)'
  BY <1>1, <1>2 DEF Rivals
<1> QED
  BY <1>3 DEF Alone

\* Of the others of its name, none is being served and none has a job.
LEMMA AloneMeans ==
  ASSUME TypeOK, Named, NEW u \in Uploads, name[u] # 0, Alone(u),
         NEW v \in Uploads, v # u, name[v] = name[u]
  PROVE  request[v] \notin Served /\ job[v] = "none"
<1>1. born[v] < born[u] /\ job[v] = "none"
  BY DEF Alone, Rivals
<1>2. born[u] <= crashes /\ born[u] \in Nat /\ born[v] \in Nat /\ crashes \in Nat
  BY Types DEF Named, NamedOf
<1>3. request[v] \in Served => born[v] = crashes
  BY DEF Named, NamedOf
<1> QED
  BY <1>1, <1>2, <1>3

LEMMA JobStarts ==
  ASSUME TypeOK, Queued, [Next]_vars, NEW u \in Uploads, job[u] = "none"
  PROVE  job'[u] = "none" \/ Send(u)
<1> USE DEF world, files, jobs, history
<1>0. job \in [Uploads -> {"none", "queued", "taken", "inspected", "done", "failed", "dropped"}]
  BY DEF TypeOK
<1>1. ASSUME NEW v \in Uploads, Inspect(v) \/ Conclude(v) PROVE job'[u] = "none"
  <2>1. v # u /\ \E new : job' = [job EXCEPT ![v] = new]
    BY <1>1 DEF Inspect, Conclude
  <2> QED
    BY <1>0, <2>1
<1>2. CASE Take
  <2>1. inbox \in Seq(Uploads \union {Result}) /\ inbox # <<>>
    BY <1>2 DEF TypeOK, Take
  <2>2. 1 \in DOMAIN inbox /\ Head(inbox) = inbox[1]
    BY <2>1, TailFacts
  <2>3. Head(inbox) # u
    BY <2>2 DEF Queued
  <2> QED
    BY <1>2, <2>3 DEF Take
<1>3. ASSUME NEW v \in Uploads, v # u, Send(v) PROVE job'[u] = "none"
  BY <1>0, <1>3 DEF Send
<1>4. ASSUME NEW v \in Uploads,
             \/ Arrive(v) \/ Refuse(v) \/ Name(v) \/ Open(v) \/ Write(v) \/ Move(v) \/ Answer(v)
      PROVE  job' = job
  BY <1>4 DEF Arrive, Refuse, Name, Open, Write, Move, Answer
<1>5. ASSUME MakeDir \/ Tick \/ Crash \/ Restart \/ UNCHANGED vars
      PROVE  job' = job
  BY <1>5 DEF MakeDir, Tick, Crash, Restart, vars
<1>6. CASE \E v \in Uploads : Arrive(v) \/ Handler(v)
  BY <1>3, <1>4, <1>6 DEF Handler
<1>7. CASE ~\E v \in Uploads : Arrive(v) \/ Handler(v)
  BY <1>1, <1>2, <1>5, <1>7 DEF Next, Quiescent
<1> QED
  BY <1>6, <1>7

LEMMA NextUnopened == TypeOK /\ Named /\ Filed /\ Unopened /\ [Next]_vars => Unopened'
<1> SUFFICES ASSUME TypeOK, Named, Filed, Unopened, [Next]_vars,
                    NEW u \in Uploads, request'[u] = "named"
             PROVE  handle'[u] = NoFile
  BY DEF Unopened
<1> USE DEF To, world, files, jobs, history
<1>0. /\ handle \in [Uploads -> Uploads \union {NoFile}]
      /\ request \in [Uploads -> Served \union {"absent", "waiting", "refused", "answered", "lost"}]
  BY DEF TypeOK
<1>1. handle[u] = NoFile
  <2>1. CASE request[u] \in Served \union {"answered"}
    <3>1. request[u] = "named" \/ request'[u] = request[u] \/ request'[u] # "named"
      <4>1. ASSUME NEW v \in Uploads, Arrive(v) \/ Handler(v)
            PROVE  v = u => request'[u] # "named" \/ Name(u)
        BY <1>0, <4>1 DEF Arrive, Handler, Refuse, Open, Write, Move, Send, Answer
      <4>2. ASSUME NEW v \in Uploads, v # u, Arrive(v) \/ Handler(v)
            PROVE  request'[u] = request[u]
        BY <1>0, <4>2 DEF Arrive, Handler, Refuse, Name, Open, Write, Move, Send, Answer
      <4>3. ~Name(u)
        BY <2>1 DEF Name, Served
      <4>4. CASE \E v \in Uploads : Arrive(v) \/ Handler(v)
        BY <4>1, <4>2, <4>3, <4>4
      <4>5. CASE ~\E v \in Uploads : Arrive(v) \/ Handler(v)
        <5>1. ASSUME NEW v \in Uploads, Inspect(v) \/ Conclude(v) PROVE request' = request
          BY <5>1 DEF Inspect, Conclude
        <5>2. ASSUME MakeDir \/ Take \/ Tick \/ Restart \/ UNCHANGED vars PROVE request' = request
          BY <5>2 DEF MakeDir, Take, Tick, Restart, vars
        <5>3. ASSUME Crash PROVE request'[u] \in {request[u], "lost"}
          BY <5>3 DEF Crash
        <5> QED
          BY <4>5, <5>1, <5>2, <5>3 DEF Next, Quiescent
      <4> QED
        BY <4>4, <4>5
    <3> QED
      BY <3>1 DEF Unopened
  <2>2. CASE request[u] \notin Served \union {"answered"}
    <3>1. Name(u)
      BY <2>2, RequestSteps DEF Served
    <3>2. name[u] = 0
      BY <3>1 DEF Name, Named, NamedOf
    <3> QED
      BY <3>2 DEF Filed
  <2> QED
    BY <2>1, <2>2
<1>2. ASSUME NEW v \in Uploads, Open(v) PROVE handle'[u] = handle[u]
  <2>1. v # u
    BY <1>0, <1>2 DEF Open
  <2> QED
    BY <1>0, <1>2, <2>1 DEF Open
<1>3. ASSUME NEW v \in Uploads,
             \/ Arrive(v) \/ Refuse(v) \/ Name(v) \/ Write(v) \/ Move(v) \/ Send(v) \/ Answer(v)
             \/ Inspect(v) \/ Conclude(v)
      PROVE  handle' = handle
  BY <1>3 DEF Arrive, Refuse, Name, Write, Move, Send, Answer, Inspect, Conclude
<1>4. ASSUME MakeDir \/ Take \/ Tick \/ Crash \/ Restart \/ UNCHANGED vars
      PROVE  handle' = handle
  BY <1>4 DEF MakeDir, Take, Tick, Crash, Restart, vars
<1> QED
  BY <1>1, <1>2, <1>3, <1>4 DEF Next, Handler, Quiescent

\* A step that leaves alone the files of the name n, and u's own request, job
\* and reading, except that it may end them.
LEMMA OwnKept ==
  ASSUME TypeOK, Filed, NEW u \in Uploads, NEW n \in Seconds, name[u] = n, OwnAt(u, n),
         request'[u] = request[u] \/ request'[u] \notin {"open", "written", "moved"},
         job'[u] \in {"queued", "taken"} => job[u] \in {"queued", "taken"} \/ request[u] = "moved",
         seen'[u] = seen[u], handle'[u] = handle[u],
         incoming'[n] = incoming[n],
         job'[u] \in {"queued", "taken"} \/ request'[u] = "moved" => spool'[n] = spool[n],
         \A f \in Uploads : name[f] = n => bytes'[f] = bytes[f]
  PROVE  OwnAt(u, n)'
<1>1. incoming[n] # NoFile => bytes'[incoming[n]] = bytes[incoming[n]]
  BY Types DEF Filed
<1>2. spool[n] # NoFile => bytes'[spool[n]] = bytes[spool[n]]
  BY Types DEF Filed
<1>3. handle[u] # NoFile => bytes'[handle[u]] = bytes[handle[u]]
  BY Types DEF Filed
<1>4. request'[u] = "open" =>
        handle'[u] = incoming'[n] /\ (handle'[u] # NoFile => bytes'[handle'[u]] = {})
  BY <1>3 DEF OwnAt
<1>5. request'[u] = "written" /\ incoming'[n] # NoFile => bytes'[incoming'[n]] = {u}
  BY <1>1 DEF OwnAt
<1>6. request'[u] = "moved" \/ job'[u] \in {"queued", "taken"} =>
        spool'[n] # NoFile /\ bytes'[spool'[n]] = {u}
  BY <1>2 DEF OwnAt
<1>7. seen'[u] # Unread' => seen'[u] = {u}
  BY DEF OwnAt, Unread
<1> QED
  BY <1>4, <1>5, <1>6, <1>7 DEF OwnAt

\* The steps of a request of another name.
LEMMA OthersOwn ==
  ASSUME TypeOK, Named, Filed, NEW u \in Uploads, NEW n \in Seconds, name[u] = n, OwnAt(u, n),
         NEW v \in Uploads, v # u, name[v] # n \/ request[v] \notin Served,
         Arrive(v) \/ Handler(v)
  PROVE  OwnAt(u, n)'
<1> USE DEF To, world, files, jobs, history
<1>0. /\ request \in [Uploads -> Served \union {"absent", "waiting", "refused", "answered", "lost"}]
      /\ job \in [Uploads -> {"none", "queued", "taken", "inspected", "done", "failed", "dropped"}]
      /\ handle \in [Uploads -> Uploads \union {NoFile}]
      /\ bytes \in [Uploads -> SUBSET Uploads]
      /\ incoming \in [Seconds -> Uploads \union {NoFile}]
      /\ spool \in [Seconds -> Uploads \union {NoFile}]
  BY DEF TypeOK
<1>1. request'[u] = request[u] /\ job'[u] = job[u] /\ seen' = seen
  BY <1>0 DEF Arrive, Handler, Refuse, Name, Open, Write, Move, Send, Answer
<1>2. CASE Arrive(v) \/ Refuse(v) \/ Name(v) \/ Send(v) \/ Answer(v)
  <2>1. UNCHANGED <<handle, incoming, spool, bytes>>
    BY <1>2 DEF Arrive, Refuse, Name, Send, Answer
  <2> QED
    BY <1>1, <2>1, OwnKept
<1>3. CASE Open(v)
  <2>1. name[v] # n /\ name[v] \in Seconds
    BY <1>3 DEF Open, Served, Named, NamedOf
  <2> DEFINE file == IF incoming[name[v]] = NoFile THEN v ELSE incoming[name[v]]
  <2>2. file \in Uploads /\ name[file] = name[v]
    BY <1>0, <2>1 DEF Filed
  <2>3. /\ spool' = spool
        /\ incoming' = incoming \/ incoming' = [incoming EXCEPT ![name[v]] = file]
        /\ handle' = handle \/ handle' = [handle EXCEPT ![v] = file]
        /\ bytes' = bytes \/ bytes' = [bytes EXCEPT ![file] = {}]
    BY <1>3 DEF Open
  <2> HIDE DEF file
  <2>4. incoming'[n] = incoming[n] /\ handle'[u] = handle[u]
    BY <1>0, <2>1, <2>3
  <2>5. \A f \in Uploads : name[f] = n => bytes'[f] = bytes[f]
    BY <1>0, <2>1, <2>2, <2>3
  <2> QED
    BY <1>1, <2>3, <2>4, <2>5, OwnKept
<1>4. CASE Write(v)
  <2>1. name[v] # n
    BY <1>4 DEF Write, Served
  <2>2. UNCHANGED <<handle, incoming, spool>>
    BY <1>4 DEF Write
  <2>3. \A f \in Uploads : name[f] = n => bytes'[f] = bytes[f]
    <3>1. CASE handle[v] = NoFile
      BY <1>4, <3>1 DEF Write
    <3>2. CASE handle[v] # NoFile
      <4>1. name[handle[v]] # n
        BY <2>1, <3>2 DEF Filed
      <4> QED
        BY <1>0, <1>4, <3>2, <4>1 DEF Write
    <3> QED
      BY <3>1, <3>2
  <2> QED
    BY <1>1, <2>2, <2>3, OwnKept
<1>5. CASE Move(v)
  <2>1. name[v] # n
    BY <1>5 DEF Move, Served
  <2>2. UNCHANGED <<handle, bytes>> /\ incoming'[n] = incoming[n] /\ spool'[n] = spool[n]
    BY <1>0, <1>5, <2>1 DEF Move
  <2> QED
    BY <1>1, <2>2, OwnKept
<1> QED
  BY <1>2, <1>3, <1>4, <1>5 DEF Handler

\* Its own.
LEMMA HandlerOwn ==
  ASSUME TypeOK, Named, Filed, Unopened, NEW u \in Uploads, NEW n \in Seconds, name[u] = n,
         OwnAt(u, n), Arrive(u) \/ Handler(u)
  PROVE  OwnAt(u, n)'
<1> USE DEF To, world, files, jobs, history
<1>0. /\ request \in [Uploads -> Served \union {"absent", "waiting", "refused", "answered", "lost"}]
      /\ job \in [Uploads -> {"none", "queued", "taken", "inspected", "done", "failed", "dropped"}]
      /\ handle \in [Uploads -> Uploads \union {NoFile}]
      /\ bytes \in [Uploads -> SUBSET Uploads]
      /\ incoming \in [Seconds -> Uploads \union {NoFile}]
      /\ spool \in [Seconds -> Uploads \union {NoFile}]
  BY DEF TypeOK
<1>1. n # 0 /\ seen' = seen
  BY Types DEF Arrive, Handler, Refuse, Name, Open, Write, Move, Send, Answer
<1>2. ~(Arrive(u) \/ Refuse(u) \/ Name(u))
  BY <1>1 DEF Arrive, Refuse, Name, Named, NamedOf
<1>3. CASE Open(u)
  <2>1. job[u] = "none" /\ job' = job /\ request'[u] = "open" /\ spool' = spool
    BY <1>0, <1>3 DEF Open, Named, NamedOf
  <2>2. CASE "incoming" \notin dirs
    <3>1. handle'[u] = NoFile
      BY <1>3, <2>2 DEF Open, Unopened
    <3>2. incoming'[n] = NoFile
      BY <1>3, <2>2 DEF Open, Filed
    <3> QED
      BY <1>1, <2>1, <3>1, <3>2 DEF OwnAt, Unread
  <2>3. CASE "incoming" \in dirs
    <3> DEFINE file == IF incoming[n] = NoFile THEN u ELSE incoming[n]
    <3>1. file \in Uploads
      BY <1>0
    <3>2. /\ incoming' = [incoming EXCEPT ![n] = file]
          /\ handle' = [handle EXCEPT ![u] = file]
          /\ bytes' = [bytes EXCEPT ![file] = {}]
      BY <1>3, <2>3 DEF Open
    <3> HIDE DEF file
    <3>3. incoming'[n] = file /\ handle'[u] = file /\ bytes'[file] = {}
      BY <1>0, <3>1, <3>2
    <3>4. seen'[u] # Unread' => seen'[u] = {u}
      BY <1>1 DEF OwnAt, Unread
    <3> QED
      BY <2>1, <3>3, <3>4 DEF OwnAt
  <2> QED
    BY <2>2, <2>3
<1>4. CASE Write(u)
  <2>1. /\ job[u] = "none" /\ job' = job /\ request'[u] = "written" /\ request[u] = "open"
        /\ UNCHANGED <<incoming, spool>>
    BY <1>0, <1>4 DEF Write, Named, NamedOf
  <2>2. handle[u] = incoming[n] /\ (handle[u] # NoFile => bytes[handle[u]] = {})
    BY <2>1 DEF OwnAt
  <2>3. ASSUME incoming[n] # NoFile PROVE bytes'[incoming[n]] = {u}
    <3>1. \E left \in {{}, bytes[handle[u]]} : bytes' = [bytes EXCEPT ![handle[u]] = left \union {u}]
      BY <1>4, <2>2, <2>3 DEF Write
    <3>2. bytes' = [bytes EXCEPT ![handle[u]] = {} \union {u}]
      BY <2>2, <2>3, <3>1
    <3>3. handle[u] \in Uploads
      BY <1>0, <2>2, <2>3
    <3> QED
      BY <1>0, <2>2, <3>2, <3>3
  <2>4. seen'[u] # Unread' => seen'[u] = {u}
    BY <1>1 DEF OwnAt, Unread
  <2> QED
    BY <2>1, <2>3, <2>4 DEF OwnAt
<1>5. CASE Move(u)
  <2>1. /\ job[u] = "none" /\ UNCHANGED <<job, bytes>> /\ request[u] = "written"
        /\ request'[u] \in {"moved", "handled"}
    BY <1>0, <1>5 DEF Move, Named, NamedOf
  <2>2. ASSUME request'[u] = "moved"
        PROVE  spool'[n] # NoFile /\ bytes'[spool'[n]] = {u}
    <3>1. incoming[n] # NoFile /\ spool' = [spool EXCEPT ![n] = incoming[n]]
      BY <1>0, <1>5, <2>2 DEF Move
    <3> QED
      BY <1>0, <2>1, <3>1 DEF OwnAt
  <2>3. seen'[u] # Unread' => seen'[u] = {u}
    BY <1>1 DEF OwnAt, Unread
  <2> QED
    BY <2>1, <2>2, <2>3 DEF OwnAt
<1>6. CASE Send(u)
  <2>1. /\ request[u] = "moved" /\ request'[u] = "handled"
        /\ UNCHANGED <<handle, incoming, spool, bytes>>
    BY <1>0, <1>6 DEF Send
  <2> QED
    BY <1>1, <2>1, OwnKept
<1>7. CASE Answer(u)
  <2>1. request'[u] = "answered" /\ UNCHANGED <<handle, incoming, spool, bytes, job>>
    BY <1>0, <1>7 DEF Answer
  <2> QED
    BY <1>1, <2>1, OwnKept
<1> QED
  BY <1>2, <1>3, <1>4, <1>5, <1>6, <1>7 DEF Handler

\* The steps of qm and detect, of the clock and of the process.
LEMMA ReadersOwn ==
  ASSUME TypeOK, Named, Queued, Filed, NEW u \in Uploads, NEW n \in Seconds, name[u] = n,
         OwnAt(u, n), \A v \in Uploads : v # u /\ name[v] = n => job[v] = "none",
         \/ \E v \in Uploads : Inspect(v) \/ Conclude(v)
         \/ MakeDir \/ Take \/ Tick \/ Crash \/ Restart \/ UNCHANGED vars
  PROVE  OwnAt(u, n)'
<1> USE DEF world, files, jobs, history
<1>0. /\ job \in [Uploads -> {"none", "queued", "taken", "inspected", "done", "failed", "dropped"}]
      /\ spool \in [Seconds -> Uploads \union {NoFile}]
      /\ seen \in [Uploads -> (SUBSET Uploads) \union {Unread}]
  BY DEF TypeOK
<1>1. CASE Inspect(u)
  <2>1. job[u] = "taken" /\ UNCHANGED <<request, handle, files>>
    BY <1>1 DEF Inspect
  <2>2. spool[n] # NoFile /\ bytes[spool[n]] = {u}
    BY <2>1 DEF OwnAt
  <2>3. job'[u] = "inspected" /\ seen'[u] = {u}
    BY <1>0, <1>1, <2>2 DEF Inspect
  <2>4. request[u] \notin {"open", "written", "moved"}
    BY <2>1 DEF Named, NamedOf
  <2> QED
    BY <2>1, <2>3, <2>4 DEF OwnAt
<1>2. ASSUME NEW v \in Uploads, v # u, Inspect(v) PROVE OwnAt(u, n)'
  <2>1. UNCHANGED <<request, handle, files>> /\ job'[u] = job[u] /\ seen'[u] = seen[u]
    BY <1>0, <1>2 DEF Inspect
  <2> QED
    BY <2>1, OwnKept
<1>3. CASE Conclude(u)
  <2>1. /\ UNCHANGED <<request, handle, incoming, bytes, seen>>
        /\ job[u] = "inspected" /\ job'[u] \in {"done", "failed"}
    BY <1>0, <1>3 DEF Conclude
  <2>2. request[u] # "moved"
    BY <2>1 DEF Named, NamedOf
  <2> QED
    BY <2>1, <2>2, OwnKept
<1>4. ASSUME NEW v \in Uploads, v # u, Conclude(v) PROVE OwnAt(u, n)'
  <2>1. name[v] # n
    BY <1>4 DEF Conclude
  <2>2. /\ UNCHANGED <<request, handle, incoming, bytes, seen>>
        /\ job'[u] = job[u] /\ spool'[n] = spool[n]
    BY <1>0, <1>4, <2>1 DEF Conclude
  <2> QED
    BY <2>2, OwnKept
<1>5. CASE Take
  <2>1. inbox \in Seq(Uploads \union {Result}) /\ inbox # <<>>
    BY <1>5 DEF TypeOK, Take
  <2>2. 1 \in DOMAIN inbox /\ Head(inbox) = inbox[1]
    BY <2>1, TailFacts
  <2>3. Head(inbox) = u => job[u] = "queued"
    BY <2>2 DEF Queued
  <2>4. UNCHANGED <<request, handle, files, seen>> /\ job'[u] = IF u = Head(inbox) THEN "taken" ELSE job[u]
    BY <1>5 DEF Take
  <2> QED
    BY <2>3, <2>4, OwnKept
<1>6. CASE Crash
  <2>1. /\ UNCHANGED <<handle, files, job, seen>>
        /\ request'[u] = request[u] \/ request'[u] = "lost"
    BY <1>6 DEF Crash
  <2> QED
    BY <2>1, OwnKept
<1>7. CASE MakeDir \/ Tick \/ Restart \/ UNCHANGED vars
  <2>1. UNCHANGED <<handle, files, job, seen, request>>
    BY <1>7 DEF MakeDir, Tick, Restart, vars
  <2> QED
    BY <2>1, OwnKept
<1> QED
  BY <1>1, <1>2, <1>3, <1>4, <1>5, <1>6, <1>7

LEMMA NextOwn ==
  TypeOK /\ Named /\ Queued /\ Filed /\ Unopened /\ Own /\ [Next]_vars => Own'
<1> SUFFICES ASSUME TypeOK, Named, Queued, Filed, Unopened, Own, [Next]_vars,
                    NEW u \in Uploads, Alone(u)'
             PROVE  OwnAt(u, name[u])'
  BY DEF Own
<1>0. Frame /\ Named' /\ TypeOK'
  BY NextFrame, NextNamed, NextType
<1>1. CASE name[u] = 0
  <2>1. request[u] \notin Served \union {"answered"} /\ job[u] = "none"
    BY <1>1, Types DEF Named, NamedOf
  <2>2. ~Send(u)
    BY <2>1 DEF Send, Served
  <2>3. job'[u] = "none"
    BY <2>1, <2>2, JobStarts
  <2>4. seen'[u] = Unread'
    BY <1>0, <2>3 DEF Named, NamedOf
  <2>5. request'[u] \notin {"open", "written", "moved"}
    <3>1. CASE request'[u] \in Served \union {"answered"}
      <4>1. Name(u)
        BY <2>1, <3>1, RequestSteps
      <4> QED
        BY <4>1 DEF Name, To, TypeOK
    <3>2. CASE request'[u] \notin Served \union {"answered"}
      BY <3>2 DEF Served
    <3> QED
      BY <3>1, <3>2
  <2> QED
    BY <2>3, <2>4, <2>5 DEF OwnAt
<1>2. CASE name[u] # 0
  <2>1. PICK n : n = name[u]
    OBVIOUS
  <2>2. n \in Seconds /\ name'[u] = n /\ name[u] = n
    BY <1>0, <1>2, <2>1, Types DEF Frame
  <2>3. Alone(u)
    BY <1>0, <1>2, AloneBefore
  <2>4. OwnAt(u, n)
    BY <2>2, <2>3 DEF Own
  <2>5. \A v \in Uploads : v # u /\ name[v] = n => request[v] \notin Served /\ job[v] = "none"
    BY <1>2, <2>2, <2>3, AloneMeans
  <2>6. OwnAt(u, n)'
    <3>1. CASE \E v \in Uploads : Arrive(v) \/ Handler(v)
      <4>1. PICK v \in Uploads : Arrive(v) \/ Handler(v)
        BY <3>1
      <4>2. CASE v = u
        BY <2>2, <2>4, <4>1, <4>2, HandlerOwn
      <4>3. CASE v # u
        BY <2>2, <2>4, <2>5, <4>1, <4>3, OthersOwn
      <4> QED
        BY <4>2, <4>3
    <3>2. CASE ~\E v \in Uploads : Arrive(v) \/ Handler(v)
      <4>1. \/ \E v \in Uploads : Inspect(v) \/ Conclude(v)
            \/ MakeDir \/ Take \/ Tick \/ Crash \/ Restart \/ UNCHANGED vars
        BY <3>2 DEF Next, Quiescent
      <4> QED
        BY <2>2, <2>4, <2>5, <4>1, ReadersOwn
    <3> QED
      BY <3>1, <3>2
  <2> QED
    BY <2>2, <2>6 DEF OwnAt, Unread
<1> QED
  BY <1>1, <1>2

----------------------------------------------------------------------------
(* The invariant, and what it is for *)

IngestInv ==
  TypeOK /\ Named /\ Queued /\ Filed /\ Unopened /\ Findable /\ Early /\ Renamed /\ Own

LEMMA InitInv == Init => IngestInv
<1> SUFFICES ASSUME Init PROVE IngestInv
  OBVIOUS
<1>1. TypeOK /\ Named /\ Queued
  BY InitNamed
<1>2. Filed /\ Unopened
  BY DEF Init, Filed, Unopened
<1>3. Findable /\ Early /\ Renamed
  BY DEF Init, Findable, UnderWay, Early, Renamed, RenamedOf, Served
<1>4. Own
  BY DEF Init, Own, OwnAt
<1> QED
  BY <1>1, <1>2, <1>3, <1>4 DEF IngestInv

\* Files, names and jobs agree through clashes of names and deaths of ingestd: a
\* job is sent for a file that was closed before (ingestd.cpp:114-118), a name is of
\* a second that has begun, and a file's body is its own upload's unless the
\* name was given twice.
THEOREM IngestInvAlways == Spec => []IngestInv
<1>1. IngestInv /\ [Next]_vars => IngestInv'
  BY NextType, NextNamed, NextQueued, NextFiled, NextUnopened, NextFindable, NextEarly,
     NextRenamed, NextOwn DEF IngestInv
<1> QED
  BY <1>1, InitInv, PTL DEF Spec

\* The inbox never holds more messages than it has room for, and every request,
\* file and name is in a state the handler can leave it in (ingestd.cpp:78-120),
\* whatever uploads clash and whenever ingestd dies.
THEOREM TypeOKAlways == Spec => []TypeOK
<1>1. IngestInv => TypeOK
  BY DEF IngestInv
<1> QED
  BY <1>1, IngestInvAlways, PTL

\* A job under way finds a file under its path until qm removes it for a job
\* of the same name that is done (qm.cpp:56), for any number of uploads that
\* overwrite each other's.
THEOREM JobFindsFileAlways == Spec => []JobFindsFile
<1>1. IngestInv => JobFindsFile
  BY FindsFile DEF IngestInv
<1> QED
  BY <1>1, IngestInvAlways, PTL

\* Who is told "Job submitted" (ingestd.cpp:120) is told the truth of an upload
\* of the same second, if the directories were there.
THEOREM SomeoneSubmittedAlways == Spec => []SomeoneSubmitted
<1>1. IngestInv => SomeoneSubmitted
  BY SubmittedIs DEF IngestInv
<1> QED
  BY <1>1, IngestInvAlways, PTL

\* detect reads exactly the body that was uploaded, unless another upload of
\* the running ingestd got its name (ingestd.cpp:107); what earlier ones left
\* behind under that name, half written or moved, does not leak into it.
THEOREM InspectsOwnAlways == Spec => []InspectsOwn
<1>1. IngestInv => InspectsOwn
  BY InspectsIs DEF IngestInv
<1> QED
  BY <1>1, IngestInvAlways, PTL
=============================================================================
