------------------------------- MODULE Ingest -------------------------------
(***************************************************************************)
(* ingestd in detail: the HTTP threads that write uploads to the spool     *)
(* directory "incoming", rename them into "new" and hand their jobs to qm, *)
(* under file names with a resolution of one second (ingestd.cpp:107), and *)
(* the two services that later read and remove the file by that name.      *)
(*                                                                         *)
(* A file is known by the upload that created it and holds the bodies that *)
(* were written into it; a body is written by one system call.  qm creates *)
(* the directories, and ingestd may be up before they exist.               *)
(***************************************************************************)
EXTENDS Naturals, Sequences, FiniteSets

CONSTANTS
  Uploads,        \* the requests, by the body they carry
  Empty,          \* the requests without a body
  NoFile,         \* the absence of a file
  Result,         \* a message of detect or parse in the inbox
  HttpThreads,    \* the threads of httplib's pool
  QueueCapacity,  \* max_messages of qm's inbox
  LastSecond,     \* bound on the clock
  MaxCrashes      \* bound on deaths of ingestd

ASSUME IngestAssumption ==
  /\ Empty \subseteq Uploads
  /\ NoFile \notin Uploads
  /\ Result \notin Uploads
  /\ HttpThreads \in Nat \ {0}
  /\ QueueCapacity \in Nat \ {0}
  /\ LastSecond \in Nat \ {0}
  /\ MaxCrashes \in Nat

VARIABLES
  now,       \* the system clock, in seconds
  dirs,      \* the spool directories that exist
  up,        \* ingestd is serving
  request,   \* request[u]: how far u's HTTP thread has come
  name,      \* name[u]: the second in u's file name (0: none yet)
  handle,    \* handle[u]: the file u's ofstream is open on
  incoming,  \* incoming[n]: the file of that name in "incoming"
  spool,     \* spool[n]: the file of that name in "new"
  bytes,     \* bytes[f]: the bodies that file f holds a part of
  inbox,     \* qm's inbox: the uploads whose jobs are in it, and results
  job,       \* job[u]: how far the job of u has come
  seen,      \* seen[u]: what detect read for the job of u
  early,     \* history: the uploads named before both directories existed
  born,      \* history: the deaths of ingestd before u was named
  crashes

vars == <<now, dirs, up, request, name, handle, incoming, spool, bytes, inbox,
          job, seen, early, born, crashes>>
files == <<incoming, spool, bytes>>
jobs == <<inbox, job, seen>>
history == <<early, born, crashes>>
world == <<now, dirs, up>>

Seconds == 1..LastSecond
Unread == {NoFile}
Served == {"named", "open", "written", "moved", "handled"}

TypeOK ==
  /\ now \in Seconds
  /\ dirs \in {{}, {"incoming"}, {"incoming", "new"}}
  /\ up \in BOOLEAN
  /\ request \in [Uploads -> Served \union {"absent", "waiting", "refused", "answered", "lost"}]
  /\ name \in [Uploads -> 0..LastSecond]
  /\ handle \in [Uploads -> Uploads \union {NoFile}]
  /\ incoming \in [Seconds -> Uploads \union {NoFile}]
  /\ spool \in [Seconds -> Uploads \union {NoFile}]
  /\ bytes \in [Uploads -> SUBSET Uploads]
  /\ inbox \in Seq(Uploads \union {Result}) /\ Len(inbox) <= QueueCapacity
  /\ job \in [Uploads -> {"none", "queued", "taken", "inspected", "done", "failed", "dropped"}]
  /\ seen \in [Uploads -> (SUBSET Uploads) \union {Unread}]
  /\ early \subseteq Uploads
  /\ born \in [Uploads -> Nat]
  /\ crashes \in Nat

\* The directories may be left from an earlier installation, or be missing; the
\* inbox may be full of the results of earlier jobs.
Init ==
  /\ now = 1
  /\ dirs \in {{}, {"incoming", "new"}}
  /\ up = TRUE
  /\ request = [u \in Uploads |-> "absent"]
  /\ name = [u \in Uploads |-> 0]
  /\ handle = [u \in Uploads |-> NoFile]
  /\ incoming = [n \in Seconds |-> NoFile]
  /\ spool = [n \in Seconds |-> NoFile]
  /\ bytes = [u \in Uploads |-> {}]
  /\ inbox \in {<<>>, [i \in 1..QueueCapacity |-> Result]}
  /\ job = [u \in Uploads |-> "none"]
  /\ seen = [u \in Uploads |-> Unread]
  /\ early = {}
  /\ born = [u \in Uploads |-> 0]
  /\ crashes = 0

----------------------------------------------------------------------------
(* The request handler of ingestd::run *)

To(u, stage) == request' = [request EXCEPT ![u] = stage]

\* A client connects; the request waits for a thread of the pool.
Arrive(u) ==
  /\ up
  /\ request[u] = "absent"
  /\ To(u, "waiting")
  /\ UNCHANGED <<world, name, handle, files, jobs, history>>

FreeThread == Cardinality({u \in Uploads : request[u] \in Served}) < HttpThreads

\* An empty body is answered with 400.
Refuse(u) ==
  /\ request[u] = "waiting" /\ FreeThread
  /\ u \in Empty
  /\ To(u, "refused")
  /\ UNCHANGED <<world, name, handle, files, jobs, history>>

\* The file name is "upload_" and the clock in seconds.
Name(u) ==
  /\ request[u] = "waiting" /\ FreeThread
  /\ u \notin Empty
  /\ To(u, "named")
  /\ name' = [name EXCEPT ![u] = now]
  /\ early' = IF "new" \in dirs THEN early ELSE early \union {u}
  /\ born' = [born EXCEPT ![u] = crashes]
  /\ UNCHANGED <<world, handle, files, jobs, crashes>>

\* Mutant: the ofstream appends to a file that is already there.
OpenAppend(u) ==
  LET n == name[u]
      file == IF incoming[n] = NoFile THEN u ELSE incoming[n]
  IN  /\ request[u] = "named"
      /\ To(u, "open")
      /\ IF "incoming" \in dirs
         THEN /\ incoming' = [incoming EXCEPT ![n] = file]
              /\ handle' = [handle EXCEPT ![u] = file]
         ELSE UNCHANGED <<incoming, handle>>
      /\ UNCHANGED <<world, name, spool, bytes, jobs, history>>

\* std::ofstream creates the file or truncates the one of that name; without
\* the directory it fails, and nothing looks at its state.
Open(u) ==
  LET n == name[u]
      file == IF incoming[n] = NoFile THEN u ELSE incoming[n]
  IN  /\ request[u] = "named"
      /\ To(u, "open")
      /\ IF "incoming" \in dirs
         THEN /\ incoming' = [incoming EXCEPT ![n] = file]
              /\ handle' = [handle EXCEPT ![u] = file]
              /\ bytes' = [bytes EXCEPT ![file] = {}]
         ELSE UNCHANGED <<incoming, handle, bytes>>
      /\ UNCHANGED <<world, name, spool, jobs, history>>

\* write and close, from the file's start: over what another upload wrote to
\* the same file, which stays where it is longer.
Write(u) ==
  LET file == handle[u]
  IN  /\ request[u] = "open"
      /\ To(u, "written")
      /\ IF file = NoFile THEN UNCHANGED bytes
         ELSE \E left \in {{}, bytes[file]} :
                bytes' = [bytes EXCEPT ![file] = left \union {u}]
      /\ UNCHANGED <<world, name, handle, incoming, spool, jobs, history>>

\* Mutant: a failed rename is tried again until it succeeds.
MoveRetries(u) ==
  LET n == name[u]
  IN  /\ request[u] = "written"
      /\ incoming[n] # NoFile /\ "new" \in dirs
      /\ spool' = [spool EXCEPT ![n] = incoming[n]]
      /\ incoming' = [incoming EXCEPT ![n] = NoFile]
      /\ To(u, "moved")
      /\ UNCHANGED <<world, name, handle, bytes, jobs, history>>

\* move_file renames over a file of that name; it fails if another upload has
\* renamed the source, or a directory is missing, and then no job is sent.
Move(u) ==
  LET n == name[u]
  IN  /\ request[u] = "written"
      /\ IF incoming[n] # NoFile /\ "new" \in dirs
         THEN /\ spool' = [spool EXCEPT ![n] = incoming[n]]
              /\ incoming' = [incoming EXCEPT ![n] = NoFile]
              /\ To(u, "moved")
         ELSE /\ To(u, "handled")
              /\ UNCHANGED <<incoming, spool>>
      /\ UNCHANGED <<world, name, handle, bytes, jobs, history>>

\* Mutant: the inbox takes one job too many.
SendOffByOne(u) ==
  /\ request[u] = "moved"
  /\ Len(inbox) <= QueueCapacity
  /\ inbox' = Append(inbox, u)
  /\ job' = [job EXCEPT ![u] = "queued"]
  /\ To(u, "handled")
  /\ UNCHANGED <<world, name, handle, files, seen, history>>

\* Mutant: try_send, whose refusal by a full inbox nobody looks at.
SendOrGiveUp(u) ==
  /\ request[u] = "moved"
  /\ IF Len(inbox) < QueueCapacity
     THEN /\ inbox' = Append(inbox, u)
          /\ job' = [job EXCEPT ![u] = "queued"]
     ELSE UNCHANGED <<inbox, job>>
  /\ To(u, "handled")
  /\ UNCHANGED <<world, name, handle, files, seen, history>>

\* The job, with the path in "new", is sent: blocking while the inbox is full.
Send(u) ==
  /\ request[u] = "moved"
  /\ Len(inbox) < QueueCapacity
  /\ inbox' = Append(inbox, u)
  /\ job' = [job EXCEPT ![u] = "queued"]
  /\ To(u, "handled")
  /\ UNCHANGED <<world, name, handle, files, seen, history>>

\* "Job submitted", whatever handle_file did.
Answer(u) ==
  /\ request[u] = "handled"
  /\ To(u, "answered")
  /\ UNCHANGED <<world, name, handle, files, jobs, history>>

----------------------------------------------------------------------------
(* qm and detect, as far as they touch the spool *)

\* qm's setup creates "incoming", then "new".
MakeDir ==
  /\ dirs' = IF dirs = {} THEN {"incoming"} ELSE {"incoming", "new"}
  /\ dirs' # dirs
  /\ UNCHANGED <<now, up, request, name, handle, files, jobs, history>>

\* qm takes a message from its inbox; a new job it sends to detect.
Take ==
  /\ inbox # <<>>
  /\ inbox' = Tail(inbox)
  /\ job' = [u \in Uploads |-> IF u = Head(inbox) THEN "taken" ELSE job[u]]
  /\ UNCHANGED <<world, request, name, handle, files, seen, history>>

\* libmagic reads the file the job's path names; without one it fails.
Inspect(u) ==
  LET file == spool[name[u]]
  IN  /\ job[u] = "taken"
      /\ job' = [job EXCEPT ![u] = IF file = NoFile THEN "dropped" ELSE "inspected"]
      /\ seen' = IF file = NoFile THEN seen ELSE [seen EXCEPT ![u] = bytes[file]]
      /\ UNCHANGED <<world, request, name, handle, files, inbox, history>>

\* Mutant: the file of a failed job is removed as well.
ConcludeRemoves(u) ==
  /\ job[u] = "inspected"
  /\ \E outcome \in {"done", "failed"} : job' = [job EXCEPT ![u] = outcome]
  /\ spool' = [spool EXCEPT ![name[u]] = NoFile]
  /\ UNCHANGED <<world, request, name, handle, incoming, bytes, inbox, seen, history>>

\* qm concludes the job, and removes whatever file the path names if done,
\* unless the removal fails or is cut off.  "done" is the moment of the
\* removal here, which follows the log line (Pipeline.tla has both steps).
Conclude(u) ==
  /\ job[u] = "inspected"
  /\ \/ /\ job' = [job EXCEPT ![u] = "done"]
        /\ \/ spool' = [spool EXCEPT ![name[u]] = NoFile]
           \/ UNCHANGED spool
     \/ /\ job' = [job EXCEPT ![u] = "failed"]
        /\ UNCHANGED spool
  /\ UNCHANGED <<world, request, name, handle, incoming, bytes, inbox, seen, history>>

----------------------------------------------------------------------------
(* Clock and process *)

Tick ==
  /\ now < LastSecond
  /\ now' = now + 1
  /\ UNCHANGED <<dirs, up, request, name, handle, files, jobs, history>>

\* ingestd dies, or the supervisor replaces it: its requests are cut off.
Crash ==
  /\ up
  /\ crashes < MaxCrashes
  /\ crashes' = crashes + 1
  /\ up' = FALSE
  /\ request' = [u \in Uploads |->
       IF request[u] \in Served \union {"waiting"} THEN "lost" ELSE request[u]]
  /\ UNCHANGED <<now, dirs, name, handle, files, jobs, early, born>>

\* main: the lock, the constructor that opens the inbox, then run.
Restart ==
  /\ ~up
  /\ up' = TRUE
  /\ UNCHANGED <<now, dirs, request, name, handle, files, jobs, history>>

\* Every request has been answered, and every job concluded.
Quiescent ==
  /\ \A u \in Uploads : request[u] \in {"refused", "answered", "lost"}
  /\ \A u \in Uploads : job[u] \in {"none", "done", "failed", "dropped"}
  /\ UNCHANGED vars

Handler(u) ==
  Refuse(u) \/ Name(u) \/ Open(u) \/ Write(u) \/ Move(u) \/ Send(u) \/ Answer(u)

Next ==
  \/ \E u \in Uploads : Arrive(u) \/ Handler(u) \/ Inspect(u) \/ Conclude(u)
  \/ MakeDir \/ Take \/ Tick \/ Crash \/ Restart
  \/ Quiescent

Spec == Init /\ [][Next]_vars

(***************************************************************************)
(* Fairness: the HTTP threads and qm are OS threads that keep running, and *)
(* a blocked send resumes when the inbox has room.  A waiting request gets *)
(* the next free thread.  Clients, crashes and the clock owe nothing.      *)
(***************************************************************************)
FairSpec ==
  /\ Spec
  /\ \A u \in Uploads : WF_vars(Handler(u))
  /\ WF_vars(Take)

----------------------------------------------------------------------------
(* Safety *)

\* v may disturb the file of u: it has its name, and it is not just a leftover
\* of an earlier ingestd that never reached qm.
Rivals(u, v) ==
  u # v /\ name[v] = name[u] /\ ~(born[v] < born[u] /\ job[v] = "none")

\* What detect inspects for a job is the body that was uploaded, whole and
\* nothing else, unless another upload got its name within the same second
\* (ingestd.cpp:107): "new" never holds a file still being written, and what a
\* killed ingestd left under that name does not leak into it.
InspectsOwn ==
  \A u \in Uploads :
    seen[u] # Unread /\ (\A v \in Uploads : ~Rivals(u, v)) => seen[u] = {u}

\* A client that is told "Job submitted" (ingestd.cpp:120) is told the truth
\* of somebody: its job, or that of an upload of the same second, was sent, is
\* about to be, or died with ingestd.  A clash never loses every upload of its
\* second; missing directories do.
SomeoneSubmitted ==
  \A u \in Uploads :
    request[u] = "answered" /\ u \notin early =>
      \E v \in Uploads :
        /\ name[v] = name[u]
        /\ job[v] # "none" \/ request[v] \in {"moved", "lost"}

\* A job under way finds a file under its path, even when uploads of one
\* second overwrite each other's: only the removal by qm, of a job of the same
\* name that is done, takes it away (qm.cpp:56).
JobFindsFile ==
  \A u \in Uploads :
    job[u] \in {"queued", "taken", "inspected"} =>
      \/ spool[name[u]] # NoFile
      \/ \E v \in Uploads : name[v] = name[u] /\ job[v] = "done"

----------------------------------------------------------------------------
(* Liveness *)

\* Every request that arrives is answered or cut off, also when all threads
\* of the pool block on a full inbox, or the rename fails.
EveryRequestAnswered ==
  \A u \in Uploads : request[u] = "waiting" ~> request[u] \in {"refused", "answered", "lost"}
=============================================================================
