------------------------------ MODULE FileJob ------------------------------
(***************************************************************************)
(* The job record the services pass to each other (file_job.h) and the    *)
(* pure code each service runs on it: qm's state machine and routing, the *)
(* detector chain with the MIME tables, and the parser lookup.            *)
(*                                                                         *)
(* A job stands for its file: the record's path and its attempts counter  *)
(* (which no code changes) are left out.                                   *)
(***************************************************************************)
EXTENDS Naturals

CONSTANTS
  Jobs,          \* the ids generate_unique_id gives to uploads
  NoId,          \* the empty job_id of a value-initialised file_job_shm
  PoisonPill,    \* the other alternative of the ipc_message variant
  MagicResults,  \* what libmagic may answer for an uploaded file (external)
  Parsers        \* the mime types create_parser builds a parser for

Status == {"NEW", "DETECTING", "PARSING", "DONE", "FAILED"}
Event == {"SUBMIT", "DETECTION_OK", "DETECTION_FAIL", "PARSE_OK", "PARSE_FAIL"}
JobType == {"DETECTOR", "PARSER", "NONE"}
MimeType == {"Unknown", "MsOfficeWord", "MsOfficeExcel", "MsOfficePowerPoint",
             "Pdf", "ImageJpeg", "ImagePng", "TextPlain"}

FileJobShm ==
  [job_id : Jobs \union {NoId}, status : Status, type : JobType, mime : MimeType]

\* file_job_shm{}: every enumeration at its zero value.
DefaultJob ==
  [job_id |-> NoId, status |-> "NEW", type |-> "DETECTOR", mime |-> "Unknown"]

IpcMessage == FileJobShm \union {PoisonPill}

\* A libmagic failure: magic_file returns a null pointer.
MagicNull == "nullptr"
OctetStream == "application/octet-stream"

ASSUME FileJobAssumption ==
  /\ NoId \notin Jobs
  /\ PoisonPill \notin FileJobShm
  /\ MagicResults \subseteq STRING
  /\ Parsers \subseteq MimeType

----------------------------------------------------------------------------
(* state_machine.cpp *)

Transitions ==
  {<<"NEW", "SUBMIT">>, <<"DETECTING", "DETECTION_OK">>,
   <<"DETECTING", "DETECTION_FAIL">>, <<"PARSING", "PARSE_OK">>,
   <<"PARSING", "PARSE_FAIL">>}

\* Mutant: DETECTION_OK leaves the job's type as the detector set it.
TransitionKeepsType(job, event) ==
  CASE event = "SUBMIT"         -> [job EXCEPT !.type = "DETECTOR", !.status = "DETECTING"]
    [] event = "DETECTION_OK"   -> [job EXCEPT !.status = "PARSING"]
    [] event = "DETECTION_FAIL" -> [job EXCEPT !.status = "FAILED"]
    [] event = "PARSE_OK"       -> [job EXCEPT !.status = "DONE"]
    [] event = "PARSE_FAIL"     -> [job EXCEPT !.status = "FAILED"]

\* The function stored for a key of the table; the event alone picks it.
Transition(job, event) ==
  CASE event = "SUBMIT"         -> [job EXCEPT !.type = "DETECTOR", !.status = "DETECTING"]
    [] event = "DETECTION_OK"   -> [job EXCEPT !.type = "PARSER", !.status = "PARSING"]
    [] event = "DETECTION_FAIL" -> [job EXCEPT !.status = "FAILED"]
    [] event = "PARSE_OK"       -> [job EXCEPT !.status = "DONE"]
    [] event = "PARSE_FAIL"     -> [job EXCEPT !.status = "FAILED"]

Applies(job, event) == <<job.status, event>> \in Transitions

----------------------------------------------------------------------------
(* qm.cpp: the pair <<sender name, job>> each branch returns *)

QueueOf(type) ==
  CASE type = "DETECTOR" -> "detect"
    [] type = "PARSER"   -> "parse"
    [] OTHER             -> ""

\* A rejected event sends a value-initialised job to the queue of the type.
HandleEvent(job, event) ==
  IF Applies(job, event)
  THEN LET next == Transition(job, event)
       IN  [to |-> QueueOf(next.type), job |-> next]
  ELSE [to |-> QueueOf(job.type), job |-> DefaultJob]

AddJob(job) == HandleEvent([job EXCEPT !.status = "NEW"], "SUBMIT")

\* Mutant: every result of a worker re-enters the table as a new job.
ProcessResultsResubmits(job) ==
  IF job.status = "DONE" THEN [to |-> "null_sender", job |-> DefaultJob] ELSE AddJob(job)

ProcessResults(job) ==
  CASE job.status = "NEW"       -> AddJob(job)
    [] job.status = "DETECTING" -> HandleEvent(job, "DETECTION_OK")
    [] job.status = "PARSING"   -> HandleEvent(job, "PARSE_OK")
    [] job.status = "FAILED"    -> [to |-> "fail", job |-> job]
    [] job.status = "DONE"      -> [to |-> "null_sender", job |-> DefaultJob]

----------------------------------------------------------------------------
(* mime_type.h, detector.cpp, detect_service.cpp *)

WordMimes ==
  {"application/msword", "application/vnd.ms-word",
   "application/vnd.openxmlformats-officedocument.wordprocessingml.document"}

MapType(mime) ==
  CASE mime \in WordMimes                   -> "MsOfficeWord"
    [] mime = "application/vnd.ms-excel"    -> "MsOfficeExcel"
    [] mime = "application/pdf"             -> "Pdf"
    [] mime = "image/jpeg"                  -> "ImageJpeg"
    [] OTHER                                -> "Unknown"

\* The chain holds one detector, libmagic; "none" answers octet-stream.
DetectFile(magic) == IF magic \in {"", OctetStream} THEN OctetStream ELSE magic

DetectReply(job, magic) ==
  [job EXCEPT !.mime = MapType(DetectFile(magic)),
              !.status = IF DetectFile(magic) # OctetStream THEN "DETECTING" ELSE "FAILED"]

----------------------------------------------------------------------------
(* parser_registry.cpp, parse_service.cpp *)

FindParser(mime) == mime \in Parsers

ParseReply(job) ==
  [job EXCEPT !.status = IF FindParser(job.mime) THEN "DONE" ELSE "FAILED"]
=============================================================================
