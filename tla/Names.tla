-------------------------------- MODULE Names --------------------------------
(***************************************************************************)
(* The names by which the programs find each other, and the fixed-size     *)
(* fields that carry a name through a queue: qn_rslv, the conversions of   *)
(* the job record (file_job.cpp) and the command message (commands.h).     *)
(* A name is a sequence of characters, because where it is split and where *)
(* it is cut is what these functions decide.                               *)
(***************************************************************************)
EXTENDS Naturals, Sequences, FiniteSetsExt

CONSTANTS
  Characters,        \* what a name consists of
  MaxIdSize,         \* MAX_ID_SIZE (64)
  MaxPathSize,       \* MAX_PATH_SIZE (256)
  ServiceNameMaxLen  \* SERVICE_NAME_MAX_LEN (64)

ASSUME NamesAssumption ==
  MaxIdSize \in Nat \ {0} /\ MaxPathSize \in Nat \ {0} /\ ServiceNameMaxLen \in Nat \ {0}

\* std::nullopt
NoName == <<>>

----------------------------------------------------------------------------
(* qn_rslv *)

\* A string as the sequence of its characters.
Spell(string) == [i \in 1..Len(string) |-> SubSeq(string, i, i)]

DirectPrefix == Spell("fika.direct.")
InboxPrefix == Spell("fika.inbox.")
Separator == Spell(".to.")

\* The two prefixes differ in a character that both have.
ASSUME PrefixesDiffer ==
  /\ {DirectPrefix, InboxPrefix, Separator} \subseteq Seq(Characters)
  /\ Separator # <<>>
  /\ \E i \in 1..Len(DirectPrefix) :
       i \in 1..Len(InboxPrefix) /\ DirectPrefix[i] # InboxPrefix[i]

get_direct_queue(from, to) == DirectPrefix \o from \o Separator \o to
get_inbox_queue(to) == InboxPrefix \o to

\* Where pattern occurs in name.
Occurrences(pattern, name) ==
  {i \in 1..(Len(name) + 1 - Len(pattern)) :
     SubSeq(name, i, i + Len(pattern) - 1) = pattern}

\* A separator behind name is the first one.
Clean(name) == Occurrences(Separator, name \o Separator) = {Len(name) + 1}

\* Mutant: the name is split at its last separator.
parse_direct_queue_last(name) ==
  LET found == Occurrences(Separator, name)
      sender == SubSeq(name, Len(DirectPrefix) + 1, Max(found) - 1)
      receiver == SubSeq(name, Max(found) + Len(Separator), Len(name))
  IN  IF 1 \notin Occurrences(DirectPrefix, name) \/ found = {} \/ <<>> \in {sender, receiver}
      THEN NoName ELSE <<sender, receiver>>

\* The name after the prefix is split at the first separator.
parse_direct_queue(name) ==
  LET found == {i \in Occurrences(Separator, name) : i > Len(DirectPrefix)}
      sender == SubSeq(name, Len(DirectPrefix) + 1, Min(found) - 1)
      receiver == SubSeq(name, Min(found) + Len(Separator), Len(name))
  IN  IF 1 \notin Occurrences(DirectPrefix, name) \/ found = {} \/ <<>> \in {sender, receiver}
      THEN NoName ELSE <<sender, receiver>>

parse_inbox_queue(name) ==
  LET binary == SubSeq(name, Len(InboxPrefix) + 1, Len(name))
  IN  IF 1 \notin Occurrences(InboxPrefix, name) \/ binary = <<>> THEN NoName ELSE <<binary>>

----------------------------------------------------------------------------
(* Fields of a fixed size *)

\* Mutant: a string that does not fit is left out.
FieldOrNone(size, string) == IF Len(string) < size THEN string ELSE <<>>

\* Mutant: one character less than fits.
FieldShort(size, string) ==
  SubSeq(string, 1, IF Len(string) <= size - 2 THEN Len(string) ELSE size - 2)

\* A string copied into a char array of that size keeps room for its zero.
Field(size, string) ==
  SubSeq(string, 1, IF Len(string) < size THEN Len(string) ELSE size - 1)

\* The other fields of the record are copied as they are.
from_file_job(job) ==
  [job EXCEPT !.job_id = Field(MaxIdSize, @), !.path = Field(MaxPathSize, @)]

to_file_job(job_shm) == job_shm

CommandMessage(cmd, service) ==
  [cmd_ |-> cmd, service_name |-> Field(ServiceNameMaxLen, service)]
=============================================================================
