------------------------------ MODULE MCSystem ------------------------------
(***************************************************************************)
(* Small instances of System for TLC.                                      *)
(***************************************************************************)
EXTENDS System

CONSTANTS j1, j2, t1

OneJob == {j1}
TwoJobs == {j1, j2}
OneThread == {t1}

\* A job that goes all the way, and one that is dropped.
TwoMagic == {"application/pdf", MagicNull}

\* supervisor.json
WorkerOrder == <<"qm", "ingestd", "detect", "parse">>

Cmd(type, service) == [type |-> type, service |-> service]
StartsAndRestarts == {Cmd("Start", ""), Cmd("Restart", ""), Cmd("Restart", "detect")}
=============================================================================
