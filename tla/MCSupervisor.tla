---------------------------- MODULE MCSupervisor ----------------------------
(***************************************************************************)
(* Small instances of Supervisor for TLC.                                  *)
(***************************************************************************)
EXTENDS Supervisor

Cmd(type, service) == [type |-> type, service |-> service]

\* supervisor.json, and without parse.
AllWorkers == <<"qm", "ingestd", "detect", "parse">>
NoParse == <<"qm", "ingestd", "detect">>

StartStop == {Cmd("Start", ""), Cmd("Stop", "")}
StartRestartOne == {Cmd("Start", ""), Cmd("Restart", "detect")}
EveryKind == {Cmd("Start", ""), Cmd("Stop", ""), Cmd("Stop", "detect"),
              Cmd("Restart", "detect"), Cmd("Status", "")}
=============================================================================
