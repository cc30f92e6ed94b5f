------------------------------ MODULE MCIngest ------------------------------
(***************************************************************************)
(* Small instances of Ingest for TLC.                                      *)
(***************************************************************************)
EXTENDS Ingest

CONSTANTS u1, u2, u3

ThreeUploads == {u1, u2, u3}
OneEmpty == {u3}
=============================================================================
