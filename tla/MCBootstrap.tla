---------------------------- MODULE MCBootstrap ----------------------------
(***************************************************************************)
(* Small instances of Bootstrap for TLC.                                   *)
(***************************************************************************)
EXTENDS Bootstrap

CONSTANTS c1, c2, c3

TwoClients == {c1, c2}
ThreeClients == {c1, c2, c3}
=============================================================================
