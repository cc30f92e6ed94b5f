----------------------------- MODULE MCPipeline -----------------------------
(***************************************************************************)
(* Small instances of Pipeline for TLC.                                    *)
(***************************************************************************)
EXTENDS Pipeline, TLC

CONSTANTS j1, j2, j3, j4, t1, t2

TwoJobs == {j1, j2}
FourJobs == {j1, j2, j3, j4}
OneThread == {t1}
TwoThreads == {t1, t2}

\* One answer of each kind: a mapped type, an unmapped one, octet-stream, a
\* failure.
SampleMagic == {"application/pdf", "image/png", OctetStream, MagicNull}

\* A job that goes all the way, and one that is dropped.
TwoMagic == {"application/pdf", MagicNull}

\* Jobs and threads are interchangeable in every safety property.
Symmetric == Permutations(Jobs) \union Permutations(Threads)
=============================================================================
