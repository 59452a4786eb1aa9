----------------------------- MODULE MCJobQueue -----------------------------
(* Small instances of JobQueue for TLC.                                    *)
EXTENDS JobQueue

CONSTANTS w1, w2, h1

NoHelpers  == {}
OneHelper  == {h1}
TwoWorkers == {w1, w2}

=============================================================================
