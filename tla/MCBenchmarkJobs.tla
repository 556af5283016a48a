--------------------------- MODULE MCBenchmarkJobs ---------------------------
(* TLC instance of BenchmarkJobs.                                          *)
EXTENDS BenchmarkJobs

Three == 1 .. 3

\* Notes are numbered in the order in which they are first asked for.  Which
\* note a client asks for matters only up to their names, and no client is
\* forced to ask, so nothing is lost.
NotesInOrder ==
    \A j \in Jobs : job[j].status = "none" /\ job'[j].status = "pending" => job'[j].note <= j
=============================================================================
