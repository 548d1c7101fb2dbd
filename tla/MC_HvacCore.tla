---------------------------- MODULE MC_HvacCore ----------------------------
(* Model-checking instance of HvacCore: one server, two threads, two local *)
(* fds, one tracked and one untracked path, a 3-byte file read 2 bytes at  *)
(* a time (so the second read is short and the third hits EOF).           *)
EXTENDS HvacCore

\* std::hash(path) % 1: every path on rank s0.
MCHost == [p \in Paths |-> CHOOSE s \in Servers : TRUE]

=============================================================================
