--------------------------- MODULE MC_FdStateTable ---------------------------
(* Model-checking instance of FdStateTable: application threads, the      *)
(* progress thread, and FD_STATE_SHARDS = 64 as in the code.              *)
EXTENDS FdStateTable, TLC

CONSTANTS t1, t2, t3

\* Two fds in different shards (3 % 64 # 4 % 64).
MCFdApart == [t \in {t1, t2} |-> IF t = t1 THEN 3 ELSE 4]

\* Three fds in the same shard (3, 67 and 131 are 3 modulo 64), so that a
\* writer can wait behind two readers.
MCFdSameShard == (t1 :> 3) @@ (t2 :> 67) @@ (t3 :> 131)

=============================================================================
