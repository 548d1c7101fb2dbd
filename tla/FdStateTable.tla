---------------------------- MODULE FdStateTable ----------------------------
(***************************************************************************)
(* The locking of the client's FD state table (mthvac_comm_client.cpp).    *)
(* fd_state_map is ONE std::unordered_map; each access takes the rwlock of *)
(* the fd's shard, fd_state_map_rwlocks[fd % FD_STATE_SHARDS], through     *)
(* get_fd_rwlock, which first runs init_fd_state_rwlocks: an unlocked      *)
(* check of fd_state_rwlocks_initialized, then pthread_rwlock_init of      *)
(* every shard and the flag set.                                           *)
(*                                                                         *)
(* Writers: hvac_set_fd_opening (insert) and hvac_cleanup_fd_state         *)
(* (erase) under the write lock.  Readers: hvac_get_fd_status (find) under *)
(* the read lock, called by hvac_set_fd_ready from the open callback on    *)
(* the progress thread and by hvac_wait_fd_ready from a read.              *)
(*                                                                         *)
(* Each application thread opens, reads and closes its fd (gen_open,       *)
(* gen_read, gen_close); the progress thread marks an opened fd READY.     *)
(* pthread_rwlock_init of a lock in use is undefined; glibc's zeroes it,   *)
(* so a re-initialised lock is free, which is the outcome modelled.        *)
(***************************************************************************)
EXTENDS Naturals, FiniteSets

CONSTANTS
    Threads,        \* application threads
    Progress,       \* the client progress thread (a model value)
    Fd,             \* Fd[t]: the local fd thread t opens
    FdStateShards,  \* FD_STATE_SHARDS
    FirstCallAlone, \* no other call is between the flag check and the flag set
    None

ASSUME FdStateShards \in Nat \ {0} /\ FirstCallAlone \in BOOLEAN

Actors == Threads \cup {Progress}

VARIABLES
    rwInit,     \* fd_state_rwlocks_initialized
    lock,       \* lock[s]: [w |-> writer or None, r |-> readers] of shard s
    table,      \* fd_state_map: fd -> "OPENING" / "READY", "NONE" for no entry
    pc,         \* where each actor is in its table call
    op,         \* op[a]: the call in progress: [kind, fd], or None
    stage       \* stage[t]: how far thread t is in open, read, close

vars == <<rwInit, lock, table, pc, op, stage>>

Fds == {Fd[t] : t \in Threads}
Shards == {fd % FdStateShards : fd \in Fds}
Shard(fd) == fd % FdStateShards
FreeLock == [w |-> None, r |-> {}]

\* The calls and whether they modify fd_state_map.
Writes(a) == op[a].kind \in {"opening", "cleanup"}

TypeOK ==
    /\ rwInit \in BOOLEAN
    /\ lock \in [Shards -> [w : Actors \cup {None}, r : SUBSET Actors]]
    /\ table \in [Fds -> {"NONE", "OPENING", "READY"}]
    /\ pc \in [Actors -> {"idle", "check", "init", "acquire", "inmap"}]
    /\ stage \in [Threads -> {"open", "wait", "read", "close", "done"}]

Init ==
    /\ rwInit = FALSE
    /\ lock = [s \in Shards |-> FreeLock]
    /\ table = [fd \in Fds |-> "NONE"]
    /\ pc = [a \in Actors |-> "idle"]
    /\ op = [a \in Actors |-> None]
    /\ stage = [t \in Threads |-> "open"]

\* An actor starts a table call: gen_open's hvac_set_fd_opening, a read's
\* hvac_wait_fd_ready (hvac_get_fd_status), gen_close's
\* hvac_cleanup_fd_state; the progress thread's hvac_set_fd_ready once an
\* open is in flight.
Call(a, kind, fd) ==
    /\ pc[a] = "idle"
    /\ pc' = [pc EXCEPT ![a] = "check"]
    /\ op' = [op EXCEPT ![a] = [kind |-> kind, fd |-> fd]]

StartThreadCall(t) ==
    /\ \/ stage[t] = "open" /\ Call(t, "opening", Fd[t])
       \/ stage[t] = "read" /\ Call(t, "status", Fd[t])
       \/ stage[t] = "close" /\ Call(t, "cleanup", Fd[t])
    /\ UNCHANGED <<rwInit, lock, table, stage>>

StartCallback ==
    /\ \E t \in Threads : stage[t] = "wait" /\ Call(Progress, "ready", Fd[t])
    /\ UNCHANGED <<rwInit, lock, table, stage>>

\* Actor u is between the flag check and the flag set.
InInitCheck(u) == pc[u] = "init"

\* init_fd_state_rwlocks: if (!fd_state_rwlocks_initialized).
CheckInit(a) ==
    /\ pc[a] = "check"
    /\ ~FirstCallAlone \/ \A u \in Actors : ~InInitCheck(u)
    /\ pc' = [pc EXCEPT ![a] = IF rwInit THEN "acquire" ELSE "init"]
    /\ UNCHANGED <<rwInit, lock, table, op, stage>>

\* The pthread_rwlock_init loop and the flag set: every shard lock is free
\* afterwards, whoever held it.
InitLocks(a) ==
    /\ pc[a] = "init"
    /\ lock' = [s \in Shards |-> FreeLock]
    /\ rwInit' = TRUE
    /\ pc' = [pc EXCEPT ![a] = "acquire"]
    /\ UNCHANGED <<table, op, stage>>

\* pthread_rwlock_wrlock / rdlock on fd_state_map_rwlocks[fd % 64]: blocks
\* while the shard has a writer, or (for a writer) any reader.
Acquire(a) ==
    LET s == Shard(op[a].fd) IN
    /\ pc[a] = "acquire"
    /\ lock[s].w = None
    /\ IF Writes(a) THEN /\ lock[s].r = {}
                         /\ lock' = [lock EXCEPT ![s].w = a]
                    ELSE lock' = [lock EXCEPT ![s].r = @ \cup {a}]
    /\ pc' = [pc EXCEPT ![a] = "inmap"]
    /\ UNCHANGED <<rwInit, table, op, stage>>

\* Mutant of Unlock: the read lock is never given back, as if a lookup
\* returned without pthread_rwlock_unlock.
UnlockKeepReader(a, s) ==
    lock' = [lock EXCEPT ![s].w = IF @ = a THEN None ELSE @]

\* pthread_rwlock_unlock of shard s by a, whichever way a holds it.
Unlock(a, s) ==
    lock' = [lock EXCEPT ![s] = [w |-> IF @.w = a THEN None ELSE @.w, r |-> @.r \ {a}]]

\* The map access and pthread_rwlock_unlock, then what the caller does
\* with it: set_opening inserts OPENING; cleanup erases; set_ready marks
\* a found entry READY (the state mutex and broadcast) and wakes the
\* opener; a read's lookup ends its wait.
Release(a) ==
    LET fd == op[a].fd
        s == Shard(fd)
        k == op[a].kind IN
    /\ pc[a] = "inmap"
    /\ Unlock(a, s)
    /\ table' = CASE k = "opening" -> [table EXCEPT ![fd] = "OPENING"]
                  [] k = "cleanup" -> [table EXCEPT ![fd] = "NONE"]
                  [] k = "ready" /\ table[fd] # "NONE" -> [table EXCEPT ![fd] = "READY"]
                  [] OTHER -> table
    /\ stage' = CASE k = "opening" -> [stage EXCEPT ![a] = "wait"]
                  [] k = "ready" -> [stage EXCEPT ![CHOOSE t \in Threads : Fd[t] = fd] = "read"]
                  [] k = "status" -> [stage EXCEPT ![a] = "close"]
                  [] k = "cleanup" -> [stage EXCEPT ![a] = "done"]
    /\ pc' = [pc EXCEPT ![a] = "idle"]
    /\ op' = [op EXCEPT ![a] = None]
    /\ UNCHANGED rwInit

Finished ==
    /\ \A t \in Threads : stage[t] = "done"
    /\ \A a \in Actors : pc[a] = "idle"
    /\ UNCHANGED vars

Next ==
    \/ \E t \in Threads : StartThreadCall(t)
    \/ StartCallback
    \/ \E a \in Actors : CheckInit(a) \/ InitLocks(a) \/ Acquire(a) \/ Release(a)
    \/ Finished

\* A thread inside a table call keeps running, and the progress thread runs
\* its callback to the end: each step of a call is weakly fair.  Starting a
\* call is not: the application may stop, and the open callback waits for
\* the server.  Weak fairness suffices for the blocking Acquire since every
\* holder releases within its call and the calls are finitely many.
Fairness ==
    \A a \in Actors : /\ WF_vars(CheckInit(a)) /\ WF_vars(InitLocks(a))
                     /\ WF_vars(Acquire(a)) /\ WF_vars(Release(a))

Spec == Init /\ [][Next]_vars /\ Fairness

-----------------------------------------------------------------------------
(* Properties *)

\* fd_state_map is never modified while another thread accesses it: no
\* insert or erase (hvac_set_fd_opening, hvac_cleanup_fd_state) runs
\* alongside any other find, insert or erase, as a std::unordered_map
\* requires.  The per-shard rwlocks and their lazy initialisation are what
\* should ensure it.
MapRaceFree ==
    \A a, b \in Actors :
        a # b /\ pc[a] = "inmap" /\ pc[b] = "inmap" => ~Writes(a) /\ ~Writes(b)


\* Every table call returns: hvac_set_fd_opening, hvac_get_fd_status (from
\* hvac_wait_fd_ready or the open callback's hvac_set_fd_ready) and
\* hvac_cleanup_fd_state each get their shard's rwlock and release it, so
\* no thread, and not the progress thread, blocks for ever on a shard held
\* by a call that has left it, or by a reader and a writer waiting on each
\* other.
TableCallsReturn ==
    \A a \in Actors : pc[a] # "idle" ~> pc[a] = "idle"

=============================================================================
