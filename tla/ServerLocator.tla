--------------------------- MODULE ServerLocator ---------------------------
(***************************************************************************)
(* How a client finds the server of a rank.  A server starts listening     *)
(* (hvac_init_comm(true)) and appends "<rank> <address>" to the rendezvous *)
(* file ./.ports.cfg.<jobid> (hvac_comm_list_addr).  A client resolves a   *)
(* rank with hvac_client_comm_lookup_addr: from address_cache if present,  *)
(* otherwise by scanning the file for the first line of that rank and      *)
(* caching it.  The address then goes to hvac_comm_create_handle and       *)
(* HG_Forward, whose caller waits for the answer with no deadline.         *)
(*                                                                         *)
(* Addresses are numbered by server start: each start listens at a fresh   *)
(* address.  0 stands for nullptr (no address) and for "not listening".    *)
(* Servers are not killed or restarted: the launch scripts start them     *)
(* once, before the application.                                          *)
(***************************************************************************)
EXTENDS Naturals, Sequences, SequencesExt, FiniteSets, Functions

CONSTANTS
    Ranks,          \* server ranks 0..N-1
    Threads,        \* client threads that open tracked files
    MaxOps,         \* opens per thread
    MaxStarts       \* server starts in a run

ASSUME MaxOps \in Nat /\ MaxStarts \in Nat

VARIABLES
    fileExists,     \* the rendezvous file exists
    file,           \* its lines, in order: [rank, addr]
    live,           \* live[r]: address server r listens at, 0 when down
    nStarts,        \* server starts so far
    srvPc,          \* down / listening (not yet posted) / up
    cache,          \* address_cache: rank -> address, 0 for no entry
    pc,             \* where each client thread is in its open
    rank,           \* the rank the thread's path hashes to
    addr,           \* the address lookup_addr returned
    ops,            \* opens each thread has completed
    dead            \* the client process died (segfault or assert)

vars == <<fileExists, file, live, nStarts, srvPc, cache, pc, rank, addr, ops, dead>>

Addrs == 1..MaxStarts

TypeOK ==
    /\ fileExists \in BOOLEAN
    /\ file \in Seq([rank : Ranks, addr : Addrs])
    /\ live \in [Ranks -> 0..MaxStarts]
    /\ nStarts \in 0..MaxStarts
    /\ srvPc \in [Ranks -> {"down", "listening", "up"}]
    /\ cache \in [Ranks -> 0..MaxStarts]
    /\ pc \in [Threads -> {"idle", "create", "wait", "crash"}]
    /\ rank \in [Threads -> Ranks]
    /\ addr \in [Threads -> 0..MaxStarts]
    /\ ops \in [Threads -> 0..MaxOps]
    /\ dead \in BOOLEAN

Init ==
    /\ fileExists = FALSE
    /\ file = <<>>
    /\ live = [r \in Ranks |-> 0]
    /\ nStarts = 0
    /\ srvPc = [r \in Ranks |-> "down"]
    /\ cache = [r \in Ranks |-> 0]
    /\ pc = [t \in Threads |-> "idle"]
    /\ rank = [t \in Threads |-> CHOOSE r \in Ranks : TRUE]
    /\ addr = [t \in Threads |-> 0]
    /\ ops = [t \in Threads |-> 0]
    /\ dead = FALSE

\* hvac_start_comm_server up to hvac_comm_list_addr: HG_Init as a listener
\* gives the server a new address.
ServerInit(r) ==
    /\ srvPc[r] = "down"
    /\ nStarts < MaxStarts
    /\ nStarts' = nStarts + 1
    /\ live' = [live EXCEPT ![r] = nStarts + 1]
    /\ srvPc' = [srvPc EXCEPT ![r] = "listening"]
    /\ UNCHANGED <<fileExists, file, cache, pc, rank, addr, ops, dead>>

\* hvac_comm_list_addr: fopen(filename, "a+") creates the file if needed
\* and appends "<rank> <self address>"; then the RPCs are registered.
ListAddr(r) ==
    /\ srvPc[r] = "listening"
    /\ fileExists' = TRUE
    /\ file' = Append(file, [rank |-> r, addr |-> live[r]])
    /\ srvPc' = [srvPc EXCEPT ![r] = "up"]
    /\ UNCHANGED <<live, nStarts, cache, pc, rank, addr, ops, dead>>

\* The fscanf loop: the address of the first line of rank r, 0 if none.
FirstLine(r) ==
    LET i == SelectInSeq(file, LAMBDA l : l.rank = r)
    IN IF i = 0 THEN 0 ELSE file[i].addr

\* An open on a tracked path hashed to rank r calls lookup_addr(r).  A
\* cache hit returns the cached address.  On a miss the file is opened; if
\* it does not exist fopen returns NULL and fscanf dereferences it.  A found
\* line is cached; a rank with no line returns nullptr, uncached.
Lookup(t, r) ==
    /\ ~dead
    /\ pc[t] = "idle"
    /\ ops[t] < MaxOps
    /\ rank' = [rank EXCEPT ![t] = r]
    /\ \/ /\ cache[r] # 0
          /\ addr' = [addr EXCEPT ![t] = cache[r]]
          /\ pc' = [pc EXCEPT ![t] = "create"]
          /\ UNCHANGED <<cache, dead>>
       \/ /\ cache[r] = 0 /\ ~fileExists
          /\ pc' = [pc EXCEPT ![t] = "crash"]
          /\ dead' = TRUE
          /\ UNCHANGED <<cache, addr>>
       \/ /\ cache[r] = 0 /\ fileExists
          /\ addr' = [addr EXCEPT ![t] = FirstLine(r)]
          /\ cache' = IF FirstLine(r) = 0 THEN cache
                      ELSE [cache EXCEPT ![r] = FirstLine(r)]
          /\ pc' = [pc EXCEPT ![t] = "create"]
          /\ UNCHANGED dead
    /\ UNCHANGED <<fileExists, file, live, nStarts, srvPc, ops>>

\* gen_open after the lookup: hvac_comm_create_handle (HG_Create takes a
\* NULL address, so its assert holds) and HG_Forward.  Forwarding to no
\* address fails: the fd is marked ERROR, gen_open returns -1 and the shim
\* opens the file through the OS, which ends this open.  Otherwise the
\* thread waits for the answer.
CreateForward(t) ==
    /\ ~dead
    /\ pc[t] = "create"
    /\ \/ /\ addr[t] = 0
          /\ pc' = [pc EXCEPT ![t] = "idle"]
          /\ ops' = [ops EXCEPT ![t] = ops[t] + 1]
       \/ /\ addr[t] # 0
          /\ pc' = [pc EXCEPT ![t] = "wait"]
          /\ UNCHANGED ops
    /\ UNCHANGED <<fileExists, file, live, nStarts, srvPc, cache, rank, addr, dead>>

\* The server listening at the address answers and the open returns.  A
\* request to an address nobody listens at is never answered.
Serve(t) ==
    /\ ~dead
    /\ pc[t] = "wait"
    /\ addr[t] \in Range(live)
    /\ pc' = [pc EXCEPT ![t] = "idle"]
    /\ ops' = [ops EXCEPT ![t] = ops[t] + 1]
    /\ UNCHANGED <<fileExists, file, live, nStarts, srvPc, cache, rank, addr, dead>>

\* The client process has died, or every thread made all its opens.
Finished ==
    /\ dead \/ \A t \in Threads : pc[t] = "idle" /\ ops[t] = MaxOps
    /\ UNCHANGED vars

Next ==
    \/ \E r \in Ranks : ServerInit(r) \/ ListAddr(r)
    \/ \E t \in Threads : \E r \in Ranks : Lookup(t, r)
    \/ \E t \in Threads : CreateForward(t) \/ Serve(t)
    \/ Finished

\* Servers that were launched finish starting; a thread inside open keeps
\* running.  Nothing forces a thread to start an open.
Spec ==
    /\ Init /\ [][Next]_vars
    /\ \A r \in Ranks : WF_vars(ServerInit(r)) /\ WF_vars(ListAddr(r))
    /\ \A t \in Threads : WF_vars(CreateForward(t)) /\ WF_vars(Serve(t))

-----------------------------------------------------------------------------
(* Properties *)

\* lookup_addr of a rank with no server fails the open (NO_SERVER, and the
\* shim falls back to the OS) instead of killing the process: an open made
\* before the servers have posted never runs fscanf on a NULL FILE*.
NoBootstrapCrash == \A t \in Threads : pc[t] # "crash"


=============================================================================
