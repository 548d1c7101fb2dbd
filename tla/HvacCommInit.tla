---------------------------- MODULE HvacCommInit ----------------------------
(***************************************************************************)
(* Lazy initialisation of the client's Mercury transport.  The first       *)
(* tracked open of a thread runs, in hvac_track_file (mthvac_client.cpp),  *)
(* "if (!g_mercury_init) { hvac_init_comm(false); register; set flag }"    *)
(* with no lock, then gen_open creates a handle on the global hg_context   *)
(* and forwards.  hvac_init_comm (mthvac_comm.cpp) overwrites the globals  *)
(* hg_class and hg_context and starts a progress thread that triggers and  *)
(* progresses whatever the global hg_context is at each call.              *)
(*                                                                         *)
(* Classes and contexts are numbered in creation order; ctxClass[c] is the *)
(* class context c was created from.  The server's answer is abstracted:   *)
(* a forwarded open completes as soon as its context is progressed.       *)
(***************************************************************************)
EXTENDS Naturals, Sequences, FiniteSets

CONSTANTS
    Threads,            \* application threads, each making its first tracked open
    SerialFirstOpens    \* no two threads are between the flag check and the flag set at once

ASSUME SerialFirstOpens \in BOOLEAN

VARIABLES
    mercuryInit,        \* g_mercury_init
    nClass,             \* classes HG_Init created so far
    hgClass,            \* the global hg_class: a class number, 0 for NULL
    hgContext,          \* the global hg_context: a context number, 0 for NULL
    ctxClass,           \* ctxClass[c]: class of context c (HG_Context_create(hg_class))
    registered,         \* classes the client RPCs were registered on
    progressThreads,    \* hvac_progress_fn threads started
    pc,                 \* where each thread is in its first tracked open
    inflight            \* forwarded opens: [t, ctx] with the handle's context

vars == <<mercuryInit, nClass, hgClass, hgContext, ctxClass, registered,
          progressThreads, pc, inflight>>

PCs == {"check", "init", "ctx", "spawn", "register", "setflag", "forward",
        "wait", "done", "abort"}

TypeOK ==
    /\ mercuryInit \in BOOLEAN
    /\ nClass \in 0..Cardinality(Threads)
    /\ hgClass \in 0..nClass
    /\ ctxClass \in Seq(1..nClass)
    /\ hgContext \in 0..Len(ctxClass)
    /\ registered \subseteq 1..nClass
    /\ progressThreads \in 0..Cardinality(Threads)
    /\ pc \in [Threads -> PCs]
    /\ inflight \subseteq [t : Threads, ctx : 1..Len(ctxClass)]

Init ==
    /\ mercuryInit = FALSE
    /\ nClass = 0 /\ hgClass = 0 /\ hgContext = 0 /\ ctxClass = <<>>
    /\ registered = {}
    /\ progressThreads = 0
    /\ pc = [t \in Threads |-> "check"]
    /\ inflight = {}

\* Thread u is inside the initialisation block of hvac_track_file.
InInit(u) == pc[u] \in {"init", "ctx", "spawn", "register", "setflag"}

\* Advance thread t from one point of the open to the next.
Goto(t, from, to) ==
    /\ pc[t] = from
    /\ pc' = [pc EXCEPT ![t] = to]

\* Mutant of CheckInit: the g_mercury_init test is lost, every first open
\* initialises again.
CheckInitIgnoreFlag(t) ==
    /\ ~SerialFirstOpens \/ \A u \in Threads : ~InInit(u)
    /\ Goto(t, "check", "init")
    /\ UNCHANGED <<mercuryInit, nClass, hgClass, hgContext, ctxClass, registered,
                   progressThreads, inflight>>

\* if (!g_mercury_init): enter the initialisation, or go straight to gen_open.
CheckInit(t) ==
    /\ ~SerialFirstOpens \/ \A u \in Threads : ~InInit(u)
    /\ Goto(t, "check", IF mercuryInit THEN "forward" ELSE "init")
    /\ UNCHANGED <<mercuryInit, nClass, hgClass, hgContext, ctxClass, registered,
                   progressThreads, inflight>>

\* Mutant of HgInit: HG_Init fails and returns NULL, which is only logged.
HgInitNull(t) ==
    /\ Goto(t, "init", "ctx")
    /\ hgClass' = 0
    /\ UNCHANGED <<mercuryInit, nClass, hgContext, ctxClass, registered,
                   progressThreads, inflight>>

\* hvac_init_comm: hg_class = HG_Init(...).
HgInit(t) ==
    /\ Goto(t, "init", "ctx")
    /\ nClass' = nClass + 1
    /\ hgClass' = nClass + 1
    /\ UNCHANGED <<mercuryInit, hgContext, ctxClass, registered, progressThreads,
                   inflight>>

\* hvac_init_comm: hg_context = HG_Context_create(hg_class), on whatever
\* class the global holds now.
ContextCreate(t) ==
    /\ Goto(t, "ctx", "spawn")
    /\ ctxClass' = Append(ctxClass, hgClass)
    /\ hgContext' = Len(ctxClass) + 1
    /\ UNCHANGED <<mercuryInit, nClass, hgClass, registered, progressThreads,
                   inflight>>

\* Mutant of SpawnProgress: the progress thread is not started.
SpawnProgressNoThread(t) ==
    /\ Goto(t, "spawn", "register")
    /\ UNCHANGED <<mercuryInit, nClass, hgClass, hgContext, ctxClass, registered,
                   progressThreads, inflight>>

\* Mutant of SpawnProgress: hvac_client_comm_register_rpc is not called
\* after hvac_init_comm.
SpawnProgressSkipRegister(t) ==
    /\ Goto(t, "spawn", "setflag")
    /\ progressThreads' = progressThreads + 1
    /\ UNCHANGED <<mercuryInit, nClass, hgClass, hgContext, ctxClass, registered,
                   inflight>>

\* hvac_init_comm: pthread_create(hvac_progress_fn).
SpawnProgress(t) ==
    /\ Goto(t, "spawn", "register")
    /\ progressThreads' = progressThreads + 1
    /\ UNCHANGED <<mercuryInit, nClass, hgClass, hgContext, ctxClass, registered,
                   inflight>>

\* hvac_open/rpc/close/seek_rpc_register: MERCURY_REGISTER on the global
\* hg_class as it is at the call (the four calls are one step here).
RegisterOnGlobalClass == registered' = registered \cup {hgClass}

\* hvac_client_comm_register_rpc: the client RPCs on the global hg_class.
RegisterRpc(t) ==
    /\ Goto(t, "register", "setflag")
    /\ RegisterOnGlobalClass
    /\ UNCHANGED <<mercuryInit, nClass, hgClass, hgContext, ctxClass,
                   progressThreads, inflight>>

\* g_mercury_init = true.
SetInitFlag(t) ==
    /\ Goto(t, "setflag", "forward")
    /\ mercuryInit' = TRUE
    /\ UNCHANGED <<nClass, hgClass, hgContext, ctxClass, registered,
                   progressThreads, inflight>>

\* gen_open: hvac_comm_create_handle(HG_Create on the global hg_context,
\* asserting success) and HG_Forward; then wait for the callback.  HG_Create
\* fails on a NULL context or an RPC id not registered on its class.
CreateAndForward(t) ==
    LET ok == hgContext # 0 /\ ctxClass[hgContext] \in registered IN
    /\ pc[t] = "forward"
    /\ \/ /\ ok
          /\ pc' = [pc EXCEPT ![t] = "wait"]
          /\ inflight' = inflight \cup {[t |-> t, ctx |-> hgContext]}
       \/ /\ ~ok
          /\ pc' = [pc EXCEPT ![t] = "abort"]
          /\ UNCHANGED inflight
    /\ UNCHANGED <<mercuryInit, nClass, hgClass, hgContext, ctxClass, registered,
                   progressThreads>>

\* hvac_progress_fn: HG_Progress/HG_Trigger on the global hg_context runs
\* the open callback of a handle of that context, which wakes its caller.
Progress ==
    /\ progressThreads > 0
    /\ \E m \in inflight :
        /\ m.ctx = hgContext
        /\ inflight' = inflight \ {m}
        /\ pc' = [pc EXCEPT ![m.t] = "done"]
    /\ UNCHANGED <<mercuryInit, nClass, hgClass, hgContext, ctxClass, registered,
                   progressThreads>>

\* Every thread has returned from its open or the process aborted.
Finished ==
    /\ \A t \in Threads : pc[t] \in {"done", "abort"}
    /\ UNCHANGED vars

Step(t) ==
    \/ CheckInit(t) \/ HgInit(t) \/ ContextCreate(t) \/ SpawnProgress(t)
    \/ RegisterRpc(t) \/ SetInitFlag(t) \/ CreateAndForward(t)

Next == (\E t \in Threads : Step(t)) \/ Progress \/ Finished

\* A thread inside open keeps running; the progress threads keep running.
Spec == Init /\ [][Next]_vars /\ (\A t \in Threads : WF_vars(Step(t))) /\ WF_vars(Progress)

-----------------------------------------------------------------------------
(* Properties *)

\* hvac_comm_create_handle never asserts: every handle a tracked open
\* creates is on a context whose class has the client RPCs registered.
HandleRegistered == \A t \in Threads : pc[t] # "abort"

\* Every forwarded open is on the context the progress threads drive:
\* no later hvac_init_comm has replaced the global hg_context under it.
InflightProgressed == \A m \in inflight : m.ctx = hgContext

\* A tracked open that forwarded its RPC returns: the progress thread runs
\* its callback (hvac_wait_for_operation has no deadline).
OpensComplete == \A t \in Threads : pc[t] = "wait" ~> pc[t] = "done"

=============================================================================
