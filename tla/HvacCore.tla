------------------------------ MODULE HvacCore ------------------------------
(***************************************************************************)
(* The redirection core of MT-HVAC: the interposed open/read/pread/close   *)
(* of the client (wrappers.c, mthvac_client.cpp), the client operation     *)
(* engine with its fd state table and per-operation sync contexts          *)
(* (mthvac_comm_client.cpp), and the server RPC handlers with the bulk     *)
(* push of read data (mthvac_comm.cpp).                                    *)
(*                                                                         *)
(* Actors: application threads (Threads), the client progress thread that  *)
(* runs the RPC callbacks, and one progress thread per server that runs    *)
(* the handlers and the bulk-completion callback.  Each handler or         *)
(* callback is one atomic step, as the single progress thread of its       *)
(* process serialises them.  RPCs in flight are sets: Mercury does not     *)
(* order distinct RPCs.                                                    *)
(*                                                                         *)
(* Data is abstracted to the offsets it comes from: a read delivers a      *)
(* segment [path, start, len] of a file of FileLen bytes.  The ghost       *)
(* seqLog records what read() returned to the application on each fd.      *)
(***************************************************************************)
EXTENDS Integers, Sequences, FiniteSets, FiniteSetsExt

CONSTANTS
    Threads,        \* application threads
    LocalFds,       \* client fd numbers the kernel hands out (lowest free first)
    Paths,          \* canonical paths an application opens
    DataPaths,      \* the paths under HVAC_DATA_DIR, which hvac_track_file tracks
    Servers,        \* server ranks
    Host,           \* std::hash(path) % g_hvac_server_count, as a function
    SrvFds,         \* fd numbers a server's open() can return (EMFILE beyond)
    FileLen,        \* length in bytes of every file
    ReadSize,       \* the count every read/pread asks for
    PreadOffsets,   \* offsets applications pass to pread
    MaxOps,         \* bound: opens plus reads a thread issues
    OpenSendFails,  \* may HG_Forward of an open fail
    ReadSendFails,  \* may HG_Forward of a read fail
    CloseSendFails, \* may HG_Forward of a close fail
    EarlyReads,     \* may a thread read an fd before the open that made it returned
    SeekInterposed, \* is the lseek wrapper (commented out in wrappers.c) built in
    SeekOffsets,    \* offsets applications pass to lseek(fd, off, SEEK_SET)
    None            \* model value: absent map entry / no value

ASSUME /\ DataPaths \subseteq Paths
       /\ Host \in [Paths -> Servers]
       /\ SrvFds \subseteq Nat \ {0}
       /\ LocalFds \subseteq Nat
       /\ FileLen \in Nat /\ ReadSize \in Nat \ {0}
       /\ PreadOffsets \subseteq 0..FileLen
       /\ SeekOffsets \subseteq 0..FileLen
       /\ SeekInterposed \in BOOLEAN
       /\ {OpenSendFails, ReadSendFails, CloseSendFails, EarlyReads} \subseteq BOOLEAN

VARIABLES
    \* client kernel state
    osPath,     \* osPath[fd]: file the kernel has open on local fd, or None
    osPos,      \* osPos[fd]: the kernel file offset of local fd
    owner,      \* owner[fd]: thread whose open() returned fd, None until it returns
    \* client maps (fd_map, fd_redir_map, fd_state_map)
    fdMap,      \* fdMap[fd]: canonical path of a tracked fd, or None
    fdRedir,    \* fdRedir[fd]: remote fd, 0 (inserted by operator[]), or None
    fdState,    \* fdState[fd]: "NONE" (no entry), "OPENING", "READY", "ERROR"
    \* application threads
    pc,         \* where each thread is
    opFd,       \* the local fd of the thread's current operation
    opOff,      \* -1 for read(), the offset for pread()
    sync,       \* the thread's hvac_sync_context: [done, result]
    buf,        \* the caller buffer: the segment the bulk push wrote, or None
    opsLeft,    \* bound on operations
    \* transport
    reqs,       \* RPC requests in flight to servers
    resps,      \* RPC responses in flight to the client progress thread
    bulks,      \* bulk pushes started by a server and not yet complete
    \* servers
    srvFile,    \* srvFile[s][R]: path the server has open on fd R (fd_to_path), or None
    srvPos,     \* srvPos[s][R]: file offset of server fd R
    dataQueue,  \* paths handed to each server's data mover
    \* ghost
    seqLog      \* seqLog[fd].segs: segments read() returned on fd since it was
                \* opened or last repositioned to seqLog[fd].base

osVars     == <<osPath, osPos, owner>>
clientVars == <<fdMap, fdRedir, fdState>>
threadVars == <<pc, opFd, opOff, sync, buf, opsLeft>>
netVars    == <<reqs, resps, bulks>>
srvVars    == <<srvFile, srvPos, dataQueue>>
vars == <<osVars, clientVars, threadVars, netVars, srvVars, seqLog>>

-----------------------------------------------------------------------------
(* Data *)

Segment == [path : Paths, start : 0..FileLen, len : 0..ReadSize]

\* The bytes a segment stands for.
Bytes(seg) == seg.start .. (seg.start + seg.len - 1)

\* What read(2)/pread(2) of ReadSize bytes at offset off returns: it stops at EOF.
SegAt(p, off) == [path |-> p, start |-> off,
                  len |-> IF FileLen - off < ReadSize THEN FileLen - off ELSE ReadSize]

PCs == {"idle", "open_track", "open_rpc", "open_wait", "read_ready", "read_wait",
        "seek_wait"}

NoSync == [done |-> FALSE, result |-> -1]

Req == [type : {"open"}, srv : Servers, t : Threads, fd : LocalFds, path : Paths]
  \cup [type : {"read"}, srv : Servers, t : Threads, rfd : SrvFds, off : {-1} \cup PreadOffsets]
  \cup [type : {"close"}, srv : Servers, rfd : SrvFds]
  \cup [type : {"seek"}, srv : Servers, t : Threads, rfd : SrvFds \cup {0}, off : SeekOffsets]

Resp == [type : {"open"}, srv : Servers, t : Threads, fd : LocalFds, status : SrvFds \cup {-1}]
   \cup [type : {"read"}, t : Threads, ret : 0..ReadSize]
   \cup [type : {"seek"}, t : Threads, ret : SeekOffsets \cup {-1}]

\* The ghost read log of a freshly opened fd.
FreshLog == [base |-> 0, segs |-> <<>>]

TypeOK ==
    /\ osPath \in [LocalFds -> Paths \cup {None}]
    /\ osPos \in [LocalFds -> 0..FileLen]
    /\ owner \in [LocalFds -> Threads \cup {None}]
    /\ fdMap \in [LocalFds -> Paths \cup {None}]
    /\ fdRedir \in [LocalFds -> SrvFds \cup {0, None}]
    /\ fdState \in [LocalFds -> {"NONE", "OPENING", "READY", "ERROR"}]
    /\ pc \in [Threads -> PCs]
    /\ opFd \in [Threads -> LocalFds \cup {None}]
    /\ opOff \in [Threads -> {-1} \cup PreadOffsets \cup SeekOffsets]
    /\ sync \in [Threads -> [done : BOOLEAN,
                             result : {-1} \cup 0..ReadSize \cup SrvFds \cup SeekOffsets]]
    /\ buf \in [Threads -> Segment \cup {None}]
    /\ opsLeft \in [Threads -> 0..MaxOps]
    /\ reqs \subseteq Req /\ resps \subseteq Resp
    /\ bulks \subseteq [srv : Servers, t : Threads, seg : Segment]
    /\ \A b \in bulks : b.seg.start + b.seg.len <= FileLen
    /\ srvFile \in [Servers -> [SrvFds -> Paths \cup {None}]]
    /\ srvPos \in [Servers -> [SrvFds -> 0..FileLen]]
    /\ dataQueue \in [Servers -> SUBSET Paths]
    /\ seqLog \in [LocalFds -> [base : 0..FileLen, segs : Seq(Segment)]]

Init ==
    /\ osPath = [fd \in LocalFds |-> None]
    /\ osPos = [fd \in LocalFds |-> 0]
    /\ owner = [fd \in LocalFds |-> None]
    /\ fdMap = [fd \in LocalFds |-> None]
    /\ fdRedir = [fd \in LocalFds |-> None]
    /\ fdState = [fd \in LocalFds |-> "NONE"]
    /\ pc = [t \in Threads |-> "idle"]
    /\ opFd = [t \in Threads |-> None]
    /\ opOff = [t \in Threads |-> -1]
    /\ sync = [t \in Threads |-> NoSync]
    /\ buf = [t \in Threads |-> None]
    /\ opsLeft = [t \in Threads |-> MaxOps]
    /\ reqs = {} /\ resps = {} /\ bulks = {}
    /\ srvFile = [s \in Servers |-> [R \in SrvFds |-> None]]
    /\ srvPos = [s \in Servers |-> [R \in SrvFds |-> 0]]
    /\ dataQueue = [s \in Servers |-> {}]
    /\ seqLog = [fd \in LocalFds |-> FreshLog]

-----------------------------------------------------------------------------
(* Helpers of the client *)

\* hvac_file_tracked / hvac_get_path: fd has an fd_map entry.
Tracked(fd) == fdMap[fd] # None

\* fd_redir_map holds a usable remote fd for fd (find != end && value != 0).
RemoteKnown(fd) == fdRedir[fd] \notin {None, 0}

\* hvac_set_fd_opening: a fresh status in OPENING replaces any entry of fd.
SetFdOpening(fd) == fdState' = [fdState EXCEPT ![fd] = "OPENING"]

\* hvac_set_fd_ready / hvac_set_fd_error: look the entry up and, if there is
\* one, set its state and broadcast; with no entry nothing happens.
SetFdReady(fd) ==
    fdState' = IF fdState[fd] = "NONE" THEN fdState ELSE [fdState EXCEPT ![fd] = "READY"]

SetFdError(fd) ==
    fdState' = IF fdState[fd] = "NONE" THEN fdState ELSE [fdState EXCEPT ![fd] = "ERROR"]

\* hvac_cleanup_fd_state: erase the entry.
CleanupFdState(fd) == fdState' = [fdState EXCEPT ![fd] = "NONE"]

\* hvac_wait_for_operation: the caller wakes once its callback set done.
WaitDone(t) == sync[t].done

\* The thread starts an application call.
StartOp(t) ==
    /\ pc[t] = "idle"
    /\ opsLeft[t] > 0
    /\ opsLeft' = [opsLeft EXCEPT ![t] = @ - 1]

\* The thread's call returns to the application.
Finish(t) ==
    /\ pc' = [pc EXCEPT ![t] = "idle"]
    /\ opFd' = [opFd EXCEPT ![t] = None]
    /\ opOff' = [opOff EXCEPT ![t] = -1]

\* A thread may read fd once the open that made it has returned; with
\* EarlyReads also while that open is still inside the wrapper (a second
\* thread that already holds the number).
Readable(fd) ==
    /\ osPath[fd] # None
    /\ EarlyReads \/ owner[fd] # None

\* What the application receives from read()/pread(): read() results are
\* logged per fd.
Deliver(fd, off, seg) ==
    seqLog' = IF off = -1 THEN [seqLog EXCEPT ![fd].segs = Append(@, seg)] ELSE seqLog

\* No thread has a call of its own on fd in progress.
NoCallOn(fd) == \A u \in Threads : pc[u] = "idle" \/ opFd[u] # fd

\* The shim's fallback: __real_read / __real_pread on the local fd.
OsRead(t, fd, off) ==
    LET seg == SegAt(osPath[fd], IF off = -1 THEN osPos[fd] ELSE off) IN
    /\ osPos' = IF off = -1 THEN [osPos EXCEPT ![fd] = @ + seg.len] ELSE osPos
    /\ Deliver(fd, off, seg)
    /\ Finish(t)
    /\ UNCHANGED reqs

\* gen_read after its checks: register the caller buffer and forward read_in.
SendRead(t, fd, off) ==
    /\ reqs' = reqs \cup {[type |-> "read", srv |-> Host[fdMap[fd]], t |-> t,
                           rfd |-> fdRedir[fd], off |-> off]}
    /\ pc' = [pc EXCEPT ![t] = "read_wait"]
    /\ opFd' = [opFd EXCEPT ![t] = fd]
    /\ opOff' = [opOff EXCEPT ![t] = off]
    /\ UNCHANGED <<osPos, seqLog>>

\* gen_read once hvac_wait_fd_ready returned `ready`: check the remote fd,
\* forward, or return -1 so that the shim falls back to the local fd.
AfterWaitReady(t, fd, off, ready) ==
    \/ /\ ready /\ RemoteKnown(fd)
       /\ SendRead(t, fd, off)
    \/ /\ ready /\ RemoteKnown(fd) /\ ReadSendFails
       /\ OsRead(t, fd, off)
    \/ /\ ~(ready /\ RemoteKnown(fd))
       /\ OsRead(t, fd, off)

\* hvac_wait_fd_ready up to its wait: no entry, a terminal state, or block.
WaitFdReady(t, fd, off) ==
    \/ /\ fdState[fd] = "NONE"
       /\ OsRead(t, fd, off)
    \/ /\ fdState[fd] \in {"READY", "ERROR"}
       /\ AfterWaitReady(t, fd, off, fdState[fd] = "READY")
    \/ /\ fdState[fd] = "OPENING"
       /\ pc' = [pc EXCEPT ![t] = "read_ready"]
       /\ opFd' = [opFd EXCEPT ![t] = fd]
       /\ opOff' = [opOff EXCEPT ![t] = off]
       /\ UNCHANGED <<reqs, osPos, seqLog>>

-----------------------------------------------------------------------------
(* Application threads: open *)

\* WRAP open: the real open() returns the lowest free local fd.
OpenSyscall(t, p) ==
    /\ StartOp(t)
    /\ \E fd \in LocalFds : osPath[fd] = None
    /\ LET fd == Min({f \in LocalFds : osPath[f] = None}) IN
       /\ osPath' = [osPath EXCEPT ![fd] = p]
       /\ osPos' = [osPos EXCEPT ![fd] = 0]
       /\ seqLog' = [seqLog EXCEPT ![fd] = FreshLog]
       /\ opFd' = [opFd EXCEPT ![t] = fd]
    /\ pc' = [pc EXCEPT ![t] = "open_track"]
    /\ UNCHANGED <<owner, clientVars, opOff, sync, buf, netVars, srvVars>>

\* hvac_track_file: a path under the data directory goes into fd_map and on
\* to the remote open; any other path is left to the kernel.
TrackFile(t) ==
    LET fd == opFd[t] IN
    /\ pc[t] = "open_track"
    /\ \/ /\ osPath[fd] \in DataPaths
          /\ fdMap' = [fdMap EXCEPT ![fd] = osPath[fd]]
          /\ pc' = [pc EXCEPT ![t] = "open_rpc"]
          /\ UNCHANGED <<owner, opFd>>
       \/ /\ osPath[fd] \notin DataPaths
          /\ owner' = [owner EXCEPT ![fd] = t]
          /\ pc' = [pc EXCEPT ![t] = "idle"]
          /\ opFd' = [opFd EXCEPT ![t] = None]
          /\ UNCHANGED fdMap
    /\ UNCHANGED <<osPath, osPos, fdRedir, fdState, opOff, sync, buf, opsLeft,
                   netVars, srvVars, seqLog>>

\* Mutant of GenOpen: after a failed forward the caller still waits for
\* the open callback.
GenOpenWaitOnFail(t) ==
    LET fd == opFd[t] IN
    /\ pc[t] = "open_rpc"
    /\ \/ /\ SetFdOpening(fd)
          /\ reqs' = reqs \cup {[type |-> "open", srv |-> Host[fdMap[fd]], t |-> t,
                                 fd |-> fd, path |-> fdMap[fd]]}
       \/ /\ OpenSendFails
          /\ fdState' = [fdState EXCEPT ![fd] = "ERROR"]
          /\ UNCHANGED reqs
    /\ pc' = [pc EXCEPT ![t] = "open_wait"]
    /\ UNCHANGED <<osPath, osPos, owner, fdMap, fdRedir, opFd, opOff, sync, buf,
                   opsLeft, resps, bulks, srvVars, seqLog>>

\* gen_open: hvac_set_fd_opening, then HG_Forward of open_in.  When the
\* forward fails the entry goes to ERROR, gen_open returns -1, and
\* hvac_track_file reports the fd untracked (leaving it in fd_map).
GenOpen(t) ==
    LET fd == opFd[t] IN
    /\ pc[t] = "open_rpc"
    /\ \/ /\ SetFdOpening(fd)
          /\ reqs' = reqs \cup {[type |-> "open", srv |-> Host[fdMap[fd]], t |-> t,
                                 fd |-> fd, path |-> fdMap[fd]]}
          /\ pc' = [pc EXCEPT ![t] = "open_wait"]
          /\ UNCHANGED <<owner, opFd>>
       \/ /\ OpenSendFails
          /\ fdState' = [fdState EXCEPT ![fd] = "ERROR"]
          /\ owner' = [owner EXCEPT ![fd] = t]
          /\ pc' = [pc EXCEPT ![t] = "idle"]
          /\ opFd' = [opFd EXCEPT ![t] = None]
          /\ UNCHANGED reqs
    /\ UNCHANGED <<osPath, osPos, fdMap, fdRedir, opOff, sync, buf, opsLeft,
                   resps, bulks, srvVars, seqLog>>

\* The open wrapper returns once the open callback signalled.
OpenReturn(t) ==
    /\ pc[t] = "open_wait"
    /\ WaitDone(t)
    /\ owner' = [owner EXCEPT ![opFd[t]] = t]
    /\ pc' = [pc EXCEPT ![t] = "idle"]
    /\ opFd' = [opFd EXCEPT ![t] = None]
    /\ sync' = [sync EXCEPT ![t] = NoSync]
    /\ UNCHANGED <<osPath, osPos, clientVars, opOff, buf, opsLeft, netVars,
                   srvVars, seqLog>>

-----------------------------------------------------------------------------
(* Application threads: read, pread, close *)

\* hvac_remote_read: an fd in fd_map goes to gen_read with offset -1 (via
\* hvac_wait_fd_ready); otherwise -1, and WRAP read calls __real_read.
RemoteRead(t, fd) ==
    \/ /\ ~Tracked(fd)
       /\ OsRead(t, fd, -1)
    \/ /\ Tracked(fd)
       /\ WaitFdReady(t, fd, -1)

\* WRAP read: hvac_remote_read, and __real_read on a -1 result.  No lseek
\* of the same fd is in flight (the application's own calls are ordered).
Read(t, fd) ==
    /\ StartOp(t)
    /\ Readable(fd)
    /\ \A u \in Threads : pc[u] # "seek_wait" \/ opFd[u] # fd
    /\ RemoteRead(t, fd)
    /\ UNCHANGED <<osPath, owner, clientVars, sync, buf, resps, bulks, srvVars>>

\* hvac_remote_pread: gen_read only when fd_redir_map[fd] is non-zero; that
\* lookup inserts 0 for an fd it does not hold.  -1 otherwise.
RemotePread(t, fd, off) ==
    \/ /\ ~RemoteKnown(fd)
       /\ fdRedir' = [fdRedir EXCEPT ![fd] = 0]
       /\ OsRead(t, fd, off)
    \/ /\ RemoteKnown(fd)
       /\ WaitFdReady(t, fd, off)
       /\ UNCHANGED fdRedir

\* WRAP pread: a path known to hvac_get_path goes to hvac_remote_pread, with
\* __real_pread on -1; any other fd goes straight to __real_pread.
Pread(t, fd, off) ==
    /\ StartOp(t)
    /\ Readable(fd)
    /\ \/ /\ ~Tracked(fd)
          /\ OsRead(t, fd, off)
          /\ UNCHANGED fdRedir
       \/ /\ Tracked(fd)
          /\ RemotePread(t, fd, off)
    /\ UNCHANGED <<osPath, owner, fdMap, fdState, sync, buf, resps, bulks,
                   srvVars>>

\* A reader blocked in hvac_wait_fd_ready is woken by the broadcast of a
\* terminal state.
ReadWake(t) ==
    LET fd == opFd[t] IN
    /\ pc[t] = "read_ready"
    /\ fdState[fd] # "OPENING"
    /\ AfterWaitReady(t, fd, opOff[t], fdState[fd] = "READY")
    /\ UNCHANGED <<osPath, owner, clientVars, sync, buf, opsLeft, resps, bulks,
                   srvVars>>

\* pthread_cond_timedwait returns ETIMEDOUT: hvac_wait_fd_ready returns
\* false, gen_read -1, the shim reads locally.  The timeout can win against
\* a broadcast that already changed the state, since ETIMEDOUT is returned
\* without looking at the state again.
ReadTimeout(t) ==
    LET fd == opFd[t] IN
    /\ pc[t] = "read_ready"
    /\ OsRead(t, fd, opOff[t])
    /\ UNCHANGED <<osPath, owner, clientVars, sync, buf, opsLeft, resps, bulks,
                   srvVars>>

\* gen_read returns the count its callback signalled; the shim hands the
\* buffer, filled by the bulk push, to the application.
ReadReturn(t) ==
    /\ pc[t] = "read_wait"
    /\ WaitDone(t)
    /\ Deliver(opFd[t], opOff[t], [buf[t] EXCEPT !.len = sync[t].result])
    /\ Finish(t)
    /\ sync' = [sync EXCEPT ![t] = NoSync]
    /\ buf' = [buf EXCEPT ![t] = None]
    /\ UNCHANGED <<osVars, clientVars, opsLeft, netVars, srvVars>>

\* Mutant of GenClose: the fd_redir_map entry is not erased after the close
\* is forwarded.
GenCloseKeepRedir(fd) ==
    /\ \/ /\ RemoteKnown(fd)
          /\ reqs' = reqs \cup {[type |-> "close", srv |-> Host[fdMap[fd]],
                                 rfd |-> fdRedir[fd]]}
       \/ /\ RemoteKnown(fd) /\ CloseSendFails
          /\ UNCHANGED reqs
       \/ /\ ~RemoteKnown(fd)
          /\ UNCHANGED reqs
    /\ UNCHANGED fdRedir
    /\ CleanupFdState(fd)

\* Mutant of GenClose: the fd's state entry is not dropped
\* (hvac_cleanup_fd_state left out).
GenCloseNoCleanup(fd) ==
    /\ \/ /\ RemoteKnown(fd)
          /\ reqs' = reqs \cup {[type |-> "close", srv |-> Host[fdMap[fd]],
                                 rfd |-> fdRedir[fd]]}
          /\ fdRedir' = [fdRedir EXCEPT ![fd] = None]
       \/ /\ RemoteKnown(fd) /\ CloseSendFails
          /\ fdRedir' = [fdRedir EXCEPT ![fd] = None]
          /\ UNCHANGED reqs
       \/ /\ ~RemoteKnown(fd)
          /\ UNCHANGED <<reqs, fdRedir>>
    /\ UNCHANGED fdState

\* gen_close: with a usable remote fd, forward close_in (no response) and
\* erase it from fd_redir_map; then drop the fd's state entry.
GenClose(fd) ==
    /\ \/ /\ RemoteKnown(fd)
          /\ reqs' = reqs \cup {[type |-> "close", srv |-> Host[fdMap[fd]],
                                 rfd |-> fdRedir[fd]]}
          /\ fdRedir' = [fdRedir EXCEPT ![fd] = None]
       \/ /\ RemoteKnown(fd) /\ CloseSendFails
          /\ fdRedir' = [fdRedir EXCEPT ![fd] = None]
          /\ UNCHANGED reqs
       \/ /\ ~RemoteKnown(fd)
          /\ UNCHANGED <<reqs, fdRedir>>
    /\ CleanupFdState(fd)

\* hvac_remote_close: a tracked fd goes to gen_close.
RemoteClose(fd) ==
    /\ Tracked(fd)
    /\ GenClose(fd)

\* hvac_remove_fd: hvac_remote_close, then erase fd from fd_map.
RemoveFd(fd) ==
    /\ RemoteClose(fd)
    /\ fdMap' = [fdMap EXCEPT ![fd] = None]

\* WRAP close: a fd with a path goes through hvac_remove_fd; then the real
\* close frees the local fd.  The application closes an fd it opened, with
\* no call of its own still on it.
Close(t, fd) ==
    /\ pc[t] = "idle"
    /\ owner[fd] = t
    /\ NoCallOn(fd)
    /\ \/ RemoveFd(fd)
       \/ /\ ~Tracked(fd)
          /\ UNCHANGED <<clientVars, reqs>>
    /\ osPath' = [osPath EXCEPT ![fd] = None]
    /\ osPos' = [osPos EXCEPT ![fd] = 0]
    /\ owner' = [owner EXCEPT ![fd] = None]
    /\ seqLog' = [seqLog EXCEPT ![fd] = FreshLog]
    /\ UNCHANGED <<threadVars, resps, bulks, srvVars>>

-----------------------------------------------------------------------------
(* Application threads: lseek *)

\* hvac_client_comm_gen_seek_rpc: no wait for READY; fd_redir_map[fd]
\* inserts 0 for an fd without a remote fd and that is what is sent.
GenSeek(t, fd, off) ==
    LET rfd == IF fdRedir[fd] = None THEN 0 ELSE fdRedir[fd] IN
    /\ fdRedir' = [fdRedir EXCEPT ![fd] = rfd]
    /\ reqs' = reqs \cup {[type |-> "seek", srv |-> Host[fdMap[fd]], t |-> t,
                           rfd |-> rfd, off |-> off]}
    /\ pc' = [pc EXCEPT ![t] = "seek_wait"]
    /\ opFd' = [opFd EXCEPT ![t] = fd]
    /\ opOff' = [opOff EXCEPT ![t] = off]
    /\ UNCHANGED <<osPos, seqLog>>

\* lseek(fd, off, SEEK_SET).  With the lseek wrapper built in, a tracked fd
\* goes to hvac_remote_lseek; otherwise (as wrappers.c is built) the kernel
\* moves the local fd's offset.  Offset discipline: no other call of the
\* application is on the fd.
Lseek(t, fd, off) ==
    /\ StartOp(t)
    /\ Readable(fd)
    /\ NoCallOn(fd)
    /\ \/ /\ SeekInterposed /\ Tracked(fd)
          /\ GenSeek(t, fd, off)
       \/ /\ ~SeekInterposed \/ ~Tracked(fd)
          /\ osPos' = [osPos EXCEPT ![fd] = off]
          /\ seqLog' = [seqLog EXCEPT ![fd] = [base |-> off, segs |-> <<>>]]
          /\ UNCHANGED <<fdRedir, reqs, pc, opFd, opOff>>
    /\ UNCHANGED <<osPath, owner, fdMap, fdState, sync, buf, resps, bulks, srvVars>>

\* gen_seek returns what the seek callback signalled; the new position
\* holds for later read() calls when it is the one asked for.
SeekReturn(t) ==
    /\ pc[t] = "seek_wait"
    /\ WaitDone(t)
    /\ seqLog' = IF sync[t].result = opOff[t]
                   THEN [seqLog EXCEPT ![opFd[t]] = [base |-> opOff[t], segs |-> <<>>]]
                   ELSE seqLog
    /\ Finish(t)
    /\ sync' = [sync EXCEPT ![t] = NoSync]
    /\ UNCHANGED <<osVars, clientVars, buf, opsLeft, netVars, srvVars>>

-----------------------------------------------------------------------------
(* The client progress thread: RPC callbacks *)

\* Mutant of OpenCallback: the error path forgets to signal the waiter.
OpenCallbackNoErrorSignal ==
    \E m \in resps :
        /\ m.type = "open"
        /\ \/ /\ m.status > 0
              /\ fdRedir' = [fdRedir EXCEPT ![m.fd] = m.status]
              /\ SetFdReady(m.fd)
              /\ sync' = [sync EXCEPT ![m.t] = [done |-> TRUE, result |-> m.status]]
           \/ /\ m.status <= 0
              /\ SetFdError(m.fd)
              /\ UNCHANGED <<fdRedir, sync>>
        /\ resps' = resps \ {m}
        /\ UNCHANGED <<osVars, fdMap, pc, opFd, opOff, buf, opsLeft, reqs, bulks,
                       srvVars, seqLog>>

\* hvac_open_cb: a positive status goes into fd_redir_map and marks the fd
\* READY, anything else marks it ERROR; then the caller is signalled.
OpenCallback ==
    \E m \in resps :
        /\ m.type = "open"
        /\ \/ /\ m.status > 0
              /\ fdRedir' = [fdRedir EXCEPT ![m.fd] = m.status]
              /\ SetFdReady(m.fd)
           \/ /\ m.status <= 0
              /\ SetFdError(m.fd)
              /\ UNCHANGED fdRedir
        /\ sync' = [sync EXCEPT ![m.t] = [done |-> TRUE, result |-> m.status]]
        /\ resps' = resps \ {m}
        /\ UNCHANGED <<osVars, fdMap, pc, opFd, opOff, buf, opsLeft, reqs, bulks,
                       srvVars, seqLog>>

\* Mutant of ReadCallback: the caller is signalled with the count it asked
\* for instead of out.ret.
ReadCallbackCount ==
    \E m \in resps :
        /\ m.type = "read"
        /\ sync' = [sync EXCEPT ![m.t] = [done |-> TRUE, result |-> ReadSize]]
        /\ resps' = resps \ {m}
        /\ UNCHANGED <<osVars, clientVars, pc, opFd, opOff, buf, opsLeft, reqs,
                       bulks, srvVars, seqLog>>

\* hvac_read_cb: the caller is signalled with out.ret, the bytes the server
\* pushed.
ReadCallback ==
    \E m \in resps :
        /\ m.type = "read"
        /\ sync' = [sync EXCEPT ![m.t] = [done |-> TRUE, result |-> m.ret]]
        /\ resps' = resps \ {m}
        /\ UNCHANGED <<osVars, clientVars, pc, opFd, opOff, buf, opsLeft, reqs,
                       bulks, srvVars, seqLog>>

\* hvac_seek_cb: the caller is signalled with out.ret.
SeekCallback ==
    \E m \in resps :
        /\ m.type = "seek"
        /\ sync' = [sync EXCEPT ![m.t] = [done |-> TRUE, result |-> m.ret]]
        /\ resps' = resps \ {m}
        /\ UNCHANGED <<osVars, clientVars, pc, opFd, opOff, buf, opsLeft, reqs,
                       bulks, srvVars, seqLog>>

-----------------------------------------------------------------------------
(* The server progress threads: RPC handlers and bulk completion *)

\* hvac_open_rpc_handler: open the path read-only (lowest free fd, or -1
\* when the server is out of fds), remember fd -> path, respond.
SrvOpen(s) ==
    \E m \in reqs :
        /\ m.type = "open" /\ m.srv = s
        /\ LET free == {R \in SrvFds : srvFile[s][R] = None} IN
           \/ /\ free # {}
              /\ srvFile' = [srvFile EXCEPT ![s][Min(free)] = m.path]
              /\ srvPos' = [srvPos EXCEPT ![s][Min(free)] = 0]
              /\ resps' = resps \cup {[type |-> "open", srv |-> s, t |-> m.t,
                                       fd |-> m.fd, status |-> Min(free)]}
           \/ /\ free = {}
              /\ resps' = resps \cup {[type |-> "open", srv |-> s, t |-> m.t,
                                       fd |-> m.fd, status |-> -1]}
              /\ UNCHANGED <<srvFile, srvPos>>
        /\ reqs' = reqs \ {m}
        /\ UNCHANGED <<osVars, clientVars, threadVars, bulks, dataQueue, seqLog>>

\* Mutant of TransferSize: the push always moves the requested count.
TransferSizeCount(readbytes, count) == count

\* hvac_rpc_handler, lines 217-219: the transfer is cut to what read returned.
TransferSize(readbytes, count) == readbytes

\* Mutant of SrvRead: read() at offset -1 does not advance the server's
\* file position (a pread at the stored position that forgets to move it).
SrvReadNoAdvance(s) ==
    \E m \in reqs :
        /\ m.type = "read" /\ m.srv = s
        /\ srvFile[s][m.rfd] # None
        /\ LET start == IF m.off = -1 THEN srvPos[s][m.rfd] ELSE m.off
               got   == SegAt(srvFile[s][m.rfd], start)
           IN bulks' = bulks \cup {[srv |-> s, t |-> m.t,
                                    seg |-> [got EXCEPT !.len = TransferSize(got.len, ReadSize)]]}
        /\ reqs' = reqs \ {m}
        /\ UNCHANGED <<osVars, clientVars, threadVars, resps, srvVars, seqLog>>

\* Mutant of SrvRead: the handler responds at once instead of from the bulk
\* completion callback.
SrvReadEarlyRespond(s) ==
    \E m \in reqs :
        /\ m.type = "read" /\ m.srv = s
        /\ srvFile[s][m.rfd] # None
        /\ LET start == IF m.off = -1 THEN srvPos[s][m.rfd] ELSE m.off
               got   == SegAt(srvFile[s][m.rfd], start)
               seg   == [got EXCEPT !.len = TransferSize(got.len, ReadSize)]
           IN
           /\ srvPos' = IF m.off = -1
                          THEN [srvPos EXCEPT ![s][m.rfd] = @ + got.len]
                          ELSE srvPos
           /\ bulks' = bulks \cup {[srv |-> s, t |-> m.t, seg |-> seg]}
           /\ resps' = resps \cup {[type |-> "read", t |-> m.t, ret |-> seg.len]}
        /\ reqs' = reqs \ {m}
        /\ UNCHANGED <<osVars, clientVars, threadVars, srvFile, dataQueue, seqLog>>

\* hvac_rpc_handler: read (offset -1) or pread into a server buffer, then
\* start the bulk push into the client's registered buffer.
SrvRead(s) ==
    \E m \in reqs :
        /\ m.type = "read" /\ m.srv = s
        /\ srvFile[s][m.rfd] # None
        /\ LET start == IF m.off = -1 THEN srvPos[s][m.rfd] ELSE m.off
               got   == SegAt(srvFile[s][m.rfd], start)
           IN
           /\ srvPos' = IF m.off = -1
                          THEN [srvPos EXCEPT ![s][m.rfd] = @ + got.len]
                          ELSE srvPos
           /\ bulks' = bulks \cup {[srv |-> s, t |-> m.t,
                                    seg |-> [got EXCEPT !.len = TransferSize(got.len, ReadSize)]]}
        /\ reqs' = reqs \ {m}
        /\ UNCHANGED <<osVars, clientVars, threadVars, resps, srvFile, dataQueue,
                       seqLog>>

\* hvac_rpc_handler_bulk_cb: the data has landed in the caller buffer; the
\* server responds with the transfer size.
SrvBulkDone ==
    \E b \in bulks :
        /\ buf' = [buf EXCEPT ![b.t] = b.seg]
        /\ resps' = resps \cup {[type |-> "read", t |-> b.t, ret |-> b.seg.len]}
        /\ bulks' = bulks \ {b}
        /\ UNCHANGED <<osVars, clientVars, pc, opFd, opOff, sync, opsLeft, reqs,
                       srvVars, seqLog>>

\* hvac_close_rpc_handler: close the fd, queue its path for the data mover,
\* forget fd -> path.  close() is asserted to succeed; a close request for
\* an fd the server has not open would abort it, and is never served here
\* (ServerFdAccounting rules such a request out).
SrvClose(s) ==
    \E m \in reqs :
        /\ m.type = "close" /\ m.srv = s
        /\ srvFile[s][m.rfd] # None
        /\ dataQueue' = [dataQueue EXCEPT ![s] = @ \cup {srvFile[s][m.rfd]}]
        /\ srvFile' = [srvFile EXCEPT ![s][m.rfd] = None]
        /\ reqs' = reqs \ {m}
        /\ UNCHANGED <<osVars, clientVars, threadVars, resps, bulks, srvPos, seqLog>>

\* Server s has fd R open.
SrvHasOpen(s, R) == R \in SrvFds /\ srvFile[s][R] # None

\* hvac_seek_rpc_handler: lseek64 on the received fd, respond with its
\* result.  An fd the server has not open (0 included: the server's own
\* stdin) makes lseek fail with -1.
SrvSeek(s) ==
    \E m \in reqs :
        /\ m.type = "seek" /\ m.srv = s
        /\ \/ /\ SrvHasOpen(s, m.rfd)
              /\ srvPos' = [srvPos EXCEPT ![s][m.rfd] = m.off]
              /\ resps' = resps \cup {[type |-> "seek", t |-> m.t, ret |-> m.off]}
           \/ /\ ~SrvHasOpen(s, m.rfd)
              /\ resps' = resps \cup {[type |-> "seek", t |-> m.t, ret |-> -1]}
              /\ UNCHANGED srvPos
        /\ reqs' = reqs \ {m}
        /\ UNCHANGED <<osVars, clientVars, threadVars, bulks, srvFile, dataQueue, seqLog>>

-----------------------------------------------------------------------------
(* The specification *)

\* Every thread has used its operations, closed its fds, and nothing is in
\* flight: the application has finished.
Finished ==
    /\ \A t \in Threads : pc[t] = "idle" /\ opsLeft[t] = 0
    /\ \A fd \in LocalFds : owner[fd] = None
    /\ reqs = {} /\ resps = {} /\ bulks = {}
    /\ UNCHANGED vars

Next ==
    \/ \E t \in Threads, p \in Paths : OpenSyscall(t, p)
    \/ \E t \in Threads : TrackFile(t) \/ GenOpen(t) \/ OpenReturn(t)
    \/ \E t \in Threads, fd \in LocalFds : Read(t, fd) \/ Close(t, fd)
    \/ \E t \in Threads, fd \in LocalFds, off \in PreadOffsets : Pread(t, fd, off)
    \/ \E t \in Threads, fd \in LocalFds, off \in SeekOffsets : Lseek(t, fd, off)
    \/ \E t \in Threads : ReadWake(t) \/ ReadTimeout(t) \/ ReadReturn(t) \/ SeekReturn(t)
    \/ OpenCallback \/ ReadCallback \/ SeekCallback
    \/ \E s \in Servers : SrvOpen(s) \/ SrvRead(s) \/ SrvClose(s) \/ SrvSeek(s)
    \/ SrvBulkDone
    \/ Finished

\* The progress threads and handlers always run; a thread inside a call
\* keeps running, and its 5 s wait deadline expires.  Starting a call is
\* not forced.
Fairness ==
    /\ \A t \in Threads : /\ WF_vars(TrackFile(t)) /\ WF_vars(GenOpen(t))
                          /\ WF_vars(OpenReturn(t)) /\ WF_vars(ReadWake(t))
                          /\ WF_vars(ReadTimeout(t)) /\ WF_vars(ReadReturn(t))
                          /\ WF_vars(SeekReturn(t))
    /\ WF_vars(OpenCallback) /\ WF_vars(ReadCallback) /\ WF_vars(SeekCallback)
    /\ WF_vars(SrvBulkDone)
    /\ \A s \in Servers : /\ WF_vars(SrvOpen(s)) /\ WF_vars(SrvRead(s))
                          /\ WF_vars(SrvClose(s)) /\ WF_vars(SrvSeek(s))

Spec == Init /\ [][Next]_vars /\ Fairness


-----------------------------------------------------------------------------
(* Properties *)

\* A read() on fd has been issued and has not returned.
SeqReadInFlight(fd) ==
    \E t \in Threads : pc[t] \in {"read_ready", "read_wait"} /\ opFd[t] = fd /\ opOff[t] = -1

\* POSIX read semantics through the redirection (spec section 8, round
\* trip): the read() calls on an open fd, whether served by the server's
\* file position (offset -1) or by the shim's fallback to the local fd,
\* return bytes of that fd's file, none past EOF, no byte twice, and, once
\* none is in flight, every byte from the position the fd was opened at or
\* last lseek'd to up to the furthest one returned.
SequentialReadSemantics ==
    \A fd \in LocalFds : osPath[fd] # None =>
        LET log  == seqLog[fd].segs
            base == seqLog[fd].base
            got  == UNION {Bytes(log[i]) : i \in DOMAIN log}
        IN
        /\ \A i \in DOMAIN log : /\ log[i].path = osPath[fd]
                                 /\ log[i].start + log[i].len <= FileLen
        /\ \A i, j \in DOMAIN log : i < j => Bytes(log[i]) \cap Bytes(log[j]) = {}
        /\ ~SeqReadInFlight(fd) => got = base .. (base + Cardinality(got) - 1)

\* The local fds whose fd_redir_map entry names server fd R of server s.
FdHolders(s, R) ==
    {fd \in LocalFds : fdMap[fd] # None /\ Host[fdMap[fd]] = s /\ fdRedir[fd] = R}

\* Everything that accounts for server fd R of s: a client fd mapped to it,
\* an open response carrying it, or a close request for it.
NumHolders(s, R) ==
    Cardinality(FdHolders(s, R))
    + Cardinality({m \in resps : m.type = "open" /\ m.srv = s /\ m.status = R})
    + Cardinality({m \in reqs : m.type = "close" /\ m.srv = s /\ m.rfd = R})

\* Server fds opened by hvac_open_rpc_handler are neither leaked nor shared:
\* each one the server holds open is accounted for by exactly one client fd
\* (of the same path), open response or close request, and none is
\* accounted for once the server closed it.  Fire-and-forget close
\* (gen_close) and the erase order in hvac_remove_fd are what keep it.
ServerFdAccounting ==
    \A s \in Servers, R \in SrvFds :
        /\ NumHolders(s, R) = IF srvFile[s][R] = None THEN 0 ELSE 1
        /\ \A fd \in FdHolders(s, R) : fdMap[fd] = srvFile[s][R]

\* The caller buffer registered by gen_read is still owned by a thread
\* blocked in that read when the server's bulk push lands in it: the server
\* answers only from the bulk-completion callback, so gen_read cannot return
\* (and the stack buffer go away) before the push completed.
BufferSafety ==
    \A b \in bulks : pc[b.t] = "read_wait" /\ ~sync[b.t].done

\* Every interposed call returns: open waits on its callback, read on the
\* fd state and then on its callback, and nothing they wait for is lost.
OpsTerminate ==
    \A t \in Threads : pc[t] # "idle" ~> pc[t] = "idle"

\* The one-step changes of an fd's fd_state_map entry: creation in OPENING
\* (or OPENING then ERROR inside a gen_open whose forward failed), OPENING
\* to a terminal state, and erasure.
FdStateSteps ==
    {<<"NONE", "OPENING">>, <<"NONE", "ERROR">>, <<"OPENING", "READY">>,
     <<"OPENING", "ERROR">>, <<"OPENING", "NONE">>, <<"READY", "NONE">>,
     <<"ERROR", "NONE">>}

\* Monotonic state (spec section 8): an fd's entry never goes back from
\* READY or ERROR to OPENING, nor from one terminal state to the other; it
\* leaves a terminal state only when close erases it.  So a reopened fd
\* number never inherits the state of the previous open of that number
\* (hvac_set_fd_opening would silently replace it), and a read of the new
\* open waits for its own open callback.  hvac_cleanup_fd_state in
\* gen_close, and the callbacks firing only while their open waits, keep it.
MonotonicFdState ==
    [][\A fd \in LocalFds :
           fdState'[fd] # fdState[fd] => <<fdState[fd], fdState'[fd]>> \in FdStateSteps]_fdState

-----------------------------------------------------------------------------
(* Refinement of PosixRead *)

\* The application's view of its fds: an fd is open from the moment its
\* open() returned (owner set) until close() frees it.
AppFile == [fd \in LocalFds |-> IF owner[fd] = None THEN None ELSE osPath[fd]]

\* The offset that the next read() of fd will be served from: the server's
\* file position for an fd with a remote fd, the kernel's otherwise.
AppOffset ==
    [fd \in LocalFds |-> IF fdMap[fd] # None /\ RemoteKnown(fd)
                           THEN srvPos[Host[fdMap[fd]]][fdRedir[fd]]
                           ELSE osPos[fd]]

\* What a read() in progress will return, once the server has read it: the
\* segment being pushed, then the one in the caller's buffer, cut to the
\* count the read callback signalled.
ReadResult(t) ==
    IF \E b \in bulks : b.t = t THEN (CHOOSE b \in bulks : b.t = t).seg
    ELSE IF buf[t] = None THEN None
    ELSE IF sync[t].done THEN [buf[t] EXCEPT !.len = sync[t].result]
    ELSE buf[t]

\* An lseek in progress has taken effect once the server moved its file
\* position: its response, or the result its callback signalled, is not -1.
SeekTaken(t) ==
    \/ \E m \in resps : m.type = "seek" /\ m.t = t /\ m.ret # -1
    \/ sync[t].done /\ sync[t].result # -1

\* read() and lseek() calls in progress (pread leaves the offset alone and
\* is not one).
AppPending ==
    [t \in Threads |->
        CASE pc[t] \in {"read_ready", "read_wait"} /\ opOff[t] = -1 ->
                [fd |-> opFd[t], seg |-> ReadResult(t)]
          [] pc[t] = "seek_wait" ->
                [fd |-> opFd[t], to |-> opOff[t], done |-> SeekTaken(t)]
          [] OTHER -> None]

Posix == INSTANCE PosixRead
            WITH file <- AppFile, off <- AppOffset,
                 got <- [fd \in LocalFds |-> seqLog[fd].segs], pend <- AppPending

\* The interposed calls implement POSIX file semantics: every step of the
\* shim, the client engine and the servers is invisible to the application
\* or is one step of PosixRead.  A read() served remotely takes effect when
\* the server reads at its file position of the fd's remote fd, which is
\* the application's offset; its result reaches the caller unchanged
\* through the bulk push, the transfer size and the read callback; and no
\* other step (a remote open, a pread, a seek, a close of another fd) moves
\* the offset the application sees.
PosixRefinement == Posix!Spec

=============================================================================
