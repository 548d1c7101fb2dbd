# TLA+ models of MT-HVAC

MT-HVAC is a read-side file cache for HPC jobs. An `LD_PRELOAD` shim
intercepts `open`, `close`, `read` and `pread`. Reads of files under the data
directory are sent to a server rank chosen by hashing the path. The server
pushes the bytes into the caller's buffer with a Mercury bulk transfer. This
directory holds TLA+ models of that redirection core and the TLC
configurations that check them.

## 1. The system: parts, state, operations

| Part | Source | State it keeps | Operations |
|---|---|---|---|
| POSIX shim | `src/wrappers.c` | none of its own (uses the client core) | `open`: real open, then `hvac_track_file`. `read`/`pread`: remote call; a result of -1 falls back to `__real_read`/`__real_pread`. `close`: `hvac_remove_fd`, then the real close. `lseek` is **commented out**. |
| Client core | `src/mthvac_client.cpp` | `fd_map` (local fd → canonical path), `fd_redir_map` (local fd → server fd), `g_mercury_init` | `hvac_track_file` (path filter, `fd_map`, lazy Mercury init, synchronous remote open), `hvac_remote_read`/`pread`/`close`/`lseek`, `hvac_remove_fd` |
| FD state table (C4) | `src/mthvac_comm_client.cpp:40-170` | sharded `fd_state_map`: fd → {OPENING, READY, ERROR} with a mutex and a condition variable | `set_opening`, `set_ready`, `set_error` (these broadcast), `wait_fd_ready` (5 s deadline), `cleanup` |
| Sync waiter (C3) | `mthvac_comm_client.cpp:21-36, 316-334` | a `done`/`result` slot on the caller's stack, one per operation | the callback completes it; `hvac_wait_for_operation` waits with **no deadline** |
| Operation engine (C5) | `mthvac_comm_client.cpp:209-570` | `hvac_rpc_state` and `hvac_open_state` per call | `gen_open`, `gen_read` (read and pread), `gen_close` (fire-and-forget), `gen_seek`, and the open/read/seek callbacks |
| Server locator (C1) | `mthvac_comm_client.cpp:576-614`, `mthvac_comm.cpp:122-149` | `address_cache`, the rendezvous file `.ports.cfg.<job>` | `lookup_addr` (first matching line), `list_addr` (the server appends its address) |
| Transport (C2) | `src/mthvac_comm.cpp:35-116, 300-428` | the global `hg_class`/`hg_context`, the progress thread, the shutdown flag | init, progress loop, shutdown (does not join), RPC registration, handle creation |
| Server handlers (C6) | `src/mthvac_comm.cpp:150-297` | server fds, their file positions, `fd_to_path`, `data_queue` | open (read-only open, respond), read/pread (read into a server buffer, bulk PUSH, respond from the bulk callback), close (close, enqueue the path, erase), seek |
| Server main | `src/mthvac_server.cpp` | | starts the comm server and the data mover |
| Data mover | not under `src/` (`mthvac_data_mover_internal.h` is missing) | `path_cache_map`, `data_queue` | warms cached copies |

**How the parts interact.** An application thread blocks in `open` while the
open RPC runs. The Mercury progress thread runs the callbacks. `hvac_open_cb`
writes `fd_redir_map`, moves the FD state to READY or ERROR, and signals the
opener's sync waiter. A `read` on a tracked fd first waits for READY. It then
registers the caller's buffer as the bulk target and forwards `read_in`. It
waits until `hvac_read_cb` signals. The server answers only from
`hvac_rpc_handler_bulk_cb`, after the push has landed. A close is
fire-and-forget.

**What is hard here.** The hard behaviours are the ones a test seldom reaches:

- A second thread reads an fd whose open has not finished.
- The 5 s wait deadline races the broadcast.
- An `HG_Forward` fails after part of the state is already changed.
- The shim's local fallback reads at a kernel offset that remote reads never
  moved.
- The server runs out of fds.
- A response could overtake the bulk push.
- Calls block for ever on a response that never comes.
- The lazy initialisation of Mercury and of the rwlocks races between threads.

The hazards are listed one per source line in `PROJECT.json`.

**Properties per part.**

- Shim, client core and server together: POSIX read semantics
  (`SequentialReadSemantics`).
- Client maps, close and the server handlers: every server fd is accounted
  for (`ServerFdAccounting`).
- Operation engine and bulk protocol: the pushed-into buffer is still live
  (`BufferSafety`).
- Waiters and callbacks: every call returns (`OpsTerminate`).
- The whole client and server against an abstract POSIX file
  (`PosixRead`): the detailed model implements it (`PosixRefinement`).

## 2. Plan

The modules, most important first:

1. **HvacCore** (done). The shim, the client core, the FD state table, the
   waiters, gen_open/gen_read/gen_close with their callbacks, and the server's
   open/read/bulk/close handlers, over an unordered network.
2. **Seek, inside HvacCore** (done). `hvac_remote_lseek`, `gen_seek`, the
   seek callback and handler, and `lseek` both as built (the wrapper is
   commented out) and with the wrapper compiled in (`SeekInterposed`).
3. **HvacCommInit** (done). The `g_mercury_init` lazy-init race
   (`mthvac_client.cpp:146`), `hvac_init_comm`'s overwrite of the global class
   and context, the RPC registration, handle creation, and the progress
   threads that drive the global context. Still to add: shutdown without a
   join.
4. **ServerLocator** (done). `lookup_addr` with `address_cache`, the
   rendezvous file written by `list_addr`, and the open that follows.
5. **PosixRead** (done). The abstract spec: a file offset per fd, and
   read()/lseek() calls that each take effect at one instant between call
   and return. HvacCore refines it under the contract configuration (section
   5).
6. **Multi-server** configurations of HvacCore, with `Host` splitting the
   paths over two ranks: `MC_HvacCore` takes a `Host` function, but no run
   uses a second rank yet (section 4 says why one rank is expected to
   suffice). Server read failures (`mthvac_comm.cpp:219`) stay out of the model, for
   the reason given in section 6.
7. **FdStateTable** (done). The locking of `fd_state_map`: the 64 shard
   rwlocks, their lazy initialisation, and each map access as a step of its
   own (section 4).

## 3. HvacCore: how the model corresponds to the code

**Constants.**

- `Threads`, `LocalFds`, `Paths` (with `DataPaths`, the paths that
  `hvac_track_file` accepts), `Servers` with `Host` (the path hash modulo the
  server count), `SrvFds` (the server's free fds).
- `FileLen`, `ReadSize`: every file is `FileLen` bytes, and every read asks
  for `ReadSize`.
- `PreadOffsets`, `SeekOffsets` (`lseek(fd, off, SEEK_SET)`; whence is
  abstracted to SEEK_SET), `MaxOps` (the calls each thread makes).
- `SeekInterposed`: whether the lseek wrapper is built in. In `wrappers.c` as
  shipped it is commented out (FALSE).
- Switches for the environment: `OpenSendFails`, `ReadSendFails` and
  `CloseSendFails` (an `HG_Forward` may fail), and `EarlyReads` (a thread may
  read an fd whose `open()` has not returned).

**State.**

- `osPath`, `osPos`, `owner`: the client kernel's fd table and offsets, and
  which thread's `open` returned the fd.
- `fdMap`, `fdRedir`, `fdState`: `fd_map`, `fd_redir_map` and `fd_state_map`.
  `None` is "no entry". `fdRedir = 0` is the entry that `operator[]` inserts.
- `pc`, `opFd`, `opOff`, `sync`, `buf`: where each application thread is in
  its call, its sync waiter, and its registered buffer.
- `reqs`, `resps`, `bulks`: requests, responses and bulk pushes in flight, as
  sets. Mercury does not order them.
- `srvFile`, `srvPos`, `dataQueue`: the server's open fds (their paths),
  their file positions, and the data-mover queue.
- `seqLog` is a ghost variable. It records, per fd, the bytes each `read()`
  returned since the fd was opened or last repositioned (`base`).

Bytes are abstracted to segments `[path, start, len]`. `SegAt` is what
`read`/`pread` of `ReadSize` bytes returns, cut at end of file.

**Actions.** Each action models the whole handler. The `map` in
`PROJECT.json` gives the lines for each one.

| Action | Code |
|---|---|
| `OpenSyscall` | `WRAP open`: the real open takes the lowest free fd |
| `TrackFile` | `hvac_track_file` up to `fd_map[fd] = …` |
| `GenOpen` | `gen_open`: `set_opening`, then the forward. If the forward fails: ERROR and return -1, with `fd_map` kept |
| `OpenReturn` | the waiter wakes and the wrapper returns |
| `Read`, `Pread` | `WRAP read`/`pread`: `RemoteRead` (`hvac_remote_read`) or `RemotePread` (`hvac_remote_pread`, whose lookup inserts 0), up to `wait_fd_ready`; `Tracked` is `hvac_file_tracked` |
| `ReadWake`, `ReadTimeout` | the waiter in `wait_fd_ready` is woken by the broadcast, or gets ETIMEDOUT (which can win even after the state changed) |
| `ReadReturn` | `gen_read` returns the callback's count |
| `Lseek`, `GenSeek`, `SeekReturn` | `lseek`: the kernel's own, or `hvac_remote_lseek` → `gen_seek`, which sends `fd_redir_map[fd]` (0 if absent) without waiting for READY |
| `SeekCallback`, `SrvSeek` | `hvac_seek_cb`; the server's seek handler, whose `lseek64` fails on an fd the server has not open |
| `Close` | `WRAP close`: `RemoveFd` (`hvac_remove_fd`: `RemoteClose`, that is `gen_close`, then the `fd_map` erase), then the real close |
| `OpenCallback`, `ReadCallback` | `hvac_open_cb`, `hvac_read_cb` |
| `SrvOpen`, `SrvRead`, `SrvBulkDone`, `SrvClose` | the server's open handler, `hvac_rpc_handler`, `hvac_rpc_handler_bulk_cb`, and the close handler |
| `SetFdOpening`, `SetFdReady`, `SetFdError`, `CleanupFdState` | the FD state table's setters, used by `GenOpen`, `OpenCallback` and `GenClose`. `SetFdReady`/`SetFdError` do nothing when the fd has no entry, as `hvac_get_fd_status` then returns null |
| `Finished` | the application is done. It only stutters, so that a finished run is not a deadlock |

**Fairness.** Weak fairness is assumed only where the code guarantees
progress:

- every step of a thread that is already inside a call (`TrackFile`,
  `GenOpen`, `OpenReturn`, `ReadWake`, `ReadReturn`);
- `ReadTimeout`, because the 5 s deadline always expires;
- the client progress thread's callbacks;
- the server's handlers and bulk completion.

Starting a call (`OpenSyscall`, `Read`, `Pread`, `Close`) gets no fairness:
the application may stop.

## 4. Runs

All HvacCore runs use `MC_HvacCore` with two threads, local fds {3, 4}, a tracked path
`pd` and an untracked path `pu`, one server with one free fd, a 3-byte file
read 2 bytes at a time, pread offset {1}, lseek offset {1} (`faults` leaves seek out to keep its
state space small), and 3 calls per thread. These bounds
are enough:

- two reads cover a full read, a short read and EOF;
- one server fd makes the second concurrent open hit EMFILE;
- the second local fd lets both threads hold files, and lets an fd number be
  reused after a close.

The runs use one server rank. Nothing in the code couples two servers: the client
recomputes the rank from the path on every call, and `fd_redir_map` keeps
only the remote fd.

| Run | Config | Checks | Result |
|---|---|---|---|
| `contract` | `MC_HvacCore_contract.cfg` | TypeOK, SequentialReadSemantics, ServerFdAccounting, BufferSafety, OpsTerminate, PosixRefinement, MonotonicFdState, with lseek interposed | pass (about 212k states, 1.5 min) |
| `faults` | `MC_HvacCore_faults.cfg` | ServerFdAccounting, BufferSafety, OpsTerminate, MonotonicFdState, with early reads, timeouts, and failing open/read forwards | pass (about 217k states) |
| `early_read` | `MC_HvacCore_early.cfg` | SequentialReadSemantics | violation |
| `read_send_fail` | `MC_HvacCore_readfail.cfg` | SequentialReadSemantics | violation |
| `close_send_fail` | `MC_HvacCore_closefail.cfg` | ServerFdAccounting | violation |
| `lseek_not_interposed` | `MC_HvacCore_lseek.cfg` | SequentialReadSemantics, with lseek as built | violation |
| `comm_init_serial` | `HvacCommInit_serial.cfg` | TypeOK, HandleRegistered, InflightProgressed, OpensComplete; four threads whose first opens do not overlap in the init block | pass |
| `comm_init_race_abort` | `HvacCommInit_race_abort.cfg` | HandleRegistered; two concurrent first opens | violation |
| `locator_clients_early` | `ServerLocator_early.cfg` | NoBootstrapCrash; clients may start first | violation |
| `fdtable_one_shard` | `FdStateTable_one_shard.cfg` | TableCallsReturn; fds 3, 67 and 131 share shard 3, so a writer can wait behind two readers | pass (about 4k states) |
| `fdtable_shards` | `FdStateTable_shards.cfg` | MapRaceFree; fds 3 and 4 in different shards | violation |
| `fdtable_init_race` | `FdStateTable_init_race.cfg` | MapRaceFree; fds 3, 67 and 131 in one shard, first calls may overlap | violation |

What the runs show:

- **contract.** Under the application contract (read only an fd you opened)
  and a reliable transport, the redirection keeps POSIX `read()` semantics:
  remote and local reads mix, the fd is reused, and server EMFILE occurs. No
  server fd leaks or is shared. The response never overtakes the bulk push.
  Every call returns, including the open whose server open failed. Every
  behaviour is a behaviour of `PosixRead`: concurrent `read()`s of one fd
  take disjoint ranges in the order the server reads them, and each returns
  what its bulk push delivered. An fd's state entry only moves forward
  (OPENING to READY or ERROR) and leaves a terminal state only when close
  erases it, so a reused fd number never starts from the state of the
  previous open (spec section 8, monotonic state).
- **faults.** Early reads, wait timeouts and forward failures break read
  semantics, but not fd accounting, buffer lifetime, termination or the
  monotonic fd state. A timed-out read leaves the entry in OPENING, as spec
  section 7 says, and a failed forward takes it straight to ERROR.
- **early_read.** `hvac_track_file` writes `fd_map` (`mthvac_client.cpp:130`)
  before `set_opening` (`mthvac_comm_client.cpp:409`). A read in that window
  finds no state, so it reads the local fd: bytes 0-1. The next read is remote
  and starts at server offset 0: bytes 0-1 again. The spec says such a read
  sees READY, ERROR or a timeout.
- **read_send_fail.** A failed read forward makes the shim read locally at an
  offset that remote reads never moved, so the same bytes are returned twice.
- **lseek_not_interposed.** The lseek wrapper is commented out, so `lseek` on
  a tracked fd moves only the kernel offset. The next `read()` is served from
  the server's position. Spec section 8, example 6 says it sees the new
  position.
- **comm_init_race_abort.** Two threads pass `if (!g_mercury_init)` together.
  The second `HG_Init` replaces `hg_class` after the first thread created its
  context but before it registered the RPCs. The first thread registers on
  the wrong class, and its `HG_Create` asserts.
  The same race has a second outcome: when the first thread has already
  forwarded its open on context 1, the second `hvac_init_comm` replaces the
  global `hg_context`, every progress thread drives only the new context, and
  the first open never returns (`OpensComplete` fails under the same
  constants, with deadlock checking off because the asserting thread stops).
  One run shows the race; the hang is not a run of its own.
- **comm_init_serial.** When the first opens do not overlap in the init block
  (for example, the main thread opens a file before it starts workers),
  initialisation happens once. Every handle is on a registered context that
  is progressed, and every open returns.
- **locator_clients_early.** A lookup before any server has written the
  rendezvous file runs `fscanf` on `fopen`'s NULL and the application dies.
  (A lookup of a rank with no line yet returns nullptr; `HG_Create` accepts
  it, `HG_Forward` fails and the open falls back to the OS, as the spec
  wants.) The spec (sections 4.1 and 8, example 5) says the open fails with NO_SERVER and
  the shim reads from the OS.
- **fdtable_shards.** Two threads open fds 3 and 4. `hvac_set_fd_opening`
  takes the write lock of shard 3 and of shard 4, so both insert into the one
  `fd_state_map` at the same time: a data race on the container, which can
  corrupt it (a rehash under a concurrent insert or find). The same happens
  between a `close`'s erase and the progress thread's `set_ready` lookup.
- **fdtable_one_shard.** When every fd falls in one shard and the first call
  initialises the locks alone, every table call gets its shard lock and
  returns, the progress thread's `set_ready` included: no writer waits for
  ever behind readers, and no call leaves a lock held.
- **fdtable_init_race.** With the same fds but no order on the first calls,
  two threads both see `fd_state_rwlocks_initialized` unset. The second
  `pthread_rwlock_init` loop frees shard 3 while the first thread holds it
  for its insert, and the second thread inserts alongside it
  (`mthvac_comm_client.cpp:70`).
- **close_send_fail.** `gen_close` erases the mapping even when the close
  forward failed, so the server fd leaks. The spec says the server's close
  still runs.

Each property of a passing run has a mutant:

- in `HvacCore`: `TransferSizeCount`, `SrvReadNoAdvance`,
  `GenCloseKeepRedir`, `SrvReadEarlyRespond`, `OpenCallbackNoErrorSignal`,
  `GenOpenWaitOnFail`, `ReadCallbackCount` (the callback signals the count
  asked for instead of `out.ret`, caught by `PosixRefinement`),
  `GenCloseNoCleanup` (gen_close without `hvac_cleanup_fd_state`, caught by
  `MonotonicFdState` when the fd number is reused);
- in `HvacCommInit`: `HgInitNull`, `SpawnProgressSkipRegister`,
  `CheckInitIgnoreFlag`, `SpawnProgressNoThread`;
- in `FdStateTable`: `UnlockKeepReader` (a lookup that does not give its read lock back; the
  next writer of the shard blocks for ever, caught by `TableCallsReturn`).

With each mutant in place, TLC finds its property violated under the run's
config.

**HvacCommInit.** Each thread makes its first tracked open. The steps are:

- `CheckInit`;
- `HgInit`, `ContextCreate`, `SpawnProgress`, `RegisterRpc` and
  `SetInitFlag`, the statements of `hvac_track_file`'s init block and
  `hvac_init_comm`;
- `CreateAndForward`, that is `hvac_comm_create_handle` and `HG_Forward`.

`Progress` is a progress thread triggering the global context. Classes and
contexts are numbered in creation order. The server's answer is abstracted
away. Weak fairness holds for each thread inside its open and for the
progress threads.

**ServerLocator.** The state is:

- the rendezvous file, as a sequence of `[rank, addr]` lines, and whether it
  exists;
- each server's listening address;
- `address_cache`;
- each client thread's open.

The actions are:

- `ServerInit`: `hvac_start_comm_server` up to `hvac_init_comm(true)`, which
  listens at a fresh address;
- `ListAddr`: `hvac_comm_list_addr`, followed by the RPC registration;
- `Lookup`: the whole of `hvac_client_comm_lookup_addr`, that is the cache
  hit, the missing file, the first matching line (`FirstLine`) and the
  missing rank;
- `CreateForward`: the rest of `gen_open`'s dispatch:
  `hvac_comm_create_handle` (Mercury's `HG_Create` accepts a NULL address,
  so its assert holds) and `HG_Forward`, which fails for a NULL address, so
  the open returns -1 and the shim uses the OS;
- `Serve`: the answer of whichever server listens at the address.

Servers are started once and never killed, as the launch scripts do; a
restarted server, whose old line stays first in the append-only file, is
listed as a hazard (`mthvac_comm_client.cpp:579`) and not modelled. The one
run lets clients open files before the servers have posted. Weak fairness holds for a started server
until it has posted, and for a thread inside its open. Nothing forces a thread
to start an open. The run uses two ranks, two threads with one open each, and two server
starts.

**FdStateTable.** The state is:

- `rwInit`, `fd_state_rwlocks_initialized`;
- `lock[s]`, the writer and readers of shard `s`'s rwlock;
- `table`, `fd_state_map` (no entry, OPENING or READY);
- each actor's step in its current table call, and each thread's progress
  through open, read and close.

Each application thread opens its fd (`hvac_set_fd_opening`), waits for it
(`hvac_wait_fd_ready`'s `hvac_get_fd_status`) and closes it
(`hvac_cleanup_fd_state`); the progress thread's open callback calls
`hvac_set_fd_ready`. Every call is split into `CheckInit` (the unlocked flag
test), `InitLocks` (the `pthread_rwlock_init` loop and the flag set),
`Acquire` (the shard lock, blocking) and `Release` (the map access and the
unlock). A re-initialised lock is free: initialising a held rwlock is
undefined, and glibc's initialiser zeroes it. `FirstCallAlone` says that no
call runs between another's flag test and flag set, which holds when the main
thread opens a file before it starts workers. Each step inside a call is
weakly fair, for the application threads and the progress thread alike;
starting a call is not, since the application may stop and an open callback
waits for the server. Weak fairness is enough for the blocking `Acquire`:
each holder releases within its own call, and the calls are finitely many,
so a waiter's lock is eventually free for good. `Finished` lets the model stop once every
thread has closed.

## 5. PosixRead: the abstract spec and the refinement

`PosixRead` is what an application is promised of `open`/`read`/`lseek`/`close`
on a read-only file, whatever serves the calls. Its state:

- `file[fd]` and `off[fd]`: the open file and the offset of each fd;
- `pend[t]`: a call of thread `t` in progress, that is a `read()` with
  `[fd, seg]` or an `lseek()` with `[fd, to, done]`;
- `got[fd]`: the results `read()` returned on `fd`, in return order, since the
  open or the last `lseek()`.

A `read()` is `ReadCall`, `ReadTake` and `ReadReturn`. `ReadTake` is the
instant it takes `SegAt(file, off)` and moves the offset. `ReadNow` is a read
whose three steps happen at once. `lseek` is `SeekCall`, `SeekTake` and
`SeekReturn`, or `SeekNow`. An `lseek` that fails (-1) never takes effect.
`pread` leaves the offset alone and is a stuttering step.

`HvacCore` instantiates it as `Posix` with:

- `AppFile`: the path of an fd whose `open()` has returned.
- `AppOffset`: for an fd with a usable remote fd, the server's position of
  that remote fd (`srvPos`); otherwise the kernel offset (`osPos`).
- `got`: the ghost `seqLog[fd].segs`.
- `AppPending`: a thread inside `read()` (not `pread`) or in `lseek`'s wait.
  `ReadResult` is what the call will return: the segment of its bulk push in
  flight, or the buffer, cut to the callback's count once signalled.
  `SeekTaken` holds once the server's `lseek64` has succeeded.

So the remote read takes effect at `SrvRead`, when the server reads at its
own position. The client returns that result unchanged. No other step may
move `AppOffset`.

`PosixRefinement` (`Posix!Spec` as a `PROPERTY`) holds under `contract`.
The violation runs `early_read`, `read_send_fail` and `lseek_not_interposed`
check `SequentialReadSemantics`, the state invariant that names the same
failure (a read returning bytes another read already returned); they do not
check `PosixRefinement`. Each counterexample ends in the state
where the same bytes were returned twice.

`PosixRead` lets `lseek` fail, which POSIX does not do for `SEEK_SET` to a
valid offset of an open file. With the lseek wrapper built in, the code's
`lseek` does fail on an fd whose remote open failed: `gen_seek` sends the 0
that `fd_redir_map[fd]` inserts. The
shipped build never reaches `gen_seek`, because the wrapper is commented
out. The refinement therefore checks read semantics, not `lseek`'s return
value.

## 6. Not modelled

- **Transport error completions.** `hvac_open_cb` and `hvac_read_cb` assert
  `info->ret == HG_SUCCESS`, so an error completion aborts the client, where
  spec section 7 says the callback turns it into -1. Mercury produces one
  only on cancellation or a network fault, which are outside the sources.
  This is listed as a hazard.
- **Data races on the unsynchronised maps** `fd_map`, `fd_redir_map` and
  `address_cache`. Each of their accesses is atomic in the model. The race on
  `fd_state_map` is modelled (FdStateTable).
- **The window between a server posting its address and registering its
  RPCs.** How Mercury answers an RPC id it does not know is outside the
  sources. `ListAddr` includes the registration, and the window is listed as
  a hazard.
- **Server shutdown without a join (`hvac_shutdown_comm`).** This is listed
  as a hazard.
- **`fd_to_path` and the redirect `path_cache_map`.** The data mover is not
  under `src/`.
- **Path canonicalisation and the path filter.** These are abstracted to
  `DataPaths`.
- **Logging, timing and statistics.**
- **Message loss after a successful `HG_Forward`.** With it, `OpsTerminate` would fail trivially, because the waits have no
  deadline. This is listed as a hazard.
- **Applications that close an fd while another of their calls uses it.** The
  spec's contract forbids this.
- **The rest of `wrappers.c`.** The `lseek`, `lseek64`, `readv`, `mmap`,
  `fopen64`, `read64` and `write` wrappers are commented out. `fwrite`,
  `fsync`, `fdatasync`, `fopen`, `check_open_mode`, `fclose`, `pwrite`, and
  second copies of `lseek`, `lseek64`, `pread` and `write`, are inside
  `#if 0` (`wrappers.c:471-592`). `export_stats_to_file` writes statistics. None of these is
  built.
- **The print-stats RPC** (`mthvac_comm.cpp:379-428`) and the client's
  constructor, which reads the environment (`mthvac_client.cpp:59-94`). They
  do not touch the I/O state.
- **Server read errors** (`mthvac_comm.cpp:219`). `size` becomes
  `(hg_size_t)-1`, and `HG_Bulk_transfer` with that size asserts. What
  Mercury does then is outside the sources. This is listed as a hazard.
