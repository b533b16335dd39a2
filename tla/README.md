# A TLA+ model of memcr

memcr freezes a process, writes its memory to a file, drops the memory with
`madvise()`, and brings it back later. It does so with ptrace and a parasite
thread it injects into the process. This directory holds TLA+ modules that model
memcr, TLC configurations that check them on small instances, and TLAPS proofs
for every size of the parts where an argument for all sizes is worth most.

All line numbers are of `src/memcr.c` unless another file is named. `PROJECT.json`
lists, for each definition, the lines it stands for.

## 1. The system

### Parts and how they interact

| part | code | state | operations |
|---|---|---|---|
| listener thread | `service_mode`, `service_command` | current command and connection | accept a command, refuse it, schedule it, ask for an abort, shut down |
| command queue | `service_cmds_*` | ring, mutex, condition, `interrupt` | push, blocking pop, interrupt |
| command thread | `service_command_thread`, `checkpoint_procedure_service`, `restore_procedure_service` | command in hand | fork a worker, wait for it, connect to a waiting worker, answer the client |
| checkpoint table | `checkpoint_service_data` and the functions around it | 48 rows: pid, worker, state, abort flag, command socket | look up, allocate, mark, clear |
| SIGCHLD handler | `sigchld_handler_service` | none | reap a worker, clear its row, remove its files |
| worker | `application_worker`, `checkpoint_worker`, `restore_worker` | one process per checkpoint | bind the restore socket, checkpoint, answer, wait, restore, exit |
| thread seizing | `seize_target`, `update_parasite_pid`, `unseize_target` | `tids` | stop all threads, find the parasite, let all go |
| blobs | `execute_blob`, `signals_block`, `signals_unblock`, `ctx_save`, `ctx_restore`, `arch/*/enter.c` | borrowed registers, code, stack words, mask | run one system call inside the target |
| session | `cmd_checkpoint`, `cmd_restore`, `execute_parasite_*` | connections, dump, parasite status | make writable, fetch and drop pages, set pages, protect again, end |
| parasite | `parasite.c` | connection it serves | the four commands, `die()` |
| VMA scan | `scan_target_vmas` | `vmas` | one line of `/proc/<pid>/maps` |
| page selection | `get_target_pages`, `get_vma_pages` | current VMA and region | take, skip, flush |
| watch thread | `parasite_watch_thread` | `parasite_watch` | seize the parasite, wait for it, signal its status |
| client | `libmemcrclient.c` | one command per connection | checkpoint, restore |
| dump file | `read_vm_region`, `write_vm_region`, `compress.c`, `libencrypt.c`, MD5 | file, position, `dumped_vm_size`, digests | write a region, read it back, compare the digests |

A client connects and sends CHECKPOINT or RESTORE for a pid. The listener checks
the table and queues the command. The command thread forks a worker for a
CHECKPOINT, and waits for its answer on a socket pair. The worker seizes the
target, injects the parasite, dumps the pages, answers, and then waits on a
socket whose name is made from the pid. For a RESTORE the command thread connects
to that name. A RESTORE that comes while the CHECKPOINT is queued or running also
makes the listener set a flag or send a command that aborts it.

### What is hard to get right here

* Two threads, a signal handler and any number of processes share the table, and
  checking a row and changing it are separate critical sections; the handler
  interrupts a function between any two of its stores.
* Descriptors are kept in the table and closed elsewhere; names of sockets and
  files are made from the pid and outlive a worker.
* The client is answered before the table is updated.
* Workers crash on `assert()`; a tracer that is gone lets its target run on
  without the memory that was dropped.
* Between worker and parasite nothing is acknowledged: order comes only from one
  connection being served after another.
* Every layer of the dump file (sizes, compression, padding, short reads and
  writes) has its own way to notice that the file is not what was written.
* Signals reach the thread that runs a blob at any instruction; threads come and
  go while they are being seized.

`PROJECT.json` lists these as hazards, each at its line, with the properties that
would catch it going wrong.

## 2. Modules

### `ServiceCmds`, `BoundedQueue`: the command queue

`BoundedQueue` is what the queue promises: a FIFO of bounded length that
pops nothing after an interrupt. `ServiceCmds` is the ring: `svc_ctxs`,
`front_idx`, `back_idx`, `size`, `interrupt` as in the code, and `popper` for
where the command thread is in `service_cmds_wait_and_pop_front`. Each function
body runs under the mutex and is one action, except that `pthread_cond_wait`
splits the pop into `CondWait`, a wakeup (by a signal or a spurious one) and a
recheck. `RingIsQueue` is the refinement, with `Contents` for the queue.

### `CheckpointTable`, `AtomicTable`, `TableSteps`: the table

`CheckpointTable` has one operator per function, from a table to a table or to
what the function returns. As in the code, `Cleared` does not touch
`checkpoint_abort`.

`AtomicTable` is what the threads rely on: the table changes by one of these
functions at a time, and a process gets a row only when it has none. Two
specifications are shown to implement it.

* `TableSteps` has the functions as the code has them: `pthread_mutex_lock`, a loop
  over the rows, reads and stores of single fields, `pthread_mutex_unlock`. SIGCHLD
  interrupts either thread between any two accesses; its handler (`hd`) loops over
  the rows without the lock while the interrupted thread stands still and the other
  one goes on. The stores to one row are made in any order, as the compiler may
  do. The order of the calls is that of `service_command` and
  `service_command_thread`; workers end when they want and answer what they want.
  The refinement mapping `Completed` completes what is half done: a row that is
  being cleared keeps its content until its pid goes, any other function has its
  effect when it starts to write.
* `Service`, where each function is one step (`ServiceTable` has the instance of
  `AtomicTable` and the property).

Together they justify that `Service` takes the functions, and the handler, as
single steps. One effect is not that of a whole function and has a name in
`AtomicTable`: `StrayAbort`, an abort request left on a row that the handler
cleared between two reads of `try_to_abort_checkpoint`.

### `Service`: the daemon, its workers, targets and clients

It uses `CheckpointTable` and `BoundedQueue`. `main` and `ct` are the program
counters and locals of the two threads, one step per critical section or
blocking call:

    main: select -> [read ->] can_checkpoint -> init -> push -> select
                 -> can_restore -> abort -> push      (push -> unqueue if full)
          select -> join -> cleanup -> down
    ct:   pop -> fork -> set_checkpointing -> wait_checkpoint
                      -> set_checkpointed | clear -> close -> pop
          pop -> get_worker -> connect -> wait_restore -> clear -> close -> pop
    worker: setup -> seize -> dump -> dumped -> ready -> accept
                  -> restore -> restored | unrestored -> ending -> zombie -> reaped

* `lock` is the table's mutex. A function that holds it is one action that needs
  it free; it is a variable since `try_to_abort_checkpoint` can return with the
  mutex locked.
* `fds` maps descriptors of client connections to clients. `accept()` takes the
  lowest free number; a second `close()` of a number hits whoever has it by then.
* `rname[p]` is the worker whose socket has the restore name of `p`. With `-S` the
  name is a file that stays until it is unlinked, without `-S` it goes with the socket.
* `targets[p]` is running, frozen, dead, "lost" (running without its memory,
  because its worker crashed) or "adrift": it was sent a SIGSTOP while a worker waited
  for its RESTORE. `sigchld_handler_worker` (2406) is installed without `SA_NOCLDSTOP` and
  takes the report of the stop for the target's death; the worker exits, the daemon clears
  the row and removes the dump, and the process goes on without its memory. A process
  stays adrift until it dies, also when it is checkpointed again (`Becomes`), so the
  properties of frozen processes speak of those that were not stopped in this way. This is
  needed: with two workers for one process, the end of the first one may remove
  the dump that the second has made.
* `Events` switches the environment: targets killed or stopped by others, failures and
  crashes of workers, `--timeout`, failing `fork()` or `socketpair()`, malformed
  commands, slow clients, shutdown.

Clients write their command when they connect or, with the event "slow", some time
after it, and keep the listener in `read_command` until then. The order in which
waiting connections are accepted is arbitrary. `sigchld_handler_service` is one step
(see `TableSteps`). Reuse of pids by the kernel, a SIGKILL sent to a worker by
others, and SIGINT sent to workers are not modelled.

### `Session`: worker, parasite and watch thread

One checkpoint and one restore. `conns` are the connections to the parasite, the
served one first; each holds its command and the requests not yet read. At most
`SockBuf` requests fit into a socket, and two connections can wait
(`sys_listen(srvd, 1)`). `mem[v]` is the content of VMA `v`, original or zero;
`prot[v]` its protection. `opts` says how the session is run: with `-m` or not, with
a pagemap that only the parasite can read, with connections that may fail. `Faults`
switches on failing connections, failing reads and writes, a watch thread that cannot
seize the parasite, a trapping parasite, a killed target, a slow parasite and an
abort by the daemon. The fault "stop" is a SIGSTOP, which the parasite takes, since
`signals_block` cannot block it, and which `jobctl` records; SIGCONT may follow. At most
one SIGSTOP is sent in a session: without this bound stops and continues can go on for ever.
The watch thread takes the stop for the end of the parasite, and so does
`sigchld_handler_worker`: the worker exits, and the target is let go
without what was dropped (`WorkerSigchld`). A worker that fails an assertion detaches the target, which
then runs; a parasite that traps without being traced takes the target with it.
`user_interactive_mode` takes the same steps in one process, but never installs
`sigchld_handler_worker` (the model's `WorkerSigchld` is not required to happen).

### `Blob`: running system calls in the target

The sequence of blobs of `execute_parasite_checkpoint` and
`execute_parasite_restore`, each through `execute_blob`: before the system call,
after it, at the trap, or at a signal. Signals are classed by disposition. `frames`
are the signal frames the kernel set up, `scratch` the words below the stack
pointer, used for the signal mask. `Fails` are the blobs whose system call may fail:
`signals_block` asserts that it did not, after a failed `mmap` the target is restored and
killed, after a failed `clone` there is no parasite (the assertion on its result, which is
unsigned, always holds), and a failed `munmap` or `signals_unblock` ends the restore; the
target is then killed without `ctx_restore`. What the kernel does with a traced thread
(`Trap`, `Report`, the delivery in `retry_signal`) is external.

### `Seize`: stopping all threads

The walk over `/proc/<pid>/task` for seizing and again for finding the parasite,
while threads that are not stopped create threads and exit. The directory is
external: a read lists the threads from a position on, and ends when the position
is not below the number of threads.

### `VmaScan`, `VmaPages`: which pages are dumped

`VmaScan` is what `scan_target_vmas` makes of one line of `/proc/<pid>/maps`: a
line has a range of pages, a kind of path, a sharing flag, and a tail, which is what
the buffer of `fgets()` leaves for the next turn if the line is too long.
`VmaPages` runs the scan, one line per step, then the loops of `get_target_pages` and
`get_vma_pages`, one page per step. `off` is the position in the pagemap: when the
`read()` of an entry fails, the loop goes on with the next page (1570, 1585), and all later
pages of the VMA are judged by the entries of pages before them (`MissEntry`). Its properties speak of the target, not of what the scan made of it.

### `DumpIO`, `Compress`, `Dump`: the dump file

`DumpIO` is reading and writing of the file in its three layers: `__read` and
`__write`; libencrypt without a cipher, which calls `read()` and `write()` once; and
with one, which encrypts every write on its own in chunks of `IO_SIZE`, pads it to
whole blocks, and has to find the end of the padding again when it reads. The file
is a sequence of bytes with as much room as the disk has left. A byte is a tuple that
says what it is: part of a header, of plain, compressed or encrypted data, or noise.
libcrypto is external: a byte is decrypted if its block and the one before it are
in place. `Compress` adds the length and the data of `compress.c`. `Dump` is the
worker's use of both: regions are written until the disk is full, the checkpoint is
aborted or all are saved; the file loses its end or a byte of it is
overwritten, as `tests/run_corrupt_test.sh` does; the regions are read back and sent.
What meaningless bytes are read as is chosen from `Garbage`. One case is left out of it:
`read_vm_region` compares the length it reads with `dumped_vm_size` and never with
`MAX_VM_REGION_SIZE`, the size of the buffer (1824). What the code does with a damaged
length between the two is undefined in C, and the properties of `Dump` say nothing of it.

### MC modules and proof modules

`MCServiceCmds`, `MCService`, `MCTableSteps` and `MCVmaPages` instantiate for TLC
(symmetry of clients, workers and pids in runs without liveness; the targets of
`VmaPages`). The proofs (section 4) are in `ServiceProofs`, `ServiceWorldProofs`,
`ServiceClientProofs` and `ServiceTheorems` for `Service`, `SessionProofs` and
`SessionPagesProofs` for `Session`, `VmaPagesProofs` for `VmaPages`, and
`ComponentProofs` for `ServiceCmds`, `Blob` and `Seize`. `Blob`, `Seize` and `VmaPages`
name their specifications after themselves (`BlobInit`, `BlobNext`, `BlobSpec`), because
one module of proofs extends several of them.

Operators whose comment describes an error ("... is left out") are not
part of the specification: they are variants of the definition after them, used to
see that a property notices the error.

## 3. Runs

### Properties that hold

| run | bounds | shows |
|---|---|---|
| `command_ring` | ring of 3, 3 commands | `NoLostWakeup`, `RingIsQueue` (refinement), `QueuedIsHandled`, `InterruptStops` |
| `service_safety` | 3 clients, 2 pids, 3 workers, 2 rows, queue of 2, all events but slow clients, `-S` | `OneRowPerPid`, `RowsAgree`, `AbortReachesItsWorker`, `ImageKept`, `LostIsWaitedFor`, `FrozenIsKnown`, `NoFrozenLeft`, `OkIsTrue`, `TableIsAtomic` (refinement) |
| `table_steps` | 2 CHECKPOINTs and a RESTORE for 2 pids, 2 workers, 2 rows, queue of 1 | `RowsAgreeAtRest`, `TableIsAtomic` (refinement), `ClearsOwnRow`, `KillsWhatItTested` |
| `service_live` | 3 clients, 1 pid, 2 workers, 2 rows, shutdown, slow and malformed clients, nothing fails, abstract sockets | `NobodyKilled`, `WaitingIsReachable`, `AnsweredOnce`, `ShutdownCompletes` |
| `session` | 5 VMAs, 3 of them read-only, 1 with nothing to dump, 3 requests per socket, all options, all faults | `DroppedIsSaved`, `MemoryIntact`, `MappingsUnchanged`, `SessionEndsInTime` |
| `blob_signals` | 5 signals of all kinds, 4 sent, every system call may fail | `ContextRestored`, `MaskRestored`, `SideEffectsOnce`, `BlobsEnd` |
| `seize_threads` | 4 threads at first, 8 in all | `AllSeized`, `ParasiteFound`, `AllReleased` |
| `vma_pages` | a VMA of 5 pages of 5 kinds, any reads of entries failing, and all layouts of mappings in 4 pages; regions of 2 pages, `MAX_VMAS` 3 | `DumpedOnce`, `RegionFits`, `OnlyResident`, `AllDumped` |
| `dump_file` | 2 regions of 1 or 2 pages of 4 bytes, blocks of 2, chunks of 4, every number of blocks left on the disk, every place of damage | `RoundTrip`, `ChecksumNoticesDamage`, `CutAtRegion`, `RestoreBounded` |

The bounds suffice for the cases that matter: the ring wraps and fills; two
commands for one pid overlap a third for another, with the queue and the
table full; a worker ends while its successor starts; a socket fills while the
parasite is behind by two connections; regions end at a gap, at the limit and at
the end of the VMA, in all combinations; a mapping ends or begins at the parasite's;
a write to the dump is shorter than a chunk, a whole number of chunks, and in between,
and the file ends in every part of it; a handler interrupts each function
while the other thread is in another.

The type invariant of a module is checked with one of its invariants, which names
it; those of `ServiceCmds` and `Service`, and `RingShape` and `PopsOldest`, are proved
(section 4).

Deadlock is not checked: sessions end, daemons shut down, and with a bounded number of
commands every model comes to rest. The liveness properties say what must have
happened by then.

### Where the properties stop holding

Some properties have a condition, and some runs an environment, because the code
does not keep the property beyond it:

| property | condition | otherwise |
|---|---|---|
| `FrozenIsKnown`, `NoFrozenLeft` | `Once`: no command repeated for a pid | the clear at the end of a RESTORE (2829) comes after the worker has exited: the handler may have freed the row before and a new CHECKPOINT of the same process got one, which is then cleared, and the process, once frozen, is unknown (3 clients, one pid) |
| the same | a row for every process | `init_pid_checkpoint_data` only logs that the table is full and the checkpoint goes on without a row |
| `FrozenIsKnown`, `NoFrozenLeft`, `ImageKept`, `OkIsTrue` | processes that were not sent a SIGSTOP while their worker waited | the worker exits (2406), and the process runs without its memory and without a dump |
| `OkIsTrue` | `NoneCutOff`: no client has read the end of the stream instead of an answer | a RESTORE that finds no worker closes its connection twice (2825, 2837); a client accepted in between is cut off, and the next one to get its descriptor is told its answer (4 clients) |
| `AnsweredOnce`, `ShutdownCompletes` | `Once`, nothing fails | run `lock_leak`; a failed checkpoint clears a row just as a second RESTORE does |
| `NobodyKilled`, `WaitingIsReachable` | no `-S` | an ending worker unlinks the socket of its successor (2641), and the next RESTORE kills both (4 clients) |
| `MappingsUnchanged` | connections succeed while the parasite lives, and it is not stopped | a failure of `target_mprotect_on` is ignored (1986) |
| `SessionEndsInTime` | no wait has timed out | run `session_slow` |
| `SessionEndsInTime` | the parasite is watched, `target_cmd_end` gets through | `parasite_status_wait` waits for a status nobody sets (2182, 1993) |
| the same | no SIGSTOP that goes unnoticed: sent while nobody watches, or continued before the watch thread starts | the worker waits for a parasite that is stopped, or for the status of one that missed `END` |
| `OnlyResident` | pages before the first failed `read()` of their mapping, evictable ones | later pages are judged by the entries of earlier ones (1570, 1585): an absent page is dumped, a resident one is not; with `-f` the copied page of a private file mapping is freed (1644) without being dumped, and its content is lost |
| `AnsweredOnce`, `ShutdownCompletes` | a connected client sends its command or hangs up | the listener stays in `read_command`, also when SIGINT comes: `__read` goes on after EINTR |
| `KillsWhatItTested` | no checkpointed process ends by itself during the shutdown | `cleanup_checkpointed_pids` reads the pid again for `kill()` (893), and it may be 0 by then |
| `RowsAgreeAtRest` | used rows | a free row can keep the state of a checkpoint whose worker died while it was stored; it is overwritten with the next use |
| `AllDumped` | no line of `maps` longer than the buffer, at most `MAX_VMAS` mappings, all entries of the pagemap read, all pages evictable | mappings after it are left out, and the scan still succeeds if `sscanf()` finds no item in the rest of the line |
| `RoundTrip` | not an encrypted dump on a disk that is full for a moment | `lib__write` only looks for a negative result of `write()` (libencrypt.c:196, 209) |
| `CutAtRegion` | no libencrypt | decryption of a cut file ends with padding by luck; without a cipher see the next line |
| `RestoreBounded` | not libencrypt without a cipher | a header that is cut has a positive short count, which `target_set_pages` takes for a region (1080, 1827) |
| `MaskRestored` | no handler scheduled, no SIGSTOP | run `blob_handler`; SIGSTOP repeats `signals_block`, which saves the blocked mask |
| `SideEffectsOnce` | no SIGSTOP | `mmap` or `clone` runs twice |
| `AllSeized`, `ParasiteFound` | `NoneExited` | an exit moves the position of `readdir()` past a new thread |

Setting the constants accordingly, or dropping the condition or the fairness, makes TLC show each of these.
Two more things are plain from the model and are not stated as properties:
`checkpoint_abort` is never reset, so that a row that had an abort makes its
next checkpoint stop early; and `cleanup_checkpointed_pids` also kills a process
whose checkpoint is only queued.

### Disagreements between code and documentation

Each run checks one statement that a document or comment of the repository
makes, and TLC shows a behaviour of the code against it.

| run | property | what happens |
|---|---|---|
| `lock_leak` | `CommandAnswered` | a RESTORE is checked against a row that is cleared before `try_to_abort_checkpoint` takes the lock: it returns with the mutex locked and no command is answered any more |
| `session_slow` | `SessionEnds` | after a timeout `parasite_status_wait` does not return if the status changes between two waits |
| `blob_handler` | `HandlersRun` | a signal delivered while a blob runs loses its frame: the handler never runs |

### Fairness

`ServiceCmds`: the command thread gets to run (it is a thread of its own; pushes
and interrupts need not come). `Service`: weak fairness of the listener, of the
command thread, of each worker and of the SIGCHLD handler: each is scheduled by the kernel,
none holds up another except through the lock, the queue and the sockets, which are in the
model. A client that has connected sends its command or hangs up (`ClientSend`), because the
library does nothing in between; that it connects, kills, crashes and shutdown are never required. `Session`: weak fairness of worker,
parasite and watch thread, three threads of the kernel's scheduler; nobody has to ask for the restore. `Blob`: of the
worker and of the traced thread, once signals stop arriving (`MaxSent`).

## 4. Proofs

TLAPS proves for all values of the constants:

* `ComponentProofs`, about `ServiceCmds`: `RingShapeHolds`, `NoWakeupLost`,
  `PopsOldestHolds`, and `RingImplementsQueue`, that the ring implements `BoundedQueue`
  under `Contents`. From `CapacityAssumption` and `NoCmdAssumption`. The inductive
  invariant is `TypeOK /\ RingShape`: that `back_idx` is `size` places after `front_idx`
  is what makes a push extend `Contents` at its end and overwrite nothing.
* `ServiceTheorems`, about `Service`, for any number of clients, pids, workers, rows and
  queue places, and from the named assumptions of `CheckpointTable` and `Service` (an
  invalid pid or socket is no valid one, at least one row, finitely many clients, `None` is
  neither a command nor an answer):
  * with or without `-S` and for all events, `TypeCorrect`, `OneRowPerPidHolds`,
    `RowsAgreeHolds`, `AbortReachesItsWorkerHolds`, `ImageKeptHolds`,
    `LostIsWaitedForHolds`, `OkIsTrueHolds`, and `TableIsAtomicHolds`, that `Service`
    implements `AtomicTable`;
  * for all events but without `-S`, `WaitingIsReachableHolds`;
  * without `-S` and without the events "kill", "sigstop", "fail", "crash" and "timeout" (`Calm`),
    `NobodyKilledHolds`;
  * with at least as many rows as pids (`Roomy`) and for all events,
    `FrozenIsKnownHolds` and `NoFrozenLeftHolds`.
* `SessionPagesProofs`: `DroppedIsSavedHolds`, `MemoryIntactHolds` and
  `MappingsUnchangedHolds`, for any number of VMAs, any of them read-only or without
  pages, any number of requests that fit into a socket, all options and all faults. From
  `SessionAssumption` (`SessionProofs` has the invariant and its first half).
* `VmaPagesProofs`: `DumpedOnceHolds`, `RegionFitsHolds`, `OnlyResidentHolds` and
  `AllDumpedHolds`, for every target, any number of mappings and pages, every
  `MAX_VM_REGION_SIZE` and `MAX_VMAS`. From `VmaPagesAssumption`.
* `ComponentProofs`, about `Blob`: `ContextRestoredHolds`, `MaskRestoredHolds` and
  `SideEffectsOnceHolds`, for any set of signals of each kind and any number of them. From
  `BlobAssumption`; its conjunct `Handled \cap Stop = {}` says that SIGSTOP cannot be handled.
* `ComponentProofs`, about `Seize`: `AllReleasedHolds`, `AllSeizedHolds` and
  `ParasiteFoundHolds`, for any number of threads. From `SeizeAssumption`.

### The daemon

`ServiceProofs` has the invariant `Inv` of the table and the two threads and those of the
targets and the restore names, `ServiceWorldProofs` that of the workers (`WorldInv`),
`ServiceClientProofs` those of the clients and of the commands on their way.
`ServiceTheorems` has the rows that a frozen process keeps, the refinement, and the
theorems. That every nonempty set of numbers has a least element, which is what the loops
over the rows and `accept()` find, is a hypothesis `Least` of the lemmas before;
`LeastHolds` proves it.

Most leaves cite `Zenon`: they need no arithmetic, and the SMT backend spends more time on
translating the records of the daemon than on the proof.

`Inv` has four parts besides types. `OneRowPerPid` needs
`StillFree`: between `can_checkpoint_pid` and `init_pid_checkpoint_data` the pid has no
row, although the lock is released. This holds since only the listener adds rows.
`RowsAgree` is inductive by itself over the table operators, which is shown
operator by operator. `AbortReachesItsWorker` needs the
types of the locals at each program counter (`TypeInv`), `OneRowPerPid`, since
otherwise a second row of the pid could keep a socket, and `RowsAgree`.

`TableIsAtomicHolds` uses the same invariant: a step of the listener that adds a row is
a step of `AtomicTable` only because `StillFree` says that the pid has none; a step
that requests an abort, because the row it finds is the one of the pid. All other steps are
shown to apply one operator of `CheckpointTable`, or none.

`ImageKept` and `LostIsWaitedFor` both rest on `WorldInv`, which says, for every process
that is neither dead nor adrift, how its workers, its rows and the command thread are tied together.
`HoldInv`: one worker at most holds it, and only while it is frozen; a second worker
started for a frozen process finds `seize_target` failing and kills the process.
`BusyInv`: a worker that does anything but wait in `accept()` has the command thread
waiting for it, with no response left unread. `RowInv`: the worker of a row waits for a
RESTORE or executes one, or the process runs (or is lost) and the command thread has
still to clear the row. So when the SIGCHLD handler finds a row of the worker that has
ended, the process is not frozen and its dump is not needed. `NamesInv`: what the table,
the restore names and the command thread take for a worker of a pid is one.

`WaitingIsReachable` needs `NameInv`: without `-S` a worker has the restore name of its
pid from its `bind()` on, which is before it seizes the process. A second worker of the pid
cannot bind it, and nothing else than the end of the worker takes it away.

`NobodyKilled` rests on all of that and on `CalmInv`: as long as nothing fails, the worker
the command thread waits for is at work or has answered, so that its connection is never
found dead, and the one it is about to connect to is in `accept()`. `FateInv` says why a
second CHECKPOINT does no harm: a frozen process has a worker that holds it and, by
`NameInv`, its name, so that the second worker gives up at `bind()`, before it touches the
process. `StopInv`: the shutdown kills only after `interrupt` is set.

`OkIsTrue` is about two things. What a worker says is true: `ReplyInv` (in `FateInv`) says
that a worker in `accept()` has only good news of its checkpoint, and that a restore was
successful only if the process runs. And it is said to the client it concerns: `CdInv`
says that a command that is being read, queued or executed carries the descriptor of the
client that sent it, and no two commands the same one. The second `close()` breaks `CdInv`
exactly when it cuts a client off, which is why `NoneCutOff` is the condition; `LinkInv`,
that a descriptor belongs to one client and a client has one descriptor, holds without it.

`FrozenIsKnown` and `NoFrozenLeft` need that the row which a CHECKPOINT gets is not cleared
while the process is on its way to be frozen. `Needs(p)` says that it is: its command waits
between `init` and `fork`, a worker has still to seize it, or it is frozen. `KnownInv`: who
needs a row has one, and the command thread is not about to clear the row of a frozen
process. For this a CHECKPOINT must be in one place at a time, which `ClaimInv` derives from
`Once`: the listener, one place in the queue, the command thread or one worker has it
(`ExclInv`). That there is a free row for a process without one is counting: each row in
use has a process of its own (`FreeRow`). `DownInv`: the clean-up empties the table, so that
by `KnownInv` nothing is frozen then.

### The other components

`Session` has three processes and no acknowledgements after `GET_PAGES`, so what its
properties say is a matter of what is still in the sockets. `Pending(cmd)` is the set of
requests that wait in connections for `cmd`. `NewestInv`, `OrderInv` and `HeadInv` say
that the worker writes to the newest connection, and that all are closed while it writes
to none; that the commands are queued in the order of the worker's steps; and which one
the parasite is at. A region is `Dropped` when it is
gone or a request that drops it is pending. `DropInv`: as long as the checkpoint goes
well, it is then in the dump, or is the one that `get_reply` waits for; this needs `AskInv` and `ReplyInv`, that the worker has one
request unanswered at most, which is the last one sent, and that the answer was made
before the region was dropped. `RestoreInv`: once `target_set_pages` is over, a
request with the content of every dropped region is pending, and when the parasite reads
it no request to drop the region is left, since those are in an earlier connection.
`ProtInv` says the same of protections, for which `UndoInv` is needed: requests that
open a VMA and requests that close it are both `MPROTECT`, and the former come
first. A parasite that has exited has read `END`, which is the last command, so that
nothing is pending any more.

The context of `Blob` is restored since `ContextInv` says that the registers which
`execute_blob` has saved are never those of a blob, and that what `ctx_save` put aside
is the target's own until `ctx_restore` puts it back. `MaskInv` says where the target's
signal mask is: in force, then in the words below the stack pointer, in `ctx.sigset`, in
those words again, in force. It holds as long as no signal with a handler and no SIGSTOP
was taken, as `MaskRestored` does. `OnceInv`: between `signals_block` and `signals_unblock` no
blob is repeated as long as SIGSTOP was not taken, so that the area is there from `mmap` to
`munmap` and the parasite is cloned once.

For `Seize` the difficulty is the directory, whose positions move when a thread exits.
`ThreadsInv`: threads are numbered as they are created, those alive are listed, `tids` has
exactly the stopped ones, and one more at most is attached. `WalkInv`: `readdir()`
returns no thread twice; what it has read and what is behind its position was not seized yet.
`CompleteInv`: as long as none exits, every thread before that position has been read,
seized or is being seized, so that all are stopped when the walk is over; and what
`update_parasite_pid` reads is in `tids` or is the parasite. `ParasiteInv`: the parasite
is there from its `clone()` until it exits.

For `VmaPages` the invariant `IInv` ties the loops to the lines of `maps`. `ScanInv`: the
VMAs were made of lines that are wanted and are in order. `AlignInv`: the pagemap is at the
entry of the page looked at, unless one was missed in this VMA. `GrowInv` and `PassedInv`:
the region that grows is inside the current VMA, below its limit, and has passed only over
pages that do not end a region, or that come after a missed one. Pages that were skipped are passed without being counted,
so that it ends at the page looked at, or before it. `DoneInv`: every region dumped is in
one VMA, below the one that grows, and apart from all others. From it follow `DumpedOnce`,
`RegionFits` and, with the range that the scan skips, `OnlyResident`. `AllDumped` needs two
more invariants, for targets whose pages can be evicted and whose entries were all read (`Plain`), where a region has no
gaps: `ScanAllInv`, that every wanted line read has its VMA, and `CoverInv`, that every page
looked at that belongs in a region is in one.

### Only model-checked

* Liveness and everything under fairness (`QueuedIsHandled`, `InterruptStops`,
  `AnsweredOnce`, `ShutdownCompletes`, `SessionEndsInTime`, `BlobsEnd`), which is out of the
  prover's reach.
* All of `Dump`: its files are computed by folds over bytes, and what a fold computes
  would need induction over data.
* All of `TableSteps`, its refinement of `AtomicTable` included (`TableIsAtomicHolds` is
  about `Service`). The loops over the rows are bounded searches, and the mapping
  `Completed` depends on what the interrupted function has stored so far.

## 5. Not modelled, and plan

| part | why |
|---|---|
| option parsing, `main`, listening sockets, paths, permissions, network namespaces | sequential start-up code; what the options choose is a constant or an initial choice of the models |
| architecture layer | register layouts and system call stubs; `Blob` models the sequence of system calls, which is the same everywhere |
| libraries for compression and encryption, the kernel | external: modelled by what the code relies on |
| command line client | option parsing around two calls of the library. With `-c` and `-r` it sends both commands on one connection, of which the daemon reads one: the second call fails |
| interactive mode: the key press and `-n` | its checkpoint and restore are those of `Session` |
| statistics (`get_target_rss`, `show_target_rss`) and logging | no effect on anything else |

What would come next: an abstract specification of the daemon, a map from pids to
running, frozen or dead with one pending command each, which `Service` implements as
long as `Once` holds; `Session` in place of the worker steps of `Service`; a proof of
the refinement of `AtomicTable` by `TableSteps`, with an invariant that says of each
thread and of the handler which stores to a row are still to come.
