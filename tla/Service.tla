------------------------------- MODULE Service -------------------------------
(* The memcr daemon (memcr --listen): its listener thread (main), its command *)
(* thread (ct), its SIGCHLD handler, the workers it forks, one per checkpoint, *)
(* the target processes they freeze, and the clients that send one command    *)
(* per connection.                                                            *)
(*                                                                            *)
(* A function that runs under checkpoint_service_data_lock is one action that *)
(* needs the lock free; the lock is a variable because one function returns   *)
(* without releasing it.  What a worker does to its target in between is      *)
(* abstracted to "it succeeds or it fails".                                   *)
EXTENDS CheckpointTable, Sequences

CONSTANTS Clients,                  \* connections; each carries one command
          MAX_CLIENT_CONNECTIONS,   \* capacity of the command queue
          MaxOpen,                  \* commands that may be under way at once
          parasite_socket_dir,      \* TRUE: restore sockets are files (option -S)
          Events,                   \* what the environment may do, out of AllEvents
          None

AllEvents == {"kill",        \* somebody kills a target
              "sigstop",     \* somebody sends SIGSTOP to a frozen target
              "fail",        \* a checkpoint or a restore fails in the worker
              "crash",       \* a worker dies on a failed assertion
              "timeout",     \* --timeout is set and expires
              "fork",        \* fork() or socketpair() fails
              "bad",         \* a client sends no command or an unknown one
              "slow",        \* a client sends its command some time after connecting
              "stop"}        \* SIGINT, or select() or accept() fails

ASSUME EnvAssumption ==
  /\ parasite_socket_dir \in BOOLEAN
  /\ Events \subseteq AllEvents
  /\ None \notin Clients \cup Workers
  /\ IsFiniteSet(Clients)

VARIABLES table,      \* checkpoint_service_data
          lock,       \* checkpoint_service_data_lock: "free", or "main" if leaked
          queue,      \* service_cmds_ctx
          interrupt,  \* service_cmds_ctx.interrupt
          main, ct,   \* the two threads: program counter and local variables
          clients,    \* each client's request and what it got back
          fds,        \* the daemon's descriptors of client connections
          workers, targets,
          rname,      \* the worker whose socket has the restore name of a pid
          files       \* pids with a pages-<pid>.img

vars == <<table, lock, queue, interrupt, main, ct, clients, fds, workers, targets, rname, files>>
daemon == <<table, lock, queue, interrupt, main, ct>>
world == <<workers, targets, rname, files>>

MEMCR_CHECKPOINT == "checkpoint"
MEMCR_RESTORE    == "restore"
Commands == {MEMCR_CHECKPOINT, MEMCR_RESTORE}
MEMCR_OK            == "ok"
MEMCR_ERROR_GENERAL == "error"
MEMCR_INVALID_PID   == "invalid pid"

\* No command is not a command, and no answer not an answer.
ASSUME NoneAssumption == None \notin Commands \cup {MEMCR_OK, MEMCR_ERROR_GENERAL, MEMCR_INVALID_PID, "eof"}

Fds == 1 .. Cardinality(Clients)

SvcCtx == [cmd : Commands, pid : Pids, cd : Fds]

Q == INSTANCE BoundedQueue WITH Capacity <- MAX_CLIENT_CONNECTIONS, Cmds <- SvcCtx

-----------------------------------------------------------------------------
(* Processes and files. *)

\* Program counters of a worker, in order: setup_restore_socket_worker,
\* seize_target, execute_parasite_checkpoint, "dumped" until signal(SIGCHLD),
\* "ready" or "failed" to respond, accept(), restore_worker, then responding,
\* closing and the end.
Alive == {"setup", "seize", "dump", "dumped", "ready", "failed", "accept", "restore",
          "restored", "unrestored", "ending"}
Gone == {"zombie", "reaped"}

\* Where sigchld_handler_worker is installed: the worker exits when its target
\* dies, and also when it only stops.
Watching == {"ready", "accept"}

\* Where the worker still has its end of the checkpoint socket pair.
Abortable == {"setup", "seize", "dump", "dumped", "ready", "failed"}

\* Where the restore socket of a worker is bound and open.
Listening == Alive \ {"setup"}

NoWorker == [pc |-> "unused", pid |-> None, abort |-> FALSE, resp |-> None, conn |-> FALSE]

\* kill(pid, SIGKILL) of the processes in P, and what SIGCHLD does to their
\* workers.
Killed(P) == [p \in Pids |-> IF p \in P THEN "dead" ELSE targets[p]]
Bereaved(ws, P) ==
  [w \in Workers |-> IF ws[w].pid \in P /\ ws[w].pc \in Watching
                     THEN [ws[w] EXCEPT !.pc = "zombie"] ELSE ws[w]]

\* kill(worker, SIGKILL).
Dispatched(ws, w) == IF ws[w].pc \in Alive THEN [ws EXCEPT ![w].pc = "zombie"] ELSE ws

\* cleanup_pid for every pid in P.
cleanup_pid(P) ==
  /\ files' = files \ P
  /\ rname' = [p \in Pids |-> IF p \in P /\ parasite_socket_dir THEN None ELSE rname[p]]

\* The target is left alone.
kills_only_worker(p, w) ==
  /\ workers' = Dispatched(workers, w)
  /\ targets' = targets
  /\ cleanup_pid({p})

\* "unable to read response from worker, kill both"
KillBoth(p, w) ==
  /\ targets' = Killed({p})
  /\ workers' = Dispatched(Bereaved(workers, {p}), w)
  /\ cleanup_pid({p})

-----------------------------------------------------------------------------
(* Client connections. *)

\* What clients see when a response code is written to descriptor fd: the
\* first one that arrives is what memcr_client_* returns.
Told(fd, code) ==
  IF fds[fd] = None \/ clients[fds[fd]].ans # None THEN clients
  ELSE [clients EXCEPT ![fds[fd]].ans = code]

send_response_to_client(fd, code) == clients' = Told(fd, code)

Released(fd) == fds' = [fds EXCEPT ![fd] = None]

RespondAndClose(fd, code) == send_response_to_client(fd, code) /\ Released(fd)

\* close(): a client that was not answered reads the end of the stream.
Close(fd) == clients' = Told(fd, "eof") /\ Released(fd)

FreeFds == {fd \in Fds : fds[fd] = None}

Outstanding == {c \in Clients : clients[c].st # "idle" /\ clients[c].ans = None}

\* A client connects and sends its command, at once ("backlog") or later.
Connect(c, cmd, p) ==
  /\ clients[c].st = "idle"
  /\ Cardinality(Outstanding) < MaxOpen
  /\ \E st \in {"backlog"} \cup (IF "slow" \in Events THEN {"connected"} ELSE {}) :
       clients' = [clients EXCEPT ![c] = [st |-> st, cmd |-> cmd, pid |-> p, ans |-> None]]
  /\ UNCHANGED <<daemon, fds, world>>

\* The write() of send_cmd, or the end of a client that sends nothing.
ClientSend(c) ==
  /\ \/ clients[c].st = "connected" /\ clients' = [clients EXCEPT ![c].st = "backlog"]
     \/ clients[c].st = "opened"    /\ clients' = [clients EXCEPT ![c].st = "accepted"]
  /\ UNCHANGED <<daemon, fds, world>>

-----------------------------------------------------------------------------
(* The listener thread: service_mode and service_command. *)

MainIdle == [pc |-> "select", cmd |-> None, pid |-> None, cd |-> None]
MainTo(pc) == main' = [main EXCEPT !.pc = pc]
MainDone == main' = MainIdle

\* The switch of service_command.
Served(cmd) == IF cmd = MEMCR_CHECKPOINT THEN "can_checkpoint" ELSE "can_restore"

\* accept() takes the lowest free descriptor; read_command gets the command.
MainAccept(c) ==
  /\ main.pc = "select"
  /\ clients[c].st = "backlog"
  /\ clients[c].cmd \in Commands
  /\ FreeFds # {}
  /\ LET fd == Min(FreeFds) IN
       /\ fds' = [fds EXCEPT ![fd] = c]
       /\ main' = [pc |-> Served(clients[c].cmd), cmd |-> clients[c].cmd, pid |-> clients[c].pid, cd |-> fd]
  /\ clients' = [clients EXCEPT ![c].st = "accepted"]
  /\ UNCHANGED <<table, lock, queue, interrupt, ct, world>>

\* Nothing to read yet: the thread waits in read_command, for this client and
\* for no other.  main holds what it is going to read.
MainAcceptSilent(c) ==
  /\ main.pc = "select"
  /\ clients[c].st = "connected"
  /\ FreeFds # {}
  /\ LET fd == Min(FreeFds) IN
       /\ fds' = [fds EXCEPT ![fd] = c]
       /\ main' = [pc |-> "read", cmd |-> clients[c].cmd, pid |-> clients[c].pid, cd |-> fd]
  /\ clients' = [clients EXCEPT ![c].st = "opened"]
  /\ UNCHANGED <<table, lock, queue, interrupt, ct, world>>

MainRead ==
  /\ main.pc = "read"
  /\ \A c \in Clients : clients[c].st # "opened"
  /\ \/ main.cmd \in Commands /\ MainTo(Served(main.cmd)) /\ UNCHANGED <<clients, fds>>
     \/ main.cmd = "hangup" /\ MainDone /\ Close(main.cd)
     \/ main.cmd = "other" /\ MainDone /\ RespondAndClose(main.cd, MEMCR_ERROR_GENERAL)
  /\ UNCHANGED <<table, lock, queue, interrupt, ct, world>>

\* No whole command: the connection is closed.  An unknown one: an error.
MainReject(c) ==
  /\ main.pc = "select"
  /\ clients[c].st = "backlog"
  /\ clients[c].cmd \notin Commands
  /\ clients' = [clients EXCEPT ![c].st = "accepted",
                    ![c].ans = IF clients[c].cmd = "hangup" THEN "eof" ELSE MEMCR_ERROR_GENERAL]
  /\ UNCHANGED <<daemon, fds, world>>

\* The test is made and its result not used.
MainCanCheckpointIgnored ==
  /\ main.pc = "can_checkpoint"
  /\ lock = "free"
  /\ MainTo("init")
  /\ UNCHANGED <<table, lock, queue, interrupt, ct, clients, fds, world>>

MainCanCheckpoint ==
  /\ main.pc = "can_checkpoint"
  /\ lock = "free"
  /\ IF can_checkpoint_pid(table, main.pid)
     THEN MainTo("init") /\ UNCHANGED <<clients, fds>>
     ELSE MainDone /\ RespondAndClose(main.cd, MEMCR_INVALID_PID)
  /\ UNCHANGED <<table, lock, queue, interrupt, ct, world>>

MainInit ==
  /\ main.pc = "init"
  /\ lock = "free"
  /\ table' = init_pid_checkpoint_data(table, main.pid)
  /\ MainTo("push")
  /\ UNCHANGED <<lock, queue, interrupt, ct, clients, fds, world>>

\* The client is not told.
MainCanRestoreSilent ==
  /\ main.pc = "can_restore"
  /\ lock = "free"
  /\ IF can_restore_pid(table, main.pid)
     THEN MainTo("abort") /\ UNCHANGED <<clients, fds>>
     ELSE MainDone /\ Close(main.cd)
  /\ UNCHANGED <<table, lock, queue, interrupt, ct, world>>

MainCanRestore ==
  /\ main.pc = "can_restore"
  /\ lock = "free"
  /\ IF can_restore_pid(table, main.pid)
     THEN MainTo("abort") /\ UNCHANGED <<clients, fds>>
     ELSE MainDone /\ RespondAndClose(main.cd, MEMCR_INVALID_PID)
  /\ UNCHANGED <<table, lock, queue, interrupt, ct, world>>

\* send_checkpoint_abort: the worker can read the command until it closes its
\* end of the socket pair.
AbortSent(ws, w) ==
  IF w \in Workers /\ ws[w].pc \in Abortable THEN [ws EXCEPT ![w].abort = TRUE] ELSE ws

\* The mutex is never released.
MainAbortKeepsLock ==
  /\ main.pc = "abort"
  /\ lock = "free"
  /\ lock' = "main"
  /\ MainTo("push")
  /\ UNCHANGED <<table, queue, interrupt, ct, clients, fds, world>>

\* try_to_abort_checkpoint.  When the row is gone the function falls out of its
\* loop and returns with the mutex locked.
MainAbort ==
  /\ main.pc = "abort"
  /\ lock = "free"
  /\ IF RowsOf(table, main.pid) = {}
     THEN lock' = "main" /\ UNCHANGED <<table, workers>>
     ELSE /\ table' = FlagAbort(table, main.pid)
          /\ workers' = AbortSent(workers, AbortSd(table, main.pid))
          /\ UNCHANGED lock
  /\ MainTo("push")
  /\ UNCHANGED <<queue, interrupt, ct, clients, fds, targets, rname, files>>

SvcCtxOf(m) == [cmd |-> m.cmd, pid |-> m.pid, cd |-> m.cd]

MainPush ==
  /\ main.pc = "push"
  /\ Q!PushBack(SvcCtxOf(main))
  /\ MainDone
  /\ UNCHANGED <<table, lock, ct, clients, fds, world>>

MainPushFull ==
  /\ main.pc = "push"
  /\ Q!Full
  /\ IF main.cmd = MEMCR_CHECKPOINT
     THEN MainTo("unqueue") /\ UNCHANGED <<clients, fds>>
     ELSE MainDone /\ RespondAndClose(main.cd, MEMCR_ERROR_GENERAL)
  /\ UNCHANGED <<table, lock, queue, interrupt, ct, world>>

MainUnqueue ==
  /\ main.pc = "unqueue"
  /\ lock = "free"
  /\ table' = clear_pid_checkpoint_data(table, main.pid)
  /\ RespondAndClose(main.cd, MEMCR_ERROR_GENERAL)
  /\ MainDone
  /\ UNCHANGED <<lock, queue, interrupt, ct, world>>

\* The loop ends: service_cmds_interrupt, then pthread_join.
MainStop ==
  /\ "stop" \in Events
  /\ main.pc = "select"
  /\ Q!Interrupt
  /\ MainTo("join")
  /\ UNCHANGED <<table, lock, ct, clients, fds, world>>

MainJoin ==
  /\ main.pc = "join"
  /\ ct.pc = "done"
  /\ MainTo("cleanup")
  /\ UNCHANGED <<table, lock, queue, interrupt, ct, clients, fds, world>>

\* The loop ends one row early.
MainCleanupMissesLast ==
  /\ main.pc = "cleanup"
  /\ lock = "free"
  /\ LET P == {table[i].pid : i \in Rows \ {CHECKPOINTED_PIDS_LIMIT - 1}} \cap Pids IN
       /\ targets' = Killed(P)
       /\ workers' = Bereaved(workers, P)
       /\ cleanup_pid(P)
  /\ MainTo("down")
  /\ UNCHANGED <<table, lock, queue, interrupt, ct, clients, fds>>

\* cleanup_checkpointed_pids kills every process that has a row.
MainCleanup ==
  /\ main.pc = "cleanup"
  /\ lock = "free"
  /\ LET P == {table[i].pid : i \in Rows} \cap Pids IN
       /\ targets' = Killed(P)
       /\ workers' = Bereaved(workers, P)
       /\ cleanup_pid(P)
  /\ table' = [i \in Rows |-> IF table[i].pid = PID_INVALID THEN table[i] ELSE Cleared(table[i])]
  /\ MainTo("down")
  /\ UNCHANGED <<lock, queue, interrupt, ct, clients, fds>>

-----------------------------------------------------------------------------
(* The command thread: service_command_thread. *)

\* worker: the forked worker, or the one get_pid_worker found.  rd: the worker
\* the restore connection goes to.
CtIdle == [pc |-> "pop", pid |-> None, cd |-> None, worker |-> None, rd |-> None]
CtTo(pc) == ct' = [ct EXCEPT !.pc = pc]

CtPop ==
  /\ ct.pc = "pop"
  /\ Q!PopFront
  /\ ct' = [CtIdle EXCEPT !.pc  = IF Head(queue).cmd = MEMCR_CHECKPOINT THEN "fork" ELSE "get_worker",
                          !.pid = Head(queue).pid, !.cd = Head(queue).cd]
  /\ UNCHANGED <<table, lock, main, clients, fds, world>>

CtInterrupted ==
  /\ ct.pc = "pop"
  /\ interrupt
  /\ CtTo("done")
  /\ UNCHANGED <<table, lock, queue, interrupt, main, clients, fds, world>>

\* socketpair() and fork().  A failed socketpair() ends the thread with the
\* connection open; a failed fork() is not answered either.
CtFork ==
  /\ ct.pc = "fork"
  /\ \E w \in Workers :
       /\ workers[w].pc = "unused"
       /\ workers' = [workers EXCEPT ![w] = [NoWorker EXCEPT !.pc = "setup", !.pid = ct.pid]]
       /\ ct' = [ct EXCEPT !.pc = "set_checkpointing", !.worker = w]
  /\ UNCHANGED <<table, lock, queue, interrupt, main, clients, fds, targets, rname, files>>

CtForkFails ==
  /\ "fork" \in Events
  /\ ct.pc = "fork"
  /\ CtTo("clear") \/ CtTo("done")
  /\ UNCHANGED <<table, lock, queue, interrupt, main, clients, fds, world>>

CtSetCheckpointing ==
  /\ ct.pc = "set_checkpointing"
  /\ lock = "free"
  /\ table' = set_pid_checkpointing(table, ct.pid, ct.worker)
  /\ workers' = IF AbortOnStart(table, ct.pid) THEN AbortSent(workers, ct.worker) ELSE workers
  /\ CtTo("wait_checkpoint")
  /\ UNCHANGED <<lock, queue, interrupt, main, clients, fds, targets, rname, files>>

\* _read() returns a response of worker w ...
Answered(w) == workers[w].resp # None
\* ... or fails: the worker is gone, or SO_RCVTIMEO expires.
ReadFails(w) ==
  /\ ~Answered(w)
  /\ workers[w].pc \in Gone \/ "timeout" \in Events

\* checkpoint_procedure_service: the client is told first, then the table.
CtCheckpointAnswered ==
  /\ ct.pc = "wait_checkpoint"
  /\ Answered(ct.worker)
  /\ send_response_to_client(ct.cd, workers[ct.worker].resp)
  /\ workers' = [workers EXCEPT ![ct.worker].resp = None]
  /\ ct' = [ct EXCEPT !.pc = IF workers[ct.worker].resp = MEMCR_OK THEN "set_checkpointed" ELSE "clear"]
  /\ UNCHANGED <<table, lock, queue, interrupt, main, fds, targets, rname, files>>

CtCheckpointLost ==
  /\ ct.pc = "wait_checkpoint"
  /\ ReadFails(ct.worker)
  /\ KillBoth(ct.pid, ct.worker)
  /\ send_response_to_client(ct.cd, MEMCR_ERROR_GENERAL)
  /\ CtTo("clear")
  /\ UNCHANGED <<table, lock, queue, interrupt, main, fds>>

CtSetCheckpointed ==
  /\ ct.pc = "set_checkpointed"
  /\ lock = "free"
  /\ table' = set_pid_checkpointed(table, ct.pid, ct.worker)
  /\ CtTo("close")
  /\ UNCHANGED <<lock, queue, interrupt, main, clients, fds, world>>

CtClear ==
  /\ ct.pc = "clear"
  /\ lock = "free"
  /\ table' = clear_pid_checkpoint_data(table, ct.pid)
  /\ CtTo("close")
  /\ UNCHANGED <<lock, queue, interrupt, main, clients, fds, world>>

CtClose ==
  /\ ct.pc = "close"
  /\ Close(ct.cd)
  /\ ct' = CtIdle
  /\ UNCHANGED <<table, lock, queue, interrupt, main, world>>

\* No worker: answer and close here, and close again after the switch.
CtGetWorker ==
  /\ ct.pc = "get_worker"
  /\ lock = "free"
  /\ LET w == get_pid_worker(table, ct.pid) IN
       IF w = PID_INVALID
       THEN CtTo("close") /\ RespondAndClose(ct.cd, MEMCR_ERROR_GENERAL)
       ELSE ct' = [ct EXCEPT !.pc = "connect", !.worker = w] /\ UNCHANGED <<clients, fds>>
  /\ UNCHANGED <<table, lock, queue, interrupt, main, world>>

\* A connection to the restore name of p reaches a worker.
Reachable(p) == rname[p] # None /\ workers[rname[p]].pc \in Listening

\* setup_restore_socket_service, then the command is written.
CtConnect ==
  /\ ct.pc = "connect"
  /\ Reachable(ct.pid)
  /\ LET w == rname[ct.pid] IN
       /\ workers' = [workers EXCEPT ![w].conn = TRUE]
       /\ ct' = [ct EXCEPT !.pc = "wait_restore", !.rd = w]
  /\ UNCHANGED <<table, lock, queue, interrupt, main, clients, fds, targets, rname, files>>

\* rd < 0: write and read fail too.
CtConnectFails ==
  /\ ct.pc = "connect"
  /\ ~Reachable(ct.pid)
  /\ KillBoth(ct.pid, ct.worker)
  /\ send_response_to_client(ct.cd, MEMCR_ERROR_GENERAL)
  /\ CtTo("clear")
  /\ UNCHANGED <<table, lock, queue, interrupt, main, fds>>

CtRestoreAnswered ==
  /\ ct.pc = "wait_restore"
  /\ Answered(ct.rd)
  /\ send_response_to_client(ct.cd, workers[ct.rd].resp)
  /\ workers' = [workers EXCEPT ![ct.rd].resp = None]
  /\ CtTo("clear")
  /\ UNCHANGED <<table, lock, queue, interrupt, main, fds, targets, rname, files>>

CtRestoreLost ==
  /\ ct.pc = "wait_restore"
  /\ ReadFails(ct.rd)
  /\ KillBoth(ct.pid, ct.worker)
  /\ send_response_to_client(ct.cd, MEMCR_ERROR_GENERAL)
  /\ CtTo("clear")
  /\ UNCHANGED <<table, lock, queue, interrupt, main, fds>>

-----------------------------------------------------------------------------
(* The workers: application_worker. *)

WorkerTo(w, pc) == workers' = [workers EXCEPT ![w].pc = pc]

\* A failure of bind() is ignored.
WorkerSetupIgnoresBind(w) ==
  /\ workers[w].pc = "setup"
  /\ WorkerTo(w, "seize")
  /\ rname' = IF Reachable(workers[w].pid) THEN rname ELSE [rname EXCEPT ![workers[w].pid] = w]
  /\ UNCHANGED <<daemon, clients, fds, targets, files>>

\* A failed bind() kills the target.
WorkerSetupKills(w) ==
  /\ workers[w].pc = "setup"
  /\ IF Reachable(workers[w].pid)
     THEN WorkerTo(w, "failed") /\ targets' = Killed({workers[w].pid}) /\ UNCHANGED rname
     ELSE WorkerTo(w, "seize") /\ rname' = [rname EXCEPT ![workers[w].pid] = w] /\ UNCHANGED targets
  /\ UNCHANGED <<daemon, clients, fds, files>>

\* setup_restore_socket_worker: bind() fails while the name is taken.  The
\* target of a worker that cannot bind is left alone.
WorkerSetup(w) ==
  LET p == workers[w].pid
      taken == IF parasite_socket_dir THEN rname[p] # None ELSE Reachable(p)
  IN  /\ workers[w].pc = "setup"
      /\ \/ taken /\ WorkerTo(w, "failed") /\ UNCHANGED rname
         \/ ~taken /\ WorkerTo(w, "seize") /\ rname' = [rname EXCEPT ![p] = w]
      /\ UNCHANGED <<daemon, clients, fds, targets, files>>

\* "Checkpoint failed! Killing the target"
CheckpointFails(w) ==
  /\ targets' = Killed({workers[w].pid})
  /\ workers' = [Bereaved(workers, {workers[w].pid}) EXCEPT ![w].pc = "failed"]
  /\ cleanup_pid({workers[w].pid})

\* A process that went adrift, see TargetStopped, may be checkpointed again; from
\* then on the model does not say whether it is frozen or runs.
Becomes(p, state) == targets' = [targets EXCEPT ![p] = IF @ = "adrift" THEN @ ELSE state]

WorkerSeize(w) ==
  /\ workers[w].pc = "seize"
  /\ \/ /\ targets[workers[w].pid] \in {"running", "adrift"}
        /\ Becomes(workers[w].pid, "frozen")
        /\ WorkerTo(w, "dump")
        /\ UNCHANGED <<rname, files>>
     \/ /\ targets[workers[w].pid] # "running" \/ "fail" \in Events
        /\ CheckpointFails(w)
  /\ UNCHANGED <<daemon, clients, fds>>

\* execute_parasite_checkpoint.  An abort cuts it short and it still succeeds.
WorkerDump(w) ==
  /\ workers[w].pc = "dump"
  /\ \/ /\ targets[workers[w].pid] \in {"frozen", "adrift"}
        /\ files' = files \cup {workers[w].pid}
        /\ WorkerTo(w, "dumped")
        /\ UNCHANGED <<targets, rname>>
     \/ /\ targets[workers[w].pid] # "frozen" \/ "fail" \in Events
        /\ CheckpointFails(w)
  /\ UNCHANGED <<daemon, clients, fds>>

\* signal(SIGCHLD, sigchld_handler_worker): a death before this goes unseen.
WorkerWatch(w) ==
  /\ workers[w].pc = "dumped"
  /\ WorkerTo(w, "ready")
  /\ UNCHANGED <<daemon, clients, fds, targets, rname, files>>

\* send_response_to_service, close; a failed worker exits.
WorkerRespond(w) ==
  /\ workers[w].pc \in {"ready", "failed"}
  /\ workers' = [workers EXCEPT
       ![w].pc   = IF @ = "ready" THEN "accept" ELSE "zombie",
       ![w].resp = IF workers[w].pc = "ready" THEN MEMCR_OK ELSE MEMCR_ERROR_GENERAL]
  /\ UNCHANGED <<daemon, clients, fds, targets, rname, files>>

WorkerAccept(w) ==
  /\ workers[w].pc = "accept"
  /\ workers[w].conn
  /\ workers' = [workers EXCEPT ![w].pc = "restore", ![w].conn = FALSE]
  /\ UNCHANGED <<daemon, clients, fds, targets, rname, files>>

\* restore_worker: execute_parasite_restore, then unseize_target or a kill.
Restorable(w) == targets[workers[w].pid] \in {"frozen", "adrift"} /\ workers[w].pid \in files

\* The target is not detached.
WorkerRestoreNoUnseize(w) ==
  /\ workers[w].pc = "restore"
  /\ WorkerTo(w, "restored")
  /\ cleanup_pid({workers[w].pid})
  /\ UNCHANGED <<daemon, clients, fds, targets>>

WorkerRestore(w) ==
  /\ workers[w].pc = "restore"
  /\ \/ /\ Restorable(w)
        /\ Becomes(workers[w].pid, "running")
        /\ WorkerTo(w, "restored")
     \/ /\ ~Restorable(w) \/ "fail" \in Events
        /\ targets' = Killed({workers[w].pid})
        /\ WorkerTo(w, "unrestored")
  /\ cleanup_pid({workers[w].pid})
  /\ UNCHANGED <<daemon, clients, fds>>

\* send_response_to_service on the restore connection.
WorkerReply(w) ==
  /\ workers[w].pc \in {"restored", "unrestored"}
  /\ workers' = [workers EXCEPT
       ![w].pc   = "ending",
       ![w].resp = IF workers[w].pc = "restored" THEN MEMCR_OK ELSE MEMCR_ERROR_GENERAL]
  /\ UNCHANGED <<daemon, clients, fds, targets, rname, files>>

\* cleanup_pid in place of remove_restore_socket_worker.
WorkerEndCleansUp(w) ==
  /\ workers[w].pc = "ending"
  /\ WorkerTo(w, "zombie")
  /\ cleanup_pid({workers[w].pid})
  /\ UNCHANGED <<daemon, clients, fds, targets>>

\* The sockets are closed, remove_restore_socket_worker unlinks the name by
\* its path, and the worker exits.
WorkerEnd(w) ==
  /\ workers[w].pc = "ending"
  /\ WorkerTo(w, "zombie")
  /\ rname' = IF parasite_socket_dir THEN [rname EXCEPT ![workers[w].pid] = None] ELSE rname
  /\ UNCHANGED <<daemon, clients, fds, targets, files>>

\* An assert() in the ptrace code fails: the tracer is gone, and a target that
\* was frozen runs on without the pages that were dumped.
WorkerCrash(w) ==
  /\ "crash" \in Events
  /\ workers[w].pc \in {"dump", "restore"}
  /\ WorkerTo(w, "zombie")
  /\ targets' = IF targets[workers[w].pid] = "frozen"
                THEN [targets EXCEPT ![workers[w].pid] = "lost"] ELSE targets
  /\ UNCHANGED <<daemon, clients, fds, rname, files>>

\* sigchld_handler_service, in whichever thread, without the lock.
sigchld_handler_service(w) ==
  /\ workers[w].pc = "zombie"
  /\ main.pc # "down"
  /\ WorkerTo(w, "reaped")
  /\ cleanup_pid({table[i].pid : i \in {j \in Rows : table[j].worker = w}})
  /\ table' = clear_pid_on_worker_exit_non_blocking(table, w)
  /\ UNCHANGED <<lock, queue, interrupt, main, ct, clients, fds, targets>>

\* Somebody else kills a target.
TargetKilled(p) ==
  /\ "kill" \in Events
  /\ targets[p] # "dead"
  /\ targets' = Killed({p})
  /\ workers' = Bereaved(workers, {p})
  /\ UNCHANGED <<daemon, clients, fds, rname, files>>

\* The parasite of a frozen target takes SIGSTOP.  sigchld_handler_worker takes
\* the report of the kernel for the target's death and exits, which detaches the
\* target: it goes on, once continued, without the pages that were dumped.  A stop
\* elsewhere makes the worker fail or crash.
TargetStopped(p) ==
  /\ "sigstop" \in Events
  /\ targets[p] \in {"frozen", "adrift"}
  /\ \E w \in Workers : workers[w].pid = p /\ workers[w].pc \in Watching
  /\ targets' = [targets EXCEPT ![p] = "adrift"]
  /\ workers' = Bereaved(workers, {p})
  /\ UNCHANGED <<daemon, clients, fds, rname, files>>

-----------------------------------------------------------------------------

Init ==
  /\ table = EmptyTable
  /\ lock = "free"
  /\ Q!Empty
  /\ main = MainIdle
  /\ ct = CtIdle
  /\ clients = [c \in Clients |-> [st |-> "idle", cmd |-> None, pid |-> None, ans |-> None]]
  /\ fds = [fd \in Fds |-> None]
  /\ workers = [w \in Workers |-> NoWorker]
  /\ targets = [p \in Pids |-> "running"]
  /\ rname = [p \in Pids |-> None]
  /\ files = {}

ClientCommands == Commands \cup (IF "bad" \in Events THEN {"hangup", "other"} ELSE {})

Main ==
  \/ \E c \in Clients : MainAccept(c) \/ MainReject(c) \/ MainAcceptSilent(c)
  \/ MainRead
  \/ MainCanCheckpoint \/ MainInit \/ MainCanRestore \/ MainAbort
  \/ MainPush \/ MainPushFull \/ MainUnqueue \/ MainJoin \/ MainCleanup

CommandThread ==
  \/ CtPop \/ CtInterrupted \/ CtFork \/ CtForkFails \/ CtSetCheckpointing
  \/ CtCheckpointAnswered \/ CtCheckpointLost \/ CtSetCheckpointed \/ CtClear \/ CtClose
  \/ CtGetWorker \/ CtConnect \/ CtConnectFails \/ CtRestoreAnswered \/ CtRestoreLost

Worker(w) ==
  \/ WorkerSetup(w) \/ WorkerSeize(w) \/ WorkerDump(w) \/ WorkerWatch(w) \/ WorkerRespond(w)
  \/ WorkerAccept(w) \/ WorkerRestore(w) \/ WorkerReply(w) \/ WorkerEnd(w)

Next ==
  \/ \E c \in Clients, cmd \in ClientCommands, p \in Pids : Connect(c, cmd, p)
  \/ \E c \in Clients : ClientSend(c)
  \/ Main
  \/ MainStop
  \/ CommandThread
  \/ \E w \in Workers : Worker(w) \/ WorkerCrash(w) \/ sigchld_handler_service(w)
  \/ \E p \in Pids : TargetKilled(p) \/ TargetStopped(p)

Spec == Init /\ [][Next]_vars

\* Both threads and every worker are scheduled, SIGCHLD is delivered, and a
\* client that has connected sends its command or ends: memcr_client_connect is
\* followed by memcr_client_checkpoint or memcr_client_restore.
FairSpec ==
  /\ Spec
  /\ WF_vars(Main)
  /\ WF_vars(CommandThread)
  /\ \A w \in Workers : WF_vars(Worker(w)) /\ WF_vars(sigchld_handler_service(w))
  /\ \A c \in Clients : WF_vars(ClientSend(c))

-----------------------------------------------------------------------------
(* Properties. *)

Codes == {MEMCR_OK, MEMCR_ERROR_GENERAL, MEMCR_INVALID_PID}

MainState == [pc  : {"select", "read", "can_checkpoint", "init", "can_restore", "abort", "push", "unqueue",
                     "join", "cleanup", "down"},
              cmd : Commands \cup {"hangup", "other", None}, pid : Pids \cup {None}, cd : Fds \cup {None}]
CtState == [pc : {"pop", "fork", "set_checkpointing", "wait_checkpoint", "set_checkpointed", "clear",
                  "close", "get_worker", "connect", "wait_restore", "done"},
            pid : Pids \cup {None}, cd : Fds \cup {None},
            worker : Workers \cup {None}, rd : Workers \cup {None}]
ClientState == [st  : {"idle", "connected", "backlog", "opened", "accepted"},
                cmd : Commands \cup {"hangup", "other", None},
                pid : Pids \cup {None}, ans : Codes \cup {"eof", None}]
WorkerState == [pc : Alive \cup Gone \cup {"unused"}, pid : Pids \cup {None},
                abort : BOOLEAN, resp : Codes \cup {None}, conn : BOOLEAN]

\* The daemon, its clients, workers and targets keep to their states.
TypeOK ==
  /\ table \in [Rows -> Row]
  /\ lock \in {"free", "main"}
  /\ queue \in Seq(SvcCtx)
  /\ interrupt \in BOOLEAN
  /\ main \in MainState
  /\ ct \in CtState
  /\ clients \in [Clients -> ClientState]
  /\ fds \in [Fds -> Clients \cup {None}]
  /\ workers \in [Workers -> WorkerState]
  /\ targets \in [Pids -> {"running", "frozen", "lost", "adrift", "dead"}]
  /\ rname \in [Pids -> Workers \cup {None}]
  /\ files \subseteq Pids

\* A process has at most one row: of two CHECKPOINT commands for it that are
\* under way together, can_checkpoint_pid refuses the second, although it and
\* init_pid_checkpoint_data take the lock separately and rows are cleared from
\* both threads and from the SIGCHLD handler in between.
OneRowPerPid == UniquePids(table)

\* The fields of every row agree whichever of set_pid_checkpointing,
\* set_pid_checkpointed, the clearing functions and the SIGCHLD handler came
\* last: a worker is recorded exactly for a finished checkpoint, a command
\* socket exactly for one that runs.
RowsAgree == \A i \in Rows : RowAgrees(table[i])

\* send_checkpoint_abort only ever writes to the socket of the worker that is
\* checkpointing that very process: a row has a command socket only while the
\* command thread serves its pid and holds that socket open, so the descriptor
\* in the table is never closed or reused.
AbortReachesItsWorker ==
  \A i \in Rows : table[i].checkpoint_cmd_sd # SOCKET_INVALID =>
    /\ ct.pc \in {"wait_checkpoint", "set_checkpointed", "clear"}
    /\ ct.pid = table[i].pid
    /\ ct.worker = table[i].checkpoint_cmd_sd
    /\ workers[ct.worker].pc # "unused"
    /\ workers[ct.worker].pid = ct.pid

\* A worker that waits to restore a frozen process owns the restore name of its
\* pid, although a client may ask for a new checkpoint while the worker of the
\* last one is still ending: restore_procedure_service, which connects by pid,
\* reaches this worker and no other.
WaitingIsReachable ==
  \A w \in Workers : workers[w].pc = "accept" /\ targets[workers[w].pid] = "frozen"
    => rname[workers[w].pid] = w

\* None of the places that unlink pages-<pid>.img does so while a worker still
\* needs it to restore a frozen process.
ImageKept ==
  \A w \in Workers :
    workers[w].pc \in {"dumped", "ready", "accept", "restore"} /\ targets[workers[w].pid] = "frozen"
      => workers[w].pid \in files

\* A target whose worker crashed runs with part of its memory gone.  The
\* command thread is then waiting for that very worker, finds the connection
\* dead and kills the target.
LostIsWaitedFor ==
  \A p \in Pids : targets[p] = "lost" =>
    ct.pid = p /\ ct.pc \in {"set_checkpointing", "wait_checkpoint", "wait_restore"}

\* No command has been sent twice for the same process.
Once ==
  \A c, d \in Clients : c # d /\ clients[c].cmd \in Commands =>
    <<clients[c].cmd, clients[c].pid>> # <<clients[d].cmd, clients[d].pid>>

\* README: "restoring it later when needed": a frozen process has a row from the
\* moment it is seized until it runs again or dies, so that can_restore_pid does
\* not refuse a RESTORE for it.  This is so, whatever fails, as long as no
\* command is repeated for a process and the table has a row for every one: a
\* row is cleared only when its process runs or is dead
\* (clear_pid_checkpoint_data, the SIGCHLD handler).
FrozenIsKnown == Once => \A p \in Pids : targets[p] = "frozen" => RowsOf(table, p) # {}

\* With nothing failing, no path of the daemon or of a worker kills a target
\* before shutdown, whatever the order of the commands: neither the failed
\* bind() of a second worker nor "unable to read response from worker, kill
\* both".
NobodyKilled == ~interrupt => \A p \in Pids : targets[p] # "dead"

\* Every client that sent a command and has read the end of the stream had its
\* answer before.
NoneCutOff == \A c \in Clients : clients[c].ans = "eof" => clients[c].cmd = "hangup"

\* What a client is told is what was done: MEMCR_OK for a CHECKPOINT means the
\* process is frozen, for a RESTORE that it runs, unless it has died since or
\* SIGSTOP has made a worker let go of it.  This is so until a client is cut off:
\* a connection that finds no worker is closed twice, the second time perhaps on
\* a client that has got its descriptor since, and whoever gets it next is told
\* that client's answer.
OkIsTrue ==
  [][\A c \in Clients : NoneCutOff /\ clients[c].ans = None /\ clients'[c].ans = MEMCR_OK =>
       IF clients[c].cmd = MEMCR_CHECKPOINT THEN targets[clients[c].pid] \in {"frozen", "adrift", "dead"}
       ELSE targets[clients[c].pid] \in {"running", "adrift", "dead"}]_vars

Commanding(c) == clients[c].st # "idle" /\ clients[c].cmd # "hangup"

\* libmemcrclient.h: "0 on success, <0 on error": every command a client sends is
\* answered with a response code, unless the daemon is shut down.
CommandAnswered ==
  \A c \in Clients : Commanding(c) ~> clients[c].ans \in Codes \/ interrupt

\* This is so as long as nothing fails and no command is repeated: the queue, the
\* lock, the sockets and the listener's wait in read_command for a client that is
\* slow to send hold nobody up for ever.
AnsweredOnce ==
  \A c \in Clients : Commanding(c) ~> clients[c].ans \in Codes \/ interrupt \/ ~Once

\* The SIGINT path of service_mode comes to its end: the command thread is
\* interrupted and joined, and cleanup_checkpointed_pids gets its lock.
ShutdownCompletes == interrupt ~> main.pc = "down" \/ ~Once

\* A daemon that has shut down leaves no process frozen: every one that a
\* worker had seized by then has a row and is killed with it.
NoFrozenLeft == main.pc = "down" /\ Once => \A p \in Pids : targets[p] # "frozen"
=============================================================================
