----------------------------- MODULE TableSteps ------------------------------
(* checkpoint_service_data, one memory access at a time.  The listener thread *)
(* (main) and the command thread (ct) call the functions on the table in the  *)
(* order of service_command and service_command_thread, each function takes   *)
(* checkpoint_service_data_lock and loops over the rows.  SIGCHLD interrupts  *)
(* either thread between any two accesses, and its handler loops over the     *)
(* rows without the lock.  The stores of a function to one row are plain C    *)
(* stores to different fields: the compiler may order them as it likes.       *)
(*                                                                            *)
(* Workers end when they want and answer what they want, which covers all     *)
(* that Service says of them.                                                 *)
EXTENDS CheckpointTable, Sequences

CONSTANTS MAX_CLIENT_CONNECTIONS,   \* capacity of the command queue
          MaxCheckpoints,           \* CHECKPOINT commands that clients send
          MaxRestores,              \* RESTORE commands
          None

VARIABLES table,
          lock,      \* checkpoint_service_data_lock: "free" or its owner
          th,        \* main and ct
          hd,        \* the SIGCHLD handler that interrupts each of them
          queue,     \* service_cmds_ctx
          commands,  \* how many of each are still to be sent
          workers,   \* "unused", "alive", "zombie" or "reaped", and the target
          killed,    \* what cleanup_checkpointed_pids has killed
          late       \* a worker with a row has ended by itself during shutdown

vars == <<table, lock, th, hd, queue, commands, workers, killed, late>>
env == <<queue, commands, workers, killed, late>>

Threads == {"main", "ct"}
Commands == {"checkpoint", "restore"}

\* at: the function the thread executes, or where it is between functions.
\* step: how far it is in that function; i: the row; todo: the stores to row i
\* that are still to come; old: what the row was when they began.
NoWrites == [f \in {} |-> None]
Idle(at) == [at |-> at, cmd |-> None, pid |-> None, worker |-> None,
             step |-> "lock", i |-> 0, todo |-> NoWrites, old |-> None]
NoHandler == [worker |-> None, i |-> 0, todo |-> NoWrites, old |-> None]

Functions == {"can_checkpoint", "init", "can_restore", "abort", "clear", "cleanup",
              "set_checkpointing", "set_checkpointed", "get_worker"}

Runs(t) == hd[t] = NoHandler
At(t, at) == Runs(t) /\ th[t].at = at
In(t, step) == Runs(t) /\ th[t].at \in Functions /\ th[t].step = step

\* The local variables are forgotten between two commands.
Goto(t, at) ==
  th' = [th EXCEPT ![t] = IF at \in {"select", "pop", "join", "cleanup", "down"} THEN Idle(at)
                          ELSE [Idle(at) EXCEPT !.cmd = th[t].cmd, !.pid = th[t].pid, !.worker = th[t].worker]]

\* The loop counter after the last row.
End == CHECKPOINTED_PIDS_LIMIT

-----------------------------------------------------------------------------
(* Who is writing, and the table as it is with every function complete.       *)

Writes(x, i) == x.i = i /\ DOMAIN x.todo # {}

Pending(i) == {th[t] : t \in {u \in Threads : Writes(th[u], i)}}
              \cup {hd[t] : t \in {u \in Threads : Writes(hd[u], i)}}

\* A row is free once its pid is, and belongs to nobody's function any more;
\* what is cleared stays as it was until its pid goes; any other function has
\* its effect when it starts to write.
Complete(i) ==
  LET pending == Pending(i)
      keepers == {x \in pending : "pid" \in DOMAIN x.todo}
      writer(f) == {x \in pending : f \in DOMAIN x.todo}
  IN  IF table[i].pid = PID_INVALID THEN Cleared(table[i])
      ELSE IF pending = {} THEN table[i]
      ELSE IF keepers # {}
      THEN [(CHOOSE x \in keepers : TRUE).old EXCEPT !.checkpoint_abort = table[i].checkpoint_abort]
      ELSE [f \in DOMAIN table[i] |->
              IF writer(f) = {} THEN table[i][f] ELSE (CHOOSE x \in writer(f) : TRUE).todo[f]]

Completed == [i \in Rows |-> Complete(i)]

\* One store of x, a thread or a handler, to its row.
Store(x, f) == table' = [table EXCEPT ![x.i] = [@ EXCEPT ![f] = x.todo[f]]]
Without(todo, f) == [g \in DOMAIN todo \ {f} |-> todo[g]]

-----------------------------------------------------------------------------
(* The functions: pthread_mutex_lock, the loop over the rows, the stores to a *)
(* row that is found, pthread_mutex_unlock.  The lock does not concern the    *)
(* handler: taking it is one step with the first access after it, and         *)
(* releasing it with the last one before it.                                  *)

NeedsLockNotToClear(t) == ~(t = "ct" /\ th[t].at = "clear")

NeedsLock(t) == TRUE

Acquired(t) ==
  IF th[t].step = "lock" /\ NeedsLock(t) THEN lock = "free" /\ lock' = t ELSE UNCHANGED lock

ClearWrites == [pid |-> PID_INVALID, worker |-> PID_INVALID,
                checkpoint_cmd_sd |-> SOCKET_INVALID, state |-> STATE_RESTORED]

\* A free row is taken to be clear.
InitWritesPid(p) == [pid |-> p]

InitWrites(p) == [ClearWrites EXCEPT !.pid = p]
CheckpointingWrites(w) == [state |-> STATE_CHECKPOINTING, checkpoint_cmd_sd |-> w]

\* checkpoint_cmd_sd is not reset.
CheckpointedKeepsSd(w) == [state |-> STATE_CHECKPOINTED, worker |-> w]

CheckpointedWrites(w) == [state |-> STATE_CHECKPOINTED, checkpoint_cmd_sd |-> SOCKET_INVALID, worker |-> w]

\* The condition on the pid of a row.
PidMatches(t) ==
  LET pid == table[th[t].i].pid
  IN  CASE th[t].at = "init"    -> pid = PID_INVALID
        [] th[t].at = "cleanup" -> pid # PID_INVALID
        [] OTHER                -> pid = th[t].pid

\* The stores begin.
Begin(t, writes) ==
  th' = [th EXCEPT ![t].step = "write", ![t].todo = writes, ![t].old = Complete(th[t].i)]

NextRow(t) == th' = [th EXCEPT ![t].step = "test", ![t].i = @ + 1]

\* pthread_mutex_unlock and return, with a row found or not.
Return(t, found) ==
  /\ lock' = IF NeedsLock(t) THEN "free" ELSE lock
  /\ Goto(t, CASE th[t].at = "can_checkpoint"    -> IF found THEN "select" ELSE "init"
               [] th[t].at = "can_restore"       -> IF found THEN "abort" ELSE "select"
               [] th[t].at \in {"init", "abort"} -> "push"
               [] th[t].at = "cleanup"           -> "down"
               [] th[t].at = "set_checkpointing" -> "wait"
               [] th[t].at = "get_worker"        -> "pop"
               [] OTHER                          -> IF t = "main" THEN "select" ELSE "pop")

AfterLast(t) == th[t].i = End

Test(t) ==
  /\ In(t, "lock") \/ In(t, "test")
  /\ ~AfterLast(t)
  /\ \/ ~PidMatches(t) /\ Acquired(t) /\ NextRow(t)
     \/ PidMatches(t) /\ th[t].at = "init" /\ Acquired(t) /\ Begin(t, InitWrites(th[t].pid))
     \/ PidMatches(t) /\ th[t].at = "clear" /\ Acquired(t) /\ Begin(t, ClearWrites)
     \/ /\ PidMatches(t) /\ th[t].at \in {"can_checkpoint", "can_restore"}
        /\ lock \in {"free", t}
        /\ Return(t, TRUE)
     \/ /\ PidMatches(t) /\ th[t].at \notin {"init", "clear", "can_checkpoint", "can_restore"}
        /\ Acquired(t)
        /\ th' = [th EXCEPT ![t].step = "second"]
  /\ UNCHANGED <<table, hd, env>>

\* No row, or no further one.  try_to_abort_checkpoint returns with the mutex
\* locked.
TestEnds(t) ==
  /\ In(t, "test")
  /\ AfterLast(t)
  /\ IF th[t].at = "abort" THEN Goto(t, "push") /\ UNCHANGED lock ELSE Return(t, FALSE)
  /\ UNCHANGED <<table, hd, env>>

\* The functions that read another field of a row with the right pid; the
\* abort command of try_to_abort_checkpoint goes to a socket.
ReadState(t) ==
  LET state == table[th[t].i].state
  IN  /\ In(t, "second")
      /\ \/ /\ th[t].at = "set_checkpointing"
            /\ IF state = STATE_RESTORED THEN Begin(t, CheckpointingWrites(th[t].worker)) ELSE NextRow(t)
            /\ UNCHANGED lock
         \/ /\ th[t].at = "set_checkpointed"
            /\ IF state = STATE_CHECKPOINTING THEN Begin(t, CheckpointedWrites(th[t].worker)) ELSE NextRow(t)
            /\ UNCHANGED lock
         \/ /\ th[t].at = "abort"
            /\ IF state = STATE_RESTORED THEN Begin(t, [checkpoint_abort |-> TRUE]) /\ UNCHANGED lock
                                         ELSE Return(t, TRUE)
      /\ UNCHANGED <<table, hd, env>>

\* get_pid_worker; without a worker there is nothing to restore.
ReadWorker(t) ==
  /\ In(t, "second")
  /\ th[t].at = "get_worker"
  /\ LET w == table[th[t].i].worker IN
       IF w = PID_INVALID THEN Return(t, TRUE)
       ELSE lock' = "free" /\ th' = [th EXCEPT ![t] = [Idle("restore") EXCEPT !.pid = th[t].pid, !.worker = w]]
  /\ UNCHANGED <<table, hd, env>>

\* The row is cleared before its pid is used.
KillCleared(t) ==
  /\ In(t, "second")
  /\ th[t].at = "cleanup"
  /\ table' = [table EXCEPT ![th[t].i] = Cleared(@)]
  /\ killed' = killed \cup {table'[th[t].i].pid}
  /\ NextRow(t)
  /\ UNCHANGED <<lock, hd, queue, commands, workers, late>>

\* cleanup_checkpointed_pids reads the pid again for kill() and cleanup_pid().
Kill(t) ==
  /\ In(t, "second")
  /\ th[t].at = "cleanup"
  /\ killed' = killed \cup {table[th[t].i].pid}
  /\ Begin(t, ClearWrites)
  /\ UNCHANGED <<table, lock, hd, queue, commands, workers, late>>

Write(t) ==
  /\ In(t, "write")
  /\ \E f \in DOMAIN th[t].todo :
       LET todo == Without(th[t].todo, f) IN
       /\ Store(th[t], f)
       /\ \/ /\ DOMAIN todo # {}
             /\ th' = [th EXCEPT ![t].todo = todo]
             /\ UNCHANGED lock
          \/ /\ DOMAIN todo = {} /\ th[t].at \in {"clear", "cleanup"}
             /\ th' = [th EXCEPT ![t].todo = todo, ![t].old = None, ![t].step = "test", ![t].i = @ + 1]
             /\ UNCHANGED lock
          \/ /\ DOMAIN todo = {} /\ th[t].at \notin {"clear", "cleanup"}
             /\ Return(t, TRUE)
  /\ UNCHANGED <<hd, env>>

-----------------------------------------------------------------------------
(* The order of the calls. *)

\* service_command.
MainReceive ==
  /\ At("main", "select")
  /\ \E cmd \in Commands, p \in Pids :
       /\ commands[cmd] > 0
       /\ commands' = [commands EXCEPT ![cmd] = @ - 1]
       /\ th' = [th EXCEPT !["main"] = [Idle(IF cmd = "checkpoint" THEN "can_checkpoint" ELSE "can_restore")
                                          EXCEPT !.cmd = cmd, !.pid = p]]
  /\ UNCHANGED <<table, lock, hd, queue, workers, killed, late>>

MainPush ==
  /\ At("main", "push")
  /\ IF Len(queue) < MAX_CLIENT_CONNECTIONS
     THEN queue' = Append(queue, [cmd |-> th["main"].cmd, pid |-> th["main"].pid]) /\ Goto("main", "select")
     ELSE UNCHANGED queue /\ Goto("main", IF th["main"].cmd = "checkpoint" THEN "clear" ELSE "select")
  /\ UNCHANGED <<table, lock, hd, commands, workers, killed, late>>

MainStop ==
  /\ At("main", "select")
  /\ Goto("main", "join")
  /\ UNCHANGED <<table, lock, hd, env>>

HasRow(w) == \E i \in Rows : table[i].worker = w

MainJoin ==
  /\ At("main", "join")
  /\ th["ct"].at = "done"
  /\ Goto("main", "cleanup")
  /\ late' = \E w \in Workers : workers[w].st = "zombie" /\ HasRow(w)
  /\ UNCHANGED <<table, lock, hd, queue, commands, workers, killed>>

\* service_command_thread.
CtPop ==
  /\ At("ct", "pop")
  /\ \/ /\ queue # <<>>
        /\ queue' = Tail(queue)
        /\ th' = [th EXCEPT !["ct"] = [Idle(IF Head(queue).cmd = "checkpoint" THEN "fork" ELSE "get_worker")
                                         EXCEPT !.pid = Head(queue).pid, !.worker = PID_INVALID]]
     \/ /\ th["main"].at = "join"
        /\ th' = [th EXCEPT !["ct"] = Idle("done")]
        /\ UNCHANGED queue
  /\ UNCHANGED <<table, lock, hd, commands, workers, killed, late>>

CtFork ==
  /\ At("ct", "fork")
  /\ \/ \E w \in Workers :
          /\ workers[w].st = "unused"
          /\ workers' = [workers EXCEPT ![w] = [st |-> "alive", pid |-> th["ct"].pid]]
          /\ th' = [th EXCEPT !["ct"].at = "set_checkpointing", !["ct"].worker = w]
     \/ Goto("ct", "clear") /\ UNCHANGED workers
  /\ UNCHANGED <<table, lock, hd, queue, commands, killed, late>>

\* The worker answers, or does not; a restore is over.
CtAnswer ==
  /\ \/ At("ct", "wait") /\ (Goto("ct", "set_checkpointed") \/ Goto("ct", "clear"))
     \/ At("ct", "restore") /\ Goto("ct", "clear")
  /\ UNCHANGED <<table, lock, hd, env>>

-----------------------------------------------------------------------------
(* Workers and the SIGCHLD handler. *)

WorkerEnds(w) ==
  /\ workers[w].st = "alive"
  /\ workers' = [workers EXCEPT ![w].st = "zombie"]
  /\ late' = (late \/ (th["main"].at = "cleanup" /\ HasRow(w) /\ workers[w].pid \notin killed))
  /\ UNCHANGED <<table, lock, th, hd, queue, commands, killed>>

\* SIGCHLD is delivered to a thread, and waitpid() returns the worker.
sigchld_handler_service(t) ==
  /\ Runs(t)
  /\ th[t].at \notin {"done", "down"}
  /\ \E w \in Workers :
       /\ workers[w].st = "zombie"
       /\ workers' = [workers EXCEPT ![w] = [st |-> "reaped", pid |-> None]]
       /\ hd' = [hd EXCEPT ![t] = [NoHandler EXCEPT !.worker = w]]
  /\ UNCHANGED <<table, lock, th, queue, commands, killed, late>>

\* clear_pid_on_worker_exit_non_blocking.
HandlerTest(t) ==
  /\ ~Runs(t)
  /\ DOMAIN hd[t].todo = {}
  /\ hd' = [hd EXCEPT ![t] =
       IF @.i = End THEN NoHandler
       ELSE IF table[@.i].worker # @.worker THEN [@ EXCEPT !.i = @ + 1]
       ELSE [@ EXCEPT !.todo = ClearWrites, !.old = Complete(hd[t].i)]]
  /\ UNCHANGED <<table, lock, th, env>>

HandlerWrite(t) ==
  /\ ~Runs(t)
  /\ \E f \in DOMAIN hd[t].todo :
       /\ Store(hd[t], f)
       /\ LET todo == Without(hd[t].todo, f) IN
          hd' = [hd EXCEPT ![t] = IF DOMAIN todo # {} THEN [@ EXCEPT !.todo = todo]
                                  ELSE [NoHandler EXCEPT !.worker = hd[t].worker, !.i = hd[t].i + 1]]
  /\ UNCHANGED <<lock, th, env>>

-----------------------------------------------------------------------------

Init ==
  /\ table = EmptyTable
  /\ lock = "free"
  /\ th = [t \in Threads |-> Idle(IF t = "main" THEN "select" ELSE "pop")]
  /\ hd = [t \in Threads |-> NoHandler]
  /\ queue = <<>>
  /\ commands = [checkpoint |-> MaxCheckpoints, restore |-> MaxRestores]
  /\ workers = [w \in Workers |-> [st |-> "unused", pid |-> None]]
  /\ killed = {}
  /\ late = FALSE

Next ==
  \/ \E t \in Threads : \/ Test(t) \/ TestEnds(t) \/ ReadState(t) \/ ReadWorker(t)
                        \/ Kill(t) \/ Write(t)
                        \/ sigchld_handler_service(t) \/ HandlerTest(t) \/ HandlerWrite(t)
  \/ MainReceive \/ MainPush \/ MainStop \/ MainJoin
  \/ CtPop \/ CtFork \/ CtAnswer
  \/ \E w \in Workers : WorkerEnds(w)

Spec == Init /\ [][Next]_vars

-----------------------------------------------------------------------------
(* Properties. *)

\* The rows keep their types, also halfway through a function, and only the
\* thread that has the lock is inside one.
TypeOK ==
  /\ table \in [Rows -> Row]
  /\ lock \in Threads \cup {"free"}
  /\ \A t \in Threads : /\ th[t].i \in 0 .. End
                        /\ hd[t].i \in 0 .. End
                        /\ th[t].step # "lock" => lock = t
  /\ Len(queue) <= MAX_CLIENT_CONNECTIONS

\* The types hold, and the row of a process is consistent when nobody is in the middle of writing
\* it, although the SIGCHLD handler clears rows without the lock: it may do so
\* while the thread it interrupts, or the other one, is inside a function on the
\* same row (clear_pid_on_worker_exit_non_blocking).  A free row can be left
\* with the state of the checkpoint that lost the race; it is overwritten when
\* the row is used again.
RowsAgreeAtRest ==
  /\ TypeOK
  /\ \A i \in Rows : table[i].pid # PID_INVALID /\ Pending(i) = {} => RowAgrees(table[i])

Atomic == INSTANCE AtomicTable WITH table <- Completed

\* Interrupted or not, every function on the table has its whole effect or
\* none, and no other effect: what the loops do field by field is what
\* AtomicTable, and with it Service, does in one step.
TableIsAtomic == Atomic!Spec

\* A row is only ever taken from the process it is cleared for, or from the
\* worker that has ended: a clearing that was decided on an old content of the
\* row never hits a process that has got the row since.
ClearsOwnRow ==
  [][\A i \in Rows : table[i].pid # PID_INVALID /\ table'[i].pid # table[i].pid =>
       \E t \in Threads : \/ th[t].at = "clear" /\ th[t].pid = table[i].pid
                          \/ th[t].at = "cleanup"
                          \/ hd[t].worker = Complete(i).worker]_vars

\* cleanup_checkpointed_pids tests a pid and reads it again for kill(): it kills
\* that process, and never "process 0", which is the daemon's own process group,
\* unless a checkpointed process ends by itself during the shutdown.
KillsWhatItTested == PID_INVALID \in killed => late
=============================================================================
