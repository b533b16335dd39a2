--------------------------- MODULE CheckpointTable ---------------------------
(* checkpoint_service_data: the table in which the memcr daemon remembers     *)
(* which processes it has been asked to checkpoint, which worker holds each   *)
(* one and how an ongoing checkpoint can be told to abort.  Every operator is *)
(* the effect of one function of memcr.c on the table t; Service says when it *)
(* runs and who holds checkpoint_service_data_lock.                           *)
EXTENDS Integers, FiniteSetsExt

CONSTANTS CHECKPOINTED_PIDS_LIMIT,   \* number of rows
          Pids,                      \* processes that can be checkpointed
          Workers,                   \* pids of forked workers
          PID_INVALID, SOCKET_INVALID

ASSUME LimitAssumption == CHECKPOINTED_PIDS_LIMIT \in Nat \ {0}
ASSUME InvalidAssumption ==
  /\ PID_INVALID \notin Pids \cup Workers
  /\ SOCKET_INVALID \notin Workers

Rows == 0 .. (CHECKPOINTED_PIDS_LIMIT - 1)

STATE_RESTORED      == "restored"
STATE_CHECKPOINTING == "checkpointing"
STATE_CHECKPOINTED  == "checkpointed"

\* checkpoint_cmd_sd is named by the worker at its other end.
Row == [pid               : Pids \cup {PID_INVALID},
        worker            : Workers \cup {PID_INVALID},
        state             : {STATE_RESTORED, STATE_CHECKPOINTING, STATE_CHECKPOINTED},
        checkpoint_abort  : BOOLEAN,
        checkpoint_cmd_sd : Workers \cup {SOCKET_INVALID}]

\* The static table is all zeroes, also checkpoint_cmd_sd; nothing reads that
\* field of a row before init_pid_checkpoint_data has set it to SOCKET_INVALID.
EmptyTable ==
  [i \in Rows |-> [pid |-> PID_INVALID, worker |-> PID_INVALID, state |-> STATE_RESTORED,
                   checkpoint_abort |-> FALSE, checkpoint_cmd_sd |-> SOCKET_INVALID]]

RowsOf(t, p) == {i \in Rows : t[i].pid = p}

\* The four assignments that every clearing loop makes; checkpoint_abort is not
\* among them.
Cleared(row) == [row EXCEPT !.pid = PID_INVALID, !.worker = PID_INVALID,
                            !.state = STATE_RESTORED, !.checkpoint_cmd_sd = SOCKET_INVALID]

\* The test is left out.
can_checkpoint_always(t, p) == TRUE

can_checkpoint_pid(t, p) == RowsOf(t, p) = {}

can_restore_pid(t, p) == RowsOf(t, p) # {}

\* The first free row.  A full table is only logged.
init_pid_checkpoint_data(t, p) ==
  LET free == RowsOf(t, PID_INVALID)
  IN  IF free = {} THEN t ELSE [t EXCEPT ![Min(free)] = [Cleared(@) EXCEPT !.pid = p]]

\* The rows set_pid_checkpointing accepts.
Checkpointable(t, p) == {i \in RowsOf(t, p) : t[i].state = STATE_RESTORED}

set_pid_checkpointing(t, p, sd) ==
  LET rows == Checkpointable(t, p)
  IN  IF rows = {} THEN t
      ELSE [t EXCEPT ![Min(rows)] = [@ EXCEPT !.state = STATE_CHECKPOINTING,
                                              !.checkpoint_cmd_sd = sd]]

\* set_pid_checkpointing writes the abort command when the row asks for it.
AbortOnStart(t, p) ==
  LET rows == Checkpointable(t, p)
  IN  rows # {} /\ t[Min(rows)].checkpoint_abort

\* checkpoint_cmd_sd is not reset.
checkpointed_keeps_sd(t, p, w) ==
  LET rows == {i \in RowsOf(t, p) : t[i].state = STATE_CHECKPOINTING}
  IN  IF rows = {} THEN t
      ELSE [t EXCEPT ![Min(rows)] = [@ EXCEPT !.state = STATE_CHECKPOINTED, !.worker = w]]

set_pid_checkpointed(t, p, w) ==
  LET rows == {i \in RowsOf(t, p) : t[i].state = STATE_CHECKPOINTING}
  IN  IF rows = {} THEN t
      ELSE [t EXCEPT ![Min(rows)] = [@ EXCEPT !.state = STATE_CHECKPOINTED,
                                              !.checkpoint_cmd_sd = SOCKET_INVALID,
                                              !.worker = w]]

\* Only the pid is reset.
clear_only_pid(t, p) ==
  [i \in Rows |-> IF t[i].pid = p THEN [t[i] EXCEPT !.pid = PID_INVALID] ELSE t[i]]

clear_pid_checkpoint_data(t, p) ==
  [i \in Rows |-> IF t[i].pid = p THEN Cleared(t[i]) ELSE t[i]]

\* The row is not compared with the worker that died.
clear_every_worker(t, w) ==
  [i \in Rows |-> IF t[i].worker # PID_INVALID THEN Cleared(t[i]) ELSE t[i]]

clear_pid_on_worker_exit_non_blocking(t, w) ==
  [i \in Rows |-> IF t[i].worker = w THEN Cleared(t[i]) ELSE t[i]]

get_pid_worker(t, p) ==
  IF RowsOf(t, p) = {} THEN PID_INVALID ELSE t[Min(RowsOf(t, p))].worker

\* try_to_abort_checkpoint on the row it finds: a checkpoint that is still
\* queued gets the flag, an ongoing one gets the abort command on AbortSd.
FlagAbort(t, p) ==
  LET i == Min(RowsOf(t, p))
  IN  IF t[i].state = STATE_RESTORED THEN [t EXCEPT ![i] = [@ EXCEPT !.checkpoint_abort = TRUE]]
      ELSE t

AbortSd(t, p) == t[Min(RowsOf(t, p))].checkpoint_cmd_sd

-----------------------------------------------------------------------------

\* A process has at most one row, although can_checkpoint_pid and
\* init_pid_checkpoint_data take the lock separately and the rows are cleared
\* from three places.
UniquePids(t) ==
  \A i, j \in Rows : t[i].pid = t[j].pid /\ t[i].pid # PID_INVALID => i = j

\* The fields of a row agree: only a used row has a state, a worker or a
\* socket; the worker is known exactly when the checkpoint is done and the
\* command socket exactly while it runs.
RowAgrees(row) ==
  /\ row.pid = PID_INVALID => row.state = STATE_RESTORED
  /\ row.worker # PID_INVALID <=> row.state = STATE_CHECKPOINTED
  /\ row.checkpoint_cmd_sd # SOCKET_INVALID <=> row.state = STATE_CHECKPOINTING
=============================================================================
