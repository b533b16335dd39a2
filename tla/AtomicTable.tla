----------------------------- MODULE AtomicTable -----------------------------
(* What the threads of the daemon rely on when they use                       *)
(* checkpoint_service_data: each of its functions takes effect at once, a     *)
(* process gets a row only when it has none, and nothing else changes the     *)
(* table.  TableSteps, where the functions are loops that read and write one  *)
(* field at a time, and Service, where they are single steps of the threads   *)
(* and of the SIGCHLD handler, both implement this.                           *)
EXTENDS CheckpointTable

VARIABLE table

\* The steps from a table t to a table u.

NewRow(t, i, p) == [t EXCEPT ![i] = [Cleared(t[i]) EXCEPT !.pid = p]]

\* init_pid_checkpoint_data takes a free row, not always the first: one before
\* it may be freed meanwhile.
InitRow(t, u, p) ==
  /\ can_checkpoint_pid(t, p)
  /\ \E i \in RowsOf(t, PID_INVALID) : u = NewRow(t, i, p)

\* The one effect that is not the whole of a function: the row goes while
\* try_to_abort_checkpoint has tested its pid and not yet its state, and the
\* request stays with the free row, or with one that is about to be free.
StrayAbort(t, u, i) ==
  /\ t[i].pid = PID_INVALID \/ t[i].state = STATE_CHECKPOINTED
  /\ u = [t EXCEPT ![i] = [@ EXCEPT !.checkpoint_abort = TRUE]]

RequestAbort(t, u, p) == can_restore_pid(t, p) /\ u = FlagAbort(t, p)

\* cleanup_checkpointed_pids.
ClearAll(t) == [i \in Rows |-> IF t[i].pid = PID_INVALID THEN t[i] ELSE Cleared(t[i])]

Step(t, u) ==
  \/ \E p \in Pids : \/ InitRow(t, u, p)
                     \/ RequestAbort(t, u, p)
                     \/ u = clear_pid_checkpoint_data(t, p)
  \/ \E p \in Pids, w \in Workers : \/ u = set_pid_checkpointing(t, p, w)
                                    \/ u = set_pid_checkpointed(t, p, w)
  \/ \E w \in Workers : u = clear_pid_on_worker_exit_non_blocking(t, w)
  \/ \E i \in Rows : StrayAbort(t, u, i)
  \/ u = ClearAll(t)

Init == table = EmptyTable

Next == table' # table /\ Step(table, table')

Spec == Init /\ [][Next]_table
=============================================================================
