------------------------- MODULE ServiceWorldProofs --------------------------
(* What the workers, their targets and the dump files have to do with the     *)
(* table and the command thread stays so (WorldInv), for any number of        *)
(* clients, pids, workers and rows, whatever the environment does.            *)
EXTENDS ServiceProofs

-----------------------------------------------------------------------------
(* The workers recorded in the table. *)

\* No row gets a worker.
NoNewWorker(s, t) ==
  \A i \in Rows : t[i].worker # PID_INVALID => t[i].worker = s[i].worker /\ t[i].pid = s[i].pid

LEMMA ClearNoWorker ==
  ASSUME NEW s \in [Rows -> Row], NEW t, NEW S,
         t = [i \in Rows |-> IF i \in S THEN Cleared(s[i]) ELSE s[i]]
  PROVE  /\ NoNewWorker(s, t)
         /\ \A i \in S \cap Rows : t[i].worker = PID_INVALID
  <1>1. \A i \in Rows : Cleared(s[i]).worker = PID_INVALID
    BY Zenon DEF Cleared, Row
  <1> QED
    BY Zenon, <1>1 DEF NoNewWorker

LEMMA CheckpointingNoWorker ==
  ASSUME NEW s \in [Rows -> Row], NEW p, NEW w
  PROVE  NoNewWorker(s, set_pid_checkpointing(s, p, w))
  BY Zenon DEF set_pid_checkpointing, NoNewWorker, Row

LEMMA CheckpointedWorker ==
  ASSUME Least, NEW s \in [Rows -> Row], NEW p, NEW w
  PROVE  \A i \in Rows :
           LET row == set_pid_checkpointed(s, p, w)[i]
           IN  \/ row.worker = s[i].worker /\ row.pid = s[i].pid
               \/ row.worker = w /\ row.pid = p
  <1> DEFINE rows == {i \in RowsOf(s, p) : s[i].state = STATE_CHECKPOINTING}
  <1>1. CASE rows = {}
    BY Zenon, <1>1 DEF set_pid_checkpointed
  <1>2. CASE rows # {}
    <2>1. PICK r : r = Min(rows)
      BY Zenon
    <2>2. r \in Rows /\ s[r].pid = p
      BY <1>2, <2>1, MinRow DEF RowsOf
    <2>3. PICK row : row = [s[r] EXCEPT !.state = STATE_CHECKPOINTED,
                                        !.checkpoint_cmd_sd = SOCKET_INVALID, !.worker = w]
      BY Zenon
    <2>4. row.worker = w /\ row.pid = p
      BY Zenon, <2>2, <2>3 DEF Row
    <2>5. set_pid_checkpointed(s, p, w) = [s EXCEPT ![r] = row]
      BY Zenon, <1>2, <2>1, <2>2, <2>3 DEF set_pid_checkpointed
    <2> QED
      BY Zenon, <2>2, <2>4, <2>5
  <1> QED
    BY Zenon, <1>1, <1>2

\* Only set_pid_checkpointed records a worker.
LEMMA TableWorkers ==
  Least /\ Inv /\ [Next]_vars =>
    \/ NoNewWorker(table, table')
    \/ CtSetCheckpointed
  <1>InitNoWorker.
    ASSUME Least, NEW s \in [Rows -> Row], NEW p
    PROVE  NoNewWorker(s, init_pid_checkpoint_data(s, p))
    <2> USE <1>InitNoWorker
    <2>1. CASE RowsOf(s, PID_INVALID) = {}
      BY Zenon, <2>1 DEF init_pid_checkpoint_data, NoNewWorker
    <2>2. CASE RowsOf(s, PID_INVALID) # {}
      <3>1. PICK r : r = Min(RowsOf(s, PID_INVALID))
        BY Zenon
      <3>2. r \in Rows
        BY Zenon, <2>2, <3>1, MinRow DEF RowsOf
      <3>3. PICK row : row = [Cleared(s[r]) EXCEPT !.pid = p]
        BY Zenon
      <3>4. row.worker = PID_INVALID
        BY Zenon, <3>2, <3>3 DEF Cleared, Row
      <3>5. init_pid_checkpoint_data(s, p) = [s EXCEPT ![r] = row]
        BY Zenon, <2>2, <3>1, <3>2, <3>3 DEF init_pid_checkpoint_data
      <3> QED
        BY Zenon, <3>2, <3>4, <3>5 DEF NoNewWorker
    <2> QED
      BY Zenon, <2>1, <2>2
  <1>FlagNoWorker.
    ASSUME NEW s \in [Rows -> Row], NEW p
    PROVE  NoNewWorker(s, FlagAbort(s, p))
    BY Zenon, <1>FlagNoWorker DEF FlagAbort, NoNewWorker, Row
  <1> SUFFICES ASSUME Least, Inv, [Next]_vars
               PROVE  \/ NoNewWorker(table, table')
                      \/ CtSetCheckpointed
    BY Zenon
  <1>0. table \in [Rows -> Row]
    BY Zenon DEF Inv, TypeInv, TypeOK
  <1>1. CASE UNCHANGED table
    BY Zenon, <1>1 DEF NoNewWorker
  <1>2. CASE Main
    <2>1. CASE MainInit
      BY Zenon, <1>0, <2>1, <1>InitNoWorker DEF MainInit
    <2>2. CASE MainAbort
      BY Zenon, <1>0, <1>1, <2>2, <1>FlagNoWorker DEF MainAbort
    <2>3. CASE MainUnqueue
      <3>1. table' = [i \in Rows |-> IF i \in RowsOf(table, main.pid) THEN Cleared(table[i]) ELSE table[i]]
        BY Zenon, <2>3 DEF MainUnqueue, clear_pid_checkpoint_data, RowsOf
      <3> QED
        BY Zenon, <1>0, <3>1, ClearNoWorker
    <2>4. CASE MainCleanup
      <3>1. table' = [i \in Rows |-> IF i \in {j \in Rows : table[j].pid # PID_INVALID}
                                      THEN Cleared(table[i]) ELSE table[i]]
        BY Zenon, <2>4 DEF MainCleanup
      <3> QED
        BY Zenon, <1>0, <3>1, ClearNoWorker
    <2> QED
      BY Zenon, <1>1, <1>2, <2>1, <2>2, <2>3, <2>4
         DEF Main, MainAccept, MainReject, MainAcceptSilent, MainRead, MainCanCheckpoint,
             MainCanRestore, MainPush, MainPushFull, MainJoin, daemon
  <1>3. CASE CommandThread
    <2>1. CASE CtSetCheckpointing
      BY Zenon, <1>0, <2>1, CheckpointingNoWorker DEF CtSetCheckpointing
    <2>2. CASE CtClear
      <3>1. table' = [i \in Rows |-> IF i \in RowsOf(table, ct.pid) THEN Cleared(table[i]) ELSE table[i]]
        BY Zenon, <2>2 DEF CtClear, clear_pid_checkpoint_data, RowsOf
      <3> QED
        BY Zenon, <1>0, <3>1, ClearNoWorker
    <2> QED
      BY Zenon, <1>1, <1>3, <2>1, <2>2
         DEF CommandThread, CtPop, CtInterrupted, CtFork, CtForkFails, CtCheckpointAnswered,
             CtCheckpointLost, CtClose, CtGetWorker, CtConnect, CtConnectFails, CtRestoreAnswered,
             CtRestoreLost
  <1>4. ASSUME NEW w \in Workers, sigchld_handler_service(w) PROVE NoNewWorker(table, table')
    <2>1. table' = [i \in Rows |-> IF i \in {j \in Rows : table[j].worker = w}
                                    THEN Cleared(table[i]) ELSE table[i]]
      BY Zenon, <1>4 DEF sigchld_handler_service, clear_pid_on_worker_exit_non_blocking
    <2> QED
      BY Zenon, <1>0, <2>1, ClearNoWorker
  <1>5. ASSUME NEW w \in Workers, Worker(w) \/ WorkerCrash(w) PROVE UNCHANGED table
    BY Zenon, <1>5
       DEF Worker, WorkerCrash, WorkerSetup, WorkerSeize, WorkerDump, WorkerWatch, WorkerRespond,
                WorkerAccept, WorkerRestore, WorkerReply, WorkerEnd, daemon
  <1>6. MainStop => UNCHANGED table
    BY Zenon DEF MainStop
  <1> QED
    BY Zenon, <1>1, <1>2, <1>3, <1>4, <1>5, <1>6, OutsideFrame DEF Next

-----------------------------------------------------------------------------
(* The names of workers. *)

LEMMA NamesNext ==
  Least /\ Inv /\ NamesInv /\ [Next]_vars => NamesInv'
  <1>CleanupNames.
    ASSUME NEW P, cleanup_pid(P)
    PROVE  \A p \in Pids : rname'[p] # None => rname'[p] = rname[p]
    BY Zenon, <1>CleanupNames DEF cleanup_pid
  <1>NamesOfFiles.
    ASSUME Inv, [Next]_vars, NEW p \in Pids, rname'[p] # None
    PROVE  rname'[p] = rname[p] \/ \E w \in Workers : rname'[p] = w /\ Of(w, p)
    <2> USE <1>NamesOfFiles
    <2> DEFINE Goal == rname'[p] = rname[p] \/ \E w \in Workers : rname'[p] = w /\ Of(w, p)
    <2>1. CASE UNCHANGED rname
      BY Zenon, <2>1
    <2>2. CASE \E P : cleanup_pid(P)
      BY Zenon, <2>2, <1>CleanupNames
    <2>3. ASSUME NEW w \in Workers, Worker(w) \/ WorkerCrash(w) \/ sigchld_handler_service(w) PROVE Goal
      <3>1. rname \in [Pids -> Workers \cup {None}] /\ (workers[w].pc # "unused" => workers[w].pid \in Pids)
        BY Zenon DEF Inv, TypeInv, TypeOK, WorkersOK
      <3>2. CASE WorkerSetup(w)
        BY Zenon, <3>1, <3>2 DEF WorkerSetup, Of
      <3>3. CASE WorkerEnd(w)
        BY Zenon, <3>1, <3>3 DEF WorkerEnd
      <3>4. CASE WorkerSeize(w) \/ WorkerDump(w)
        BY Zenon, <2>1, <2>2, <3>4 DEF WorkerSeize, WorkerDump, CheckpointFails
      <3>5. CASE WorkerRestore(w) \/ sigchld_handler_service(w)
        BY Zenon, <2>2, <3>5 DEF WorkerRestore, sigchld_handler_service
      <3> QED
        BY Zenon, <2>1, <2>3, <3>2, <3>3, <3>4, <3>5
           DEF Worker, WorkerCrash, WorkerWatch, WorkerRespond, WorkerAccept, WorkerReply
    <2>4. CASE CommandThread
      BY Zenon, <2>1, <2>2, <2>4
         DEF CommandThread, CtPop, CtInterrupted, CtFork, CtForkFails, CtSetCheckpointing,
             CtCheckpointAnswered, CtCheckpointLost, CtSetCheckpointed, CtClear, CtClose, CtGetWorker,
             CtConnect, CtConnectFails, CtRestoreAnswered, CtRestoreLost, KillBoth, world
    <2>5. CASE Main \/ MainStop
      BY Zenon, <2>1, <2>2, <2>5
         DEF Main, MainStop, MainAccept, MainAcceptSilent, MainRead, MainReject, MainCanCheckpoint, MainInit,
             MainCanRestore, MainAbort, MainPush, MainPushFull, MainUnqueue, MainJoin, MainCleanup, world
    <2> QED
      BY Zenon, <2>1, <2>3, <2>4, <2>5, OutsideFrame DEF Next
  \* What the command thread knows of workers it has from the table or from the
  \* names of the restore sockets.
  <1>NamesOfCt.
    ASSUME Least, Inv, NamesInv, CommandThread
    PROVE  /\ ct'.pc \in {"connect", "wait_restore"} => ct'.worker \in Workers /\ Of(ct'.worker, ct'.pid)
           /\ ct'.pc = "wait_restore" => ct'.rd \in Workers /\ Of(ct'.rd, ct'.pid)
    <2> USE <1>NamesOfCt
    <2> DEFINE Goal == /\ ct'.pc \in {"connect", "wait_restore"} => ct'.worker \in Workers /\ Of(ct'.worker, ct'.pid)
                       /\ ct'.pc = "wait_restore" => ct'.rd \in Workers /\ Of(ct'.rd, ct'.pid)
    <2>0. ct \in CtState /\ CtLocals /\ table \in [Rows -> Row] /\ rname \in [Pids -> Workers \cup {None}]
      BY Zenon DEF Inv, TypeInv, TypeOK
    <2>1. CASE CtGetWorker
      <3>1. CASE get_pid_worker(table, ct.pid) = PID_INVALID
        BY Zenon, <2>0, <2>1, <3>1 DEF CtGetWorker, CtTo, CtState
      <3>2. CASE get_pid_worker(table, ct.pid) # PID_INVALID
        <4>1. PICK i \in RowsOf(table, ct.pid) : get_pid_worker(table, ct.pid) = table[i].worker
          <5>1. RowsOf(table, ct.pid) \in SUBSET Rows /\ RowsOf(table, ct.pid) # {}
            BY Zenon, <3>2 DEF get_pid_worker, RowsOf
          <5> QED
            BY Zenon, <5>1, MinRow DEF get_pid_worker
        <4>2. i \in Rows /\ table[i].pid = ct.pid /\ table[i].worker \in Workers
          BY Zenon, <2>0, <3>2, <4>1 DEF RowsOf, Row
        <4>3. Of(table[i].worker, ct.pid)
          BY Zenon, <3>2, <4>1, <4>2 DEF NamesInv
        <4>4. ct' = [ct EXCEPT !.pc = "connect", !.worker = table[i].worker]
          BY Zenon, <2>1, <3>2, <4>1 DEF CtGetWorker
        <4> QED
          BY Zenon, <2>0, <4>2, <4>3, <4>4 DEF CtState
      <3> QED
        BY Zenon, <3>1, <3>2
    <2>2. CASE CtConnect
      <3>1. /\ ct' = [ct EXCEPT !.pc = "wait_restore", !.rd = rname[ct.pid]] /\ ct.pc = "connect"
            /\ rname[ct.pid] # None
        BY Zenon, <2>2 DEF CtConnect, Reachable
      <3>2. ct.pid \in Pids /\ ct.worker \in Workers /\ rname[ct.pid] \in Workers
        BY Zenon, <2>0, <3>1 DEF CtLocals
      <3>3. Of(ct.worker, ct.pid) /\ Of(rname[ct.pid], ct.pid)
        BY Zenon, <3>1, <3>2 DEF NamesInv
      <3> QED
        BY Zenon, <2>0, <3>1, <3>2, <3>3 DEF CtState
    <2>3. CASE CtPop
      BY Zenon, <2>3 DEF CtPop, CtIdle
    <2>4. CASE CtClose
      BY Zenon, <2>4 DEF CtClose, CtIdle
    <2>5. CASE CtFork
      BY Zenon, <2>0, <2>5 DEF CtFork, CtState
    <2>6. CASE \E pc \in {"done", "clear", "wait_checkpoint", "close", "set_checkpointed"} :
                 ct' = [ct EXCEPT !.pc = pc]
      BY Zenon, <2>0, <2>6 DEF CtState
    <2> QED
      BY Zenon, <2>5, <2>1, <2>2, <2>3, <2>4, <2>6
         DEF CommandThread, CtInterrupted, CtForkFails, CtSetCheckpointing, CtTo, CtCheckpointAnswered,
             CtCheckpointLost, CtSetCheckpointed, CtClear, CtConnectFails, CtRestoreAnswered, CtRestoreLost
  <1> SUFFICES ASSUME Least, Inv, NamesInv, [Next]_vars
               PROVE  NamesInv'
    BY Zenon
  <1>0. /\ table' \in [Rows -> Row] /\ table \in [Rows -> Row] /\ CtLocals
        /\ rname \in [Pids -> Workers \cup {None}]
    BY Zenon, NextInv DEF Inv, TypeInv, TypeOK
  <1>1. ASSUME NEW p \in Pids, rname'[p] # None PROVE Of(rname[p], p)'
    <2>1. CASE rname'[p] = rname[p]
      BY <1>0, <1>1, <2>1, OfKept DEF NamesInv, Of
    <2>2. CASE \E w \in Workers : rname'[p] = w /\ Of(w, p)
      BY Zenon, <2>2, OfKept DEF Of
    <2> QED
      BY Zenon, <1>1, <2>1, <2>2, <1>NamesOfFiles
  <1>2. ASSUME NEW i \in Rows, table'[i].worker # PID_INVALID PROVE Of(table[i].worker, table[i].pid)'
    <2>1. CASE table'[i].worker = table[i].worker /\ table'[i].pid = table[i].pid
      <3>1. table[i].worker \in Workers /\ Of(table[i].worker, table[i].pid)
        BY Zenon, <1>0, <1>2, <2>1 DEF NamesInv, Row
      <3> QED
        BY Zenon, <2>1, <3>1, OfKept DEF Of
    <2>2. CASE CtSetCheckpointed /\ table'[i].worker = ct.worker /\ table'[i].pid = ct.pid
      <3>1. ct.worker \in Workers /\ Of(ct.worker, ct.pid)
        BY Zenon, <1>0, <2>2 DEF CtSetCheckpointed, CtLocals, Of
      <3> QED
        BY Zenon, <2>2, <3>1, OfKept DEF Of
    <2>3. CtSetCheckpointed => table' = set_pid_checkpointed(table, ct.pid, ct.worker)
      BY Zenon DEF CtSetCheckpointed
    <2> QED
      BY <1>0, <1>2, <2>1, <2>2, <2>3, TableWorkers, CheckpointedWorker DEF NoNewWorker
  <1>3. CASE UNCHANGED ct
    <2>1. ct'.pc \in {"connect", "wait_restore"} => Of(ct.worker, ct.pid)'
      BY <1>0, <1>3, OfKept DEF NamesInv, CtLocals, Of
    <2>2. ct'.pc = "wait_restore" => Of(ct.rd, ct.pid)'
      BY <1>0, <1>3, OfKept DEF NamesInv, CtLocals, Of
    <2> QED
      BY Zenon, <1>1, <1>2, <2>1, <2>2 DEF NamesInv
  <1>4. CASE CommandThread
    <2>1. ct'.pc \in {"connect", "wait_restore"} => Of(ct.worker, ct.pid)'
      BY Zenon, <1>4, <1>NamesOfCt, OfKept DEF Of
    <2>2. ct'.pc = "wait_restore" => Of(ct.rd, ct.pid)'
      BY Zenon, <1>4, <1>NamesOfCt, OfKept DEF Of
    <2> QED
      BY Zenon, <1>1, <1>2, <2>1, <2>2 DEF NamesInv
  <1> QED
    BY Zenon, <1>3, <1>4, WorkerFrame, MainFrame, OutsideFrame DEF Next, WorkerStep

-----------------------------------------------------------------------------
(* The processes a step does not concern. *)

\* The command thread is not waiting for a worker of p.
Quiet(p) ==
  \/ ct.pid # p
  \/ ct.pc \in {"pop", "fork", "close", "get_worker", "connect", "done"}

LEMMA QuietIs ==
  ASSUME Inv, NamesInv, NEW p \in Pids, Quiet(p), NEW w \in Workers, Of(w, p)
  PROVE  /\ ~Checkpointing(w) /\ ~Restoring(w)
         /\ ~(ct.pc = "set_checkpointed" /\ ct.worker = w)
         /\ ~(ct.pid = p /\ ct.pc \in {"wait_restore", "clear"})
  <1>1. CtLocals
    BY Zenon DEF Inv, TypeInv
  <1> QED
    BY Zenon, <1>1 DEF CtLocals, NamesInv, Of, Quiet, Checkpointing, Restoring

\* A step after which p, its workers and its rows are as before, and the command
\* thread stands to them as before.
LEMMA SameView ==
  ASSUME Inv, NamesInv, NEW p \in Pids, PidInv(p),
         targets'[p] = targets[p],
         p \in files => p \in files',
         \A w \in Workers : Of(w, p) \/ Of(w, p)' => SameWorker(w),
         \A i \in Rows : table'[i].pid = p /\ table'[i].worker # PID_INVALID =>
                         table[i].pid = p /\ table[i].worker = table'[i].worker,
         \A w \in Workers : Of(w, p) =>
           /\ Checkpointing(w)' <=> Checkpointing(w)
           /\ Restoring(w)' <=> Restoring(w)
           /\ ct'.pc = "set_checkpointed" /\ ct'.worker = w => ct.pc = "set_checkpointed" /\ ct.worker = w
           /\ ct.pid = p /\ ct.pc \in {"wait_restore", "clear"} =>
                ct'.pid = p /\ ct'.pc \in {"wait_restore", "clear"}
  PROVE  PidInv(p)'
  <1> SUFFICES ASSUME targets[p] \notin {"adrift", "dead"}
               PROVE  HoldInv(p)' /\ BusyInv(p)' /\ RowInv(p)' /\ LostInv(p)' /\ ImageInv(p)'
    BY Zenon DEF PidInv
  <1>1. HoldInv(p) /\ BusyInv(p) /\ RowInv(p) /\ LostInv(p) /\ ImageInv(p)
    BY Zenon DEF PidInv
  <1>2. \A w \in Workers : (Of(w, p)' <=> Of(w, p)) /\ (Of(w, p) => SameWorker(w))
    BY Zenon DEF Of, SameWorker
  <1>4. HoldInv(p)'
    BY Zenon, <1>1, <1>2 DEF HoldInv, SameWorker
  <1>5. BusyInv(p)'
    BY SMTT(30), <1>1, <1>2 DEF BusyInv, SameWorker, Answered
  <1>6. RowInv(p)'
    <2> SUFFICES ASSUME NEW i \in Rows, table'[i].pid = p, table'[i].worker # PID_INVALID
                 PROVE  \/ workers'[table'[i].worker].pc \in {"accept", "restore"}
                        \/ /\ targets'[p] \in {"running", "lost"}
                           /\ ct'.pid = p /\ ct'.pc \in {"wait_restore", "clear"}
      BY Zenon DEF RowInv
    <2>1. table[i].pid = p /\ table[i].worker = table'[i].worker
      BY Zenon
    <2>2. table[i].worker \in Workers /\ Of(table[i].worker, p)
      BY Zenon, <2>1 DEF NamesInv, Inv, TypeInv, TypeOK, Row
    <2> QED
      BY Zenon, <1>1, <1>2, <2>1, <2>2 DEF RowInv, SameWorker
  <1>7. LostInv(p)'
    BY <1>1, <1>2 DEF LostInv, SameWorker
  <1>8. ImageInv(p)'
    BY Zenon, <1>1, <1>2 DEF ImageInv, SameWorker
  <1> QED
    BY Zenon, <1>4, <1>5, <1>6, <1>7, <1>8

LEMMA SamePid ==
  ASSUME Least, Inv, WorldInv, [Next]_vars, NEW p \in Pids,
         targets'[p] = targets[p],
         p \in files => p \in files',
         \A w \in Workers : Of(w, p) \/ Of(w, p)' => SameWorker(w),
         \A i \in Rows : table'[i].pid = p /\ table'[i].worker # PID_INVALID =>
                         table[i].pid = p /\ table[i].worker = table'[i].worker,
         UNCHANGED ct \/ (Quiet(p) /\ (Quiet(p)' \/ ct'.pc = "clear"))
  PROVE  PidInv(p)'
  <1>1. Inv' /\ NamesInv /\ NamesInv' /\ PidInv(p)
    BY Zenon, NextInv, NamesNext DEF WorldInv
  <1>2. ASSUME NEW w \in Workers, Of(w, p)
        PROVE  /\ Checkpointing(w)' <=> Checkpointing(w)
               /\ Restoring(w)' <=> Restoring(w)
               /\ ct'.pc = "set_checkpointed" /\ ct'.worker = w => ct.pc = "set_checkpointed" /\ ct.worker = w
               /\ ct.pid = p /\ ct.pc \in {"wait_restore", "clear"} =>
                    ct'.pid = p /\ ct'.pc \in {"wait_restore", "clear"}
    <2>1. CASE UNCHANGED ct
      BY Zenon, <2>1 DEF Checkpointing, Restoring
    <2>2. CASE Quiet(p) /\ (Quiet(p)' \/ ct'.pc = "clear")
      <3>1. /\ ~Checkpointing(w) /\ ~Restoring(w)
            /\ ~(ct.pid = p /\ ct.pc \in {"wait_restore", "clear"})
        BY Zenon, <1>1, <1>2, <2>2, QuietIs
      <3>2. /\ ~Checkpointing(w)' /\ ~Restoring(w)'
            /\ ~(ct'.pc = "set_checkpointed" /\ ct'.worker = w)
        <4>1. CtLocals' /\ Of(w, p)'
          BY Zenon, <1>1, <1>2, OfKept DEF Inv, TypeInv
        <4> QED
          BY Zenon, <1>1, <2>2, <4>1 DEF CtLocals, NamesInv, Of, Quiet, Checkpointing, Restoring
      <3> QED
        BY Zenon, <3>1, <3>2
    <2> QED
      BY Zenon, <2>1, <2>2
  <1> QED
    BY Zenon, <1>1, <1>2, SameView

\* A step that kills the processes of P or leaves them adrift, and no others.
Stranded(P) ==
  \A p \in Pids : IF p \in P THEN targets'[p] \in {"adrift", "dead"} ELSE targets'[p] = targets[p]

LEMMA NoNewRows ==
  ASSUME NoNewWorker(table, table'), NEW p
  PROVE  \A i \in Rows : table'[i].pid = p /\ table'[i].worker # PID_INVALID =>
                         table[i].pid = p /\ table[i].worker = table'[i].worker
  BY Zenon DEF NoNewWorker

-----------------------------------------------------------------------------
(* A worker restores, crashes or has ended. *)

LEMMA WorkerKeeps ==
  \A w \in Workers : Least /\ Inv /\ WorldInv /\ [Next]_vars /\ (Worker(w) \/ WorkerCrash(w) \/ sigchld_handler_service(w)) =>
    \A q \in Pids : PidInv(q)'
  \* Processes other than that of the worker.
  <1>WorkerOthers.
    ASSUME Least, Inv, WorldInv, [Next]_vars, UNCHANGED ct, NoNewWorker(table, table'),
           NEW w \in Workers, NEW p \in Pids, Of(w, p),
           \A v \in Workers : v # w => Of(v, p) \/ workers'[v] = workers[v],
           \A q \in Pids : q # p => targets'[q] = targets[q] /\ (q \in files => q \in files')
    PROVE  \A q \in Pids : q # p => PidInv(q)'
    <2> USE <1>WorkerOthers
    <2> SUFFICES ASSUME NEW q \in Pids, q # p PROVE PidInv(q)'
      BY Zenon
    <2>1. \A v \in Workers : Of(v, p) => Of(v, p)'
      BY Zenon, OfKept
    <2>2. \A v \in Workers : Of(v, q) \/ Of(v, q)' => SameWorker(v)
      BY Zenon, <2>1 DEF Of, SameWorker
    <2> QED
      BY Zenon, <2>2, SamePid, NoNewRows
  \* Where the worker's state changes and the target's does not, little has to be
  \* shown: what BusyInv says of this worker.
  <1>WorkerMoves.
    ASSUME Least, Inv, WorldInv, [Next]_vars, UNCHANGED <<table, ct, targets>>,
           NEW w \in Workers, NEW p \in Pids, Of(w, p), OnlyWorker(w),
           files \subseteq files',
           targets[p] \notin {"adrift", "dead"} =>
             /\ workers'[w].pc \in Holding => workers[w].pc \in Holding
             /\ workers[w].pc \in {"accept", "restore"} => workers'[w].pc \in {"accept", "restore"}
             /\ workers[w].pc \in Gone => workers'[w].pc \in Gone /\ workers'[w].resp = workers[w].resp
             /\ workers'[w].pc \in {"dumped", "ready", "accept", "restore"} =>
                  workers[w].pc \in {"dumped", "ready", "accept", "restore"} \/ p \in files'
             /\ workers'[w].pc \in Abortable =>
                  Checkpointing(w) /\ workers'[w].resp = None /\ ~workers'[w].conn
             /\ workers'[w].pc = "accept" /\ workers'[w].resp # None => Checkpointing(w)
             /\ workers'[w].pc = "accept" /\ workers'[w].conn => Restoring(w)
             /\ workers'[w].pc \in {"restore", "restored", "unrestored"} =>
                  Restoring(w) /\ workers'[w].resp = None
             /\ Checkpointing(w) /\ workers'[w].resp # None /\ workers'[w].resp = MEMCR_OK =>
                  workers'[w].pc = "accept"
             /\ ct.pc = "set_checkpointed" /\ ct.worker = w => workers'[w].pc = "accept"
    PROVE  \A q \in Pids : PidInv(q)'
    <2> USE <1>WorkerMoves
    <2>1. \A q \in Pids : q # p => PidInv(q)'
      BY Zenon, <1>WorkerOthers DEF OnlyWorker, NoNewWorker
    <2>2. ASSUME targets[p] \notin {"adrift", "dead"}
          PROVE  HoldInv(p)' /\ BusyInv(p)' /\ RowInv(p)' /\ LostInv(p)' /\ ImageInv(p)'
      <3>1. HoldInv(p) /\ BusyInv(p) /\ RowInv(p) /\ LostInv(p) /\ ImageInv(p)
        BY Zenon, <2>2 DEF PidInv, WorldInv
      <3>2. \A v \in Workers : /\ Of(v, p)' <=> Of(v, p)
                               /\ v # w => workers'[v] = workers[v]
                               /\ Checkpointing(v)' <=> Checkpointing(v)
                               /\ Restoring(v)' <=> Restoring(v)
        BY Zenon, OfKept DEF OnlyWorker, Of, Checkpointing, Restoring
      <3>3. HoldInv(p)'
        BY Zenon, <2>2, <3>1, <3>2 DEF HoldInv
      <3>4. BusyInv(p)'
        <4> SUFFICES ASSUME NEW v \in Workers, Of(v, p)
            PROVE  /\ workers'[v].pc \in Abortable => Checkpointing(v) /\ workers'[v].resp = None /\ ~workers'[v].conn
                   /\ workers'[v].pc = "accept" /\ workers'[v].resp # None => Checkpointing(v)
                   /\ workers'[v].pc = "accept" /\ workers'[v].conn => Restoring(v)
                   /\ workers'[v].pc \in {"restore", "restored", "unrestored"} =>
                        Restoring(v) /\ workers'[v].resp = None
                   /\ Checkpointing(v) /\ workers'[v].resp # None /\ workers'[v].resp = MEMCR_OK =>
                        workers'[v].pc = "accept"
                   /\ ct.pc = "set_checkpointed" /\ ct.worker = v => workers'[v].pc = "accept"
          BY Zenon, <3>2 DEF BusyInv, Answered
        <4>1. CASE v = w
          BY Zenon, <2>2, <4>1
        <4>2. CASE v # w
          BY Zenon, <3>1, <3>2, <4>2 DEF BusyInv, Answered
        <4> QED
          BY Zenon, <4>1, <4>2
      <3>5. RowInv(p)'
        BY <2>2, <3>1, <3>2 DEF RowInv, Inv, TypeInv, TypeOK, Row
      <3>6. LostInv(p)'
        BY Zenon, <2>2, <3>1, <3>2 DEF LostInv
      <3>7. ImageInv(p)'
        BY Zenon, <2>2, <3>1, <3>2 DEF ImageInv
      <3> QED
        BY Zenon, <3>3, <3>4, <3>5, <3>6, <3>7
    <2>3. PidInv(p)'
      BY Zenon, <2>2 DEF PidInv
    <2> QED
      BY Zenon, <2>1, <2>3
  <1>WorkerWalks.
    ASSUME Least, Inv, WorldInv, [Next]_vars, NEW w \in Workers,
           \/ WorkerSetup(w) \/ WorkerWatch(w) \/ WorkerRespond(w) \/ WorkerAccept(w)
           \/ WorkerReply(w) \/ WorkerEnd(w)
    PROVE  \A q \in Pids : PidInv(q)'
    <2> USE <1>WorkerWalks
    <2>0. workers[w].pc # "unused"
      BY Zenon DEF WorkerSetup, WorkerWatch, WorkerRespond, WorkerAccept, WorkerReply, WorkerEnd
    <2>1. PICK p \in Pids : Of(w, p) /\ workers[w].pid = p
             /\ (targets[p] \notin {"adrift", "dead"} => HoldInv(p) /\ BusyInv(p) /\ RowInv(p) /\ LostInv(p) /\ ImageInv(p))
      BY Zenon, <2>0, WorkerPid
    <2>2. UNCHANGED <<table, ct, targets, files>>
      BY Zenon
         DEF WorkerSetup, WorkerWatch, WorkerRespond, WorkerAccept, WorkerReply, WorkerEnd, daemon
    <2>3. workers \in [Workers -> WorkerState]
      BY Zenon DEF Inv, TypeInv, TypeOK
    <2>b. targets[p] \notin {"adrift", "dead"} =>
            /\ workers[w].pc \in Abortable => Checkpointing(w) /\ workers[w].resp = None /\ ~workers[w].conn
            /\ workers[w].pc = "accept" /\ workers[w].resp # None => Checkpointing(w)
            /\ workers[w].pc = "accept" /\ workers[w].conn => Restoring(w)
            /\ workers[w].pc \in {"restore", "restored", "unrestored"} => Restoring(w) /\ workers[w].resp = None
            /\ Checkpointing(w) /\ workers[w].resp # None /\ workers[w].resp = MEMCR_OK => workers[w].pc = "accept"
            /\ ct.pc = "set_checkpointed" /\ ct.worker = w => workers[w].pc = "accept"
      BY Zenon, <2>1 DEF BusyInv, Answered
    <2>4. CASE WorkerSetup(w)
      <3>1. /\ OnlyWorker(w) /\ workers[w].pc = "setup" /\ workers'[w].pc \in {"failed", "seize"}
            /\ workers'[w].resp = workers[w].resp /\ workers'[w].conn = workers[w].conn
        BY Zenon, <2>4, OneWorker DEF WorkerSetup
      <3> QED
        BY Zenon, <2>1, <2>2, <2>b, <3>1, <1>WorkerMoves DEF Holding, Abortable, Gone
    <2>5. CASE WorkerWatch(w)
      <3>1. /\ OnlyWorker(w) /\ workers[w].pc = "dumped" /\ workers'[w].pc = "ready"
            /\ workers'[w].resp = workers[w].resp /\ workers'[w].conn = workers[w].conn
        BY Zenon, <2>5, OneWorker DEF WorkerWatch
      <3> QED
        BY Zenon, <2>1, <2>2, <2>b, <3>1, <1>WorkerMoves DEF Holding, Abortable, Gone
    <2>6. CASE WorkerRespond(w)
      <3>1. /\ OnlyWorker(w) /\ workers'[w].conn = workers[w].conn
            /\ \/ workers[w].pc = "ready" /\ workers'[w].pc = "accept"
               \/ /\ workers[w].pc = "failed" /\ workers'[w].pc = "zombie"
                  /\ workers'[w].resp = MEMCR_ERROR_GENERAL
        BY Zenon, <2>3, <2>6 DEF WorkerRespond, OnlyWorker, WorkerState
      <3>2. targets[p] \notin {"adrift", "dead"} => Checkpointing(w) /\ ~workers[w].conn /\ ct.pc # "set_checkpointed"
        BY Zenon, <2>b, <3>1 DEF Abortable, Checkpointing
      <3> QED
        BY Zenon, <2>1, <2>2, <3>1, <3>2, <1>WorkerMoves
           DEF Holding, Abortable, Gone, MEMCR_OK, MEMCR_ERROR_GENERAL
    <2>7. CASE WorkerAccept(w)
      <3>1. /\ OnlyWorker(w) /\ workers[w].pc = "accept" /\ workers[w].conn
            /\ workers'[w].pc = "restore" /\ workers'[w].resp = workers[w].resp
        BY Zenon, <2>3, <2>7 DEF WorkerAccept, OnlyWorker, WorkerState
      <3>2. targets[p] \notin {"adrift", "dead"} => /\ Restoring(w) /\ workers[w].resp = None
                                   /\ ct.pc # "set_checkpointed" /\ ~Checkpointing(w)
        BY Zenon, <2>b, <3>1 DEF Restoring, Checkpointing
      <3> QED
        BY Zenon, <2>1, <2>2, <3>1, <3>2, <1>WorkerMoves DEF Holding, Abortable, Gone
    <2>8. CASE WorkerReply(w)
      <3>1. /\ OnlyWorker(w) /\ workers[w].pc \in {"restored", "unrestored"} /\ workers'[w].pc = "ending"
        BY Zenon, <2>3, <2>8 DEF WorkerReply, OnlyWorker, WorkerState
      <3>2. targets[p] \notin {"adrift", "dead"} => ct.pc # "set_checkpointed" /\ ~Checkpointing(w)
        BY Zenon, <2>b, <3>1 DEF Restoring, Checkpointing
      <3> QED
        BY Zenon, <2>1, <2>2, <3>1, <3>2, <1>WorkerMoves DEF Holding, Abortable, Gone
    <2>9. CASE WorkerEnd(w)
      <3>1. /\ OnlyWorker(w) /\ workers[w].pc = "ending" /\ workers'[w].pc = "zombie"
            /\ workers'[w].resp = workers[w].resp
        BY Zenon, <2>9, OneWorker DEF WorkerEnd
      <3> QED
        BY Zenon, <2>1, <2>2, <2>b, <3>1, <1>WorkerMoves DEF Holding, Abortable, Gone
    <2> QED
      BY Zenon, <2>4, <2>5, <2>6, <2>7, <2>8, <2>9
  \* A worker that gives up kills its target.
  <1>FailKeeps.
    ASSUME Least, Inv, WorldInv, [Next]_vars, UNCHANGED <<table, ct>>, NEW w \in Workers, workers[w].pc # "unused",
           \A v \in Workers : v # w => Of(v, workers[w].pid) \/ workers'[v] = workers[v],
           targets' = Killed({workers[w].pid}), cleanup_pid({workers[w].pid})
    PROVE  \A q \in Pids : PidInv(q)'
    <2> USE <1>FailKeeps
    <2>1. PICK p \in Pids : Of(w, p) /\ workers[w].pid = p
      BY Zenon, WorkerPid
    <2>2. targets'[p] \in {"adrift", "dead"}
      BY Zenon, <2>1 DEF Killed
    <2>3. \A q \in Pids : q # p => targets'[q] = targets[q] /\ (q \in files => q \in files')
      BY Zenon, <2>1 DEF Killed, cleanup_pid
    <2>4. PidInv(p)'
      BY Zenon, <2>2 DEF PidInv
    <2> QED
      BY Zenon, <2>1, <2>3, <2>4, <1>WorkerOthers DEF NoNewWorker
  <1>CheckpointFailsKeeps.
    ASSUME Least, Inv, WorldInv, [Next]_vars, UNCHANGED <<table, ct>>, NEW w \in Workers, workers[w].pc # "unused",
           CheckpointFails(w)
    PROVE  \A q \in Pids : PidInv(q)'
    <2> USE <1>CheckpointFailsKeeps
    <2>1. \A v \in Workers : v # w => Of(v, workers[w].pid) \/ workers'[v] = workers[v]
      BY Zenon DEF CheckpointFails, Bereaved, Watching, Of
    <2> QED
      BY Zenon, <2>1, <1>FailKeeps DEF CheckpointFails
  \* A worker at a process that went adrift.
  <1>AdriftKeeps.
    ASSUME Least, Inv, WorldInv, [Next]_vars, UNCHANGED <<table, ct>>, NEW w \in Workers, workers[w].pc # "unused",
           OnlyWorker(w), NEW state, Becomes(workers[w].pid, state), targets[workers[w].pid] = "adrift",
           files \ {workers[w].pid} \subseteq files'
    PROVE  \A q \in Pids : PidInv(q)'
    <2> USE <1>AdriftKeeps
    <2>1. PICK p \in Pids : Of(w, p) /\ workers[w].pid = p
      BY Zenon, WorkerPid
    <2>2. targets'[p] \in {"adrift", "dead"} /\ \A q \in Pids : q # p => targets'[q] = targets[q]
      BY Zenon, <2>1, BecomesIs
    <2>3. \A q \in Pids : q # p => targets'[q] = targets[q] /\ (q \in files => q \in files')
      BY Zenon, <2>1, <2>2
    <2>4. PidInv(p)'
      BY Zenon, <2>2 DEF PidInv
    <2> QED
      BY Zenon, <2>1, <2>3, <2>4, <1>WorkerOthers DEF NoNewWorker, OnlyWorker
  <1>SeizeKeeps.
    ASSUME Least, Inv, WorldInv, [Next]_vars, NEW w \in Workers, WorkerSeize(w)
    PROVE  \A q \in Pids : PidInv(q)'
    <2> USE <1>SeizeKeeps
    <2>1. workers[w].pc = "seize" /\ UNCHANGED <<table, ct>>
      BY Zenon DEF WorkerSeize, daemon
    <2>2. CASE CheckpointFails(w)
      BY Zenon, <2>1, <2>2, <1>CheckpointFailsKeeps
    <2>4. CASE Becomes(workers[w].pid, "frozen") /\ WorkerTo(w, "dump") /\ UNCHANGED files
               /\ targets[workers[w].pid] = "adrift"
      BY Zenon, <2>1, <2>4, <1>AdriftKeeps, OneWorker
    <2>3. CASE /\ targets[workers[w].pid] = "running"
               /\ Becomes(workers[w].pid, "frozen")
               /\ WorkerTo(w, "dump")
               /\ UNCHANGED <<rname, files>>
      <3>1. PICK p \in Pids : Of(w, p) /\ workers[w].pid = p
              /\ (targets[p] \notin {"adrift", "dead"} => HoldInv(p) /\ BusyInv(p) /\ RowInv(p) /\ LostInv(p) /\ ImageInv(p))
        BY Zenon, <2>1, WorkerPid
      <3>2. /\ targets[p] = "running" /\ targets'[p] = "frozen"
            /\ \A q \in Pids : q # p => targets'[q] = targets[q]
        BY Zenon, <2>3, <3>1, BecomesIs
      <3>3. HoldInv(p) /\ BusyInv(p) /\ RowInv(p) /\ ImageInv(p)
        BY Zenon, <3>1, <3>2
      <3>4. /\ OnlyWorker(w) /\ workers'[w].pc = "dump"
            /\ workers'[w].resp = workers[w].resp /\ workers'[w].conn = workers[w].conn
        BY Zenon, <2>3, OneWorker
      <3>5. \A v \in Workers : Of(v, p) => workers[v].pc \notin Holding
        BY Zenon, <3>2, <3>3 DEF HoldInv
      <3>6. Checkpointing(w) /\ workers[w].resp = None /\ ~workers[w].conn
        BY Zenon, <2>1, <3>1, <3>3 DEF BusyInv, Abortable
      <3>7. \A v \in Workers : /\ Of(v, p)' <=> Of(v, p)
                               /\ v # w => workers'[v] = workers[v]
                               /\ Checkpointing(v)' <=> Checkpointing(v)
                               /\ Restoring(v)' <=> Restoring(v)
        BY Zenon, <2>1, <3>1, <3>4, OfKept DEF OnlyWorker, Of, Checkpointing, Restoring
      <3>8. HoldInv(p)'
        BY Zenon, <3>2, <3>5, <3>7 DEF HoldInv
      <3>9. BusyInv(p)'
        <4>1. ct.pc # "set_checkpointed" /\ Checkpointing(w)'
          BY Zenon, <3>6, <3>7 DEF Checkpointing
        <4> QED
          BY Zenon, <2>1, <3>3, <3>4, <3>6, <3>7, <4>1 DEF BusyInv, Answered, Abortable
      <3>10. RowInv(p)'
        <4> SUFFICES ASSUME NEW i \in Rows, table[i].pid = p, table[i].worker # PID_INVALID PROVE FALSE
          BY Zenon, <2>1 DEF RowInv
        <4>1. table[i].worker \in Workers /\ Of(table[i].worker, p)
          BY Zenon DEF WorldInv, NamesInv, Inv, TypeInv, TypeOK, Row
        <4> QED
          BY Zenon, <3>3, <3>5, <3>6, <4>1 DEF RowInv, Holding, Checkpointing
      <3>11. LostInv(p)' /\ ImageInv(p)'
        BY Zenon, <3>2, <3>4, <3>5, <3>7 DEF LostInv, ImageInv, Holding
      <3>12. \A q \in Pids : q # p => PidInv(q)'
        BY Zenon, <2>1, <2>3, <3>1, <3>2, <3>4, <1>WorkerOthers DEF OnlyWorker, NoNewWorker
      <3> QED
        BY Zenon, <3>8, <3>9, <3>10, <3>11, <3>12 DEF PidInv
    <2> QED
      BY Zenon, <2>2, <2>3, <2>4 DEF WorkerSeize
  <1>DumpKeeps.
    ASSUME Least, Inv, WorldInv, [Next]_vars, NEW w \in Workers, WorkerDump(w)
    PROVE  \A q \in Pids : PidInv(q)'
    <2> USE <1>DumpKeeps
    <2>1. workers[w].pc = "dump" /\ UNCHANGED <<table, ct>>
      BY Zenon DEF WorkerDump, daemon
    <2>2. CASE CheckpointFails(w)
      BY Zenon, <2>1, <2>2, <1>CheckpointFailsKeeps
    <2>3. CASE /\ files' = files \cup {workers[w].pid}
               /\ WorkerTo(w, "dumped")
               /\ UNCHANGED <<targets, rname>>
      <3>1. PICK p \in Pids : Of(w, p) /\ workers[w].pid = p
              /\ (targets[p] \notin {"adrift", "dead"} => HoldInv(p) /\ BusyInv(p) /\ RowInv(p) /\ LostInv(p) /\ ImageInv(p))
        BY Zenon, <2>1, WorkerPid
      <3>2. /\ OnlyWorker(w) /\ workers'[w].pc = "dumped"
            /\ workers'[w].resp = workers[w].resp /\ workers'[w].conn = workers[w].conn
        BY Zenon, <2>3, OneWorker
      <3>3. targets[p] \notin {"adrift", "dead"} =>
              Checkpointing(w) /\ workers[w].resp = None /\ ~workers[w].conn /\ ct.pc # "set_checkpointed"
        BY Zenon, <2>1, <3>1 DEF BusyInv, Abortable, Checkpointing
      <3> QED
        BY Zenon, <2>1, <2>3, <3>1, <3>2, <3>3, <1>WorkerMoves DEF Holding, Abortable, Gone
    <2> QED
      BY Zenon, <2>2, <2>3 DEF WorkerDump
  \* The worker lets its target go: it runs again, or runs on crippled.
  <1>LetGo.
    ASSUME Least, Inv, WorldInv, [Next]_vars, UNCHANGED <<table, ct>>,
           NEW w \in Workers, NEW p \in Pids, Of(w, p), OnlyWorker(w), targets[p] = "frozen",
           targets'[p] \in {"running", "lost"},
           \A q \in Pids : q # p => targets'[q] = targets[q] /\ (q \in files => q \in files'),
           workers'[w].resp = workers[w].resp,
           \/ workers[w].pc = "restore" /\ workers'[w].pc = "restored" /\ targets'[p] = "running"
           \/ workers[w].pc \in {"dump", "restore"} /\ workers'[w].pc = "zombie" /\ targets'[p] = "lost"
    PROVE  \A q \in Pids : PidInv(q)'
    <2> USE <1>LetGo
    <2>1. \A q \in Pids : q # p => PidInv(q)'
      BY Zenon, <1>WorkerOthers DEF OnlyWorker, NoNewWorker
    <2>2. HoldInv(p) /\ BusyInv(p) /\ RowInv(p) /\ NamesInv
      BY Zenon DEF WorldInv, PidInv
    <2>3. \A v \in Workers : /\ Of(v, p)' <=> Of(v, p)
                             /\ v # w => workers'[v] = workers[v]
                             /\ Checkpointing(v)' <=> Checkpointing(v)
                             /\ Restoring(v)' <=> Restoring(v)
      BY Zenon, OfKept DEF OnlyWorker, Of, Checkpointing, Restoring
    <2>4. /\ workers[w].resp = None
          /\ workers[w].pc = "restore" => Restoring(w)
          /\ workers[w].pc = "dump" => Checkpointing(w)
      BY Zenon, <2>2 DEF BusyInv, Abortable
    <2>5. ct.pc # "set_checkpointed"
      BY Zenon, <2>4 DEF Restoring, Checkpointing
    <2>6. \A v \in Workers : Of(v, p) /\ v # w => workers[v].pc \notin Holding
      BY Zenon, <2>2 DEF HoldInv, Holding
    <2>7. HoldInv(p)'
      BY Zenon, <2>3, <2>6 DEF HoldInv, Holding
    <2>8. BusyInv(p)'
      BY SMTT(30), <2>2, <2>3, <2>4, <2>5 DEF BusyInv, Answered, Abortable
    <2>9. RowInv(p)'
      <3> SUFFICES ASSUME NEW i \in Rows, table[i].pid = p, table[i].worker # PID_INVALID
                   PROVE  ct.pid = p /\ ct.pc = "wait_restore"
        BY Zenon DEF RowInv
      <3>1. table[i].worker \in Workers /\ Of(table[i].worker, p)
        BY <2>2 DEF NamesInv, Inv, TypeInv, TypeOK, Row
      <3>2. workers[table[i].worker].pc \in {"accept", "restore"}
        BY Zenon, <2>2 DEF RowInv
      <3>3. table[i].worker = w
        BY Zenon, <2>6, <3>1, <3>2 DEF Holding
      <3>4. Restoring(w)
        BY Zenon, <2>4, <3>2, <3>3
      <3> QED
        BY Zenon, <2>2, <3>4 DEF NamesInv, Restoring, Of
    <2>10. LostInv(p)'
      BY Zenon, <2>3, <2>4 DEF LostInv, Gone
    <2>11. ImageInv(p)'
      BY Zenon DEF ImageInv
    <2> QED
      BY Zenon, <2>1, <2>7, <2>8, <2>9, <2>10, <2>11 DEF PidInv
  <1>RestoreKeeps.
    ASSUME Least, Inv, WorldInv, [Next]_vars, NEW w \in Workers, WorkerRestore(w)
    PROVE  \A q \in Pids : PidInv(q)'
    <2> USE <1>RestoreKeeps
    <2>1. workers[w].pc = "restore" /\ UNCHANGED <<table, ct>> /\ cleanup_pid({workers[w].pid})
      BY Zenon DEF WorkerRestore, daemon
    <2>2. CASE targets' = Killed({workers[w].pid}) /\ WorkerTo(w, "unrestored")
      <3>1. OnlyWorker(w)
        BY Zenon, <2>2, OneWorker
      <3> QED
        BY Zenon, <2>1, <2>2, <3>1, <1>FailKeeps DEF OnlyWorker
    <2>4. CASE Becomes(workers[w].pid, "running") /\ WorkerTo(w, "restored")
               /\ targets[workers[w].pid] = "adrift"
      <3>1. files \ {workers[w].pid} \subseteq files'
        BY Zenon, <2>1 DEF cleanup_pid
      <3> QED
        BY Zenon, <2>1, <2>4, <3>1, <1>AdriftKeeps, OneWorker
    <2>3. CASE /\ targets[workers[w].pid] = "frozen"
               /\ Becomes(workers[w].pid, "running")
               /\ WorkerTo(w, "restored")
      <3>1. PICK p \in Pids : Of(w, p) /\ workers[w].pid = p
        BY Zenon, <2>1, WorkerPid
      <3>2. /\ targets[p] = "frozen" /\ targets'[p] = "running"
            /\ \A q \in Pids : q # p => targets'[q] = targets[q]
        BY Zenon, <2>3, <3>1, BecomesIs
      <3>3. \A q \in Pids : q # p /\ q \in files => q \in files'
        BY Zenon, <2>1, <3>1 DEF cleanup_pid
      <3>4. OnlyWorker(w) /\ workers'[w].pc = "restored" /\ workers'[w].resp = workers[w].resp
        BY Zenon, <2>3, OneWorker
      <3> QED
        BY Zenon, <2>1, <3>1, <3>2, <3>3, <3>4, <1>LetGo
    <2> QED
      BY Zenon, <2>2, <2>3, <2>4 DEF WorkerRestore, Restorable
  <1>CrashKeeps.
    ASSUME Least, Inv, WorldInv, [Next]_vars, NEW w \in Workers, WorkerCrash(w)
    PROVE  \A q \in Pids : PidInv(q)'
    <2> USE <1>CrashKeeps
    <2>1. workers[w].pc \in {"dump", "restore"} /\ UNCHANGED <<table, ct, files>>
      BY Zenon DEF WorkerCrash, daemon
    <2>2. PICK p \in Pids : Of(w, p) /\ workers[w].pid = p
            /\ (targets[p] \notin {"adrift", "dead"} => HoldInv(p) /\ BusyInv(p) /\ RowInv(p) /\ LostInv(p) /\ ImageInv(p))
      BY Zenon, <2>1, WorkerPid
    <2>3. OnlyWorker(w) /\ workers'[w].pc = "zombie" /\ workers'[w].resp = workers[w].resp
      BY Zenon, OneWorker DEF WorkerCrash
    <2>4. CASE targets[p] = "frozen"
      <3>1. /\ targets'[p] = "lost"
            /\ \A q \in Pids : q # p => targets'[q] = targets[q]
        BY Zenon, <2>2, <2>4 DEF WorkerCrash, Inv, TypeInv, TypeOK
      <3> QED
        BY Zenon, <2>1, <2>2, <2>3, <2>4, <3>1, <1>LetGo
    <2>5. CASE targets[p] # "frozen"
      <3>1. targets[p] \in {"adrift", "dead"}
        BY Zenon, <2>1, <2>2, <2>5 DEF HoldInv, Holding
      <3>2. UNCHANGED targets
        BY Zenon, <2>2, <2>5 DEF WorkerCrash
      <3>3. \A q \in Pids : q # p => PidInv(q)'
        BY Zenon, <2>1, <2>2, <2>3, <3>2, <1>WorkerOthers DEF OnlyWorker, NoNewWorker
      <3>4. PidInv(p)'
        <4>1. targets'[p] \in {"adrift", "dead"}
          BY Zenon, <3>1, <3>2
        <4> QED
          BY Zenon, <4>1 DEF PidInv
      <3> QED
        BY Zenon, <3>3, <3>4
    <2> QED
      BY Zenon, <2>4, <2>5
  \* The SIGCHLD handler removes the dump of a process only when the process does
  \* not need it any more: its row names a worker that has ended.
  <1>SigchldKeeps.
    ASSUME Least, Inv, WorldInv, [Next]_vars, NEW w \in Workers, sigchld_handler_service(w)
    PROVE  \A q \in Pids : PidInv(q)'
    <2> USE <1>SigchldKeeps
    <2>1. /\ workers[w].pc = "zombie" /\ UNCHANGED <<ct, targets>>
          /\ table' = [i \in Rows |-> IF table[i].worker = w THEN Cleared(table[i]) ELSE table[i]]
          /\ files' = files \ {table[i].pid : i \in {j \in Rows : table[j].worker = w}}
      BY Zenon DEF sigchld_handler_service, clear_pid_on_worker_exit_non_blocking, cleanup_pid
    <2>2. PICK p \in Pids : Of(w, p) /\ workers[w].pid = p
            /\ (targets[p] \notin {"adrift", "dead"} => HoldInv(p) /\ BusyInv(p) /\ RowInv(p) /\ LostInv(p) /\ ImageInv(p))
      BY Zenon, <2>1, WorkerPid
    <2>3. /\ OnlyWorker(w) /\ workers'[w].pc = "reaped" /\ workers'[w].resp = workers[w].resp
      BY Zenon, OneWorker DEF sigchld_handler_service
    <2>4. \A i \in Rows : table[i].worker = w => table[i].pid = p
      BY Zenon, <2>2, InvalidAssumption DEF WorldInv, NamesInv, Of
    <2>5. NoNewWorker(table, table') /\ \A i \in Rows : table[i].worker = w => table'[i].worker = PID_INVALID
      <3>1. table' = [i \in Rows |-> IF i \in {j \in Rows : table[j].worker = w} THEN Cleared(table[i]) ELSE table[i]]
        BY Zenon, <2>1
      <3>2. table \in [Rows -> Row]
        BY Zenon DEF Inv, TypeInv, TypeOK
      <3> QED
        BY Zenon, <3>1, <3>2, ClearNoWorker
    <2>6. \A q \in Pids : q # p => PidInv(q)'
      BY <2>5, <2>1, <2>2, <2>3, <2>4, <1>WorkerOthers DEF OnlyWorker
    <2>7. ASSUME targets[p] \notin {"adrift", "dead"}
          PROVE  HoldInv(p)' /\ BusyInv(p)' /\ RowInv(p)' /\ LostInv(p)' /\ ImageInv(p)'
      <3>1. HoldInv(p) /\ BusyInv(p) /\ RowInv(p) /\ LostInv(p) /\ ImageInv(p) /\ NamesInv
        BY Zenon, <2>2, <2>7 DEF WorldInv
      <3>2. \A v \in Workers : /\ Of(v, p)' <=> Of(v, p)
                               /\ v # w => workers'[v] = workers[v]
                               /\ Checkpointing(v)' <=> Checkpointing(v)
                               /\ Restoring(v)' <=> Restoring(v)
        BY Zenon, <2>1, <2>2, <2>3, OfKept DEF OnlyWorker, Of, Checkpointing, Restoring
      <3>3. HoldInv(p)'
        BY Zenon, <2>1, <2>3, <3>1, <3>2 DEF HoldInv, Holding
      <3>4. BusyInv(p)'
        BY SMTT(30), <2>1, <2>2, <2>3, <3>1, <3>2 DEF BusyInv, Answered, Abortable
      <3>5. RowInv(p)'
        <4> SUFFICES ASSUME NEW i \in Rows, table'[i].pid = p, table'[i].worker # PID_INVALID
                     PROVE  \/ workers'[table'[i].worker].pc \in {"accept", "restore"}
                            \/ /\ targets'[p] \in {"running", "lost"}
                               /\ ct'.pid = p /\ ct'.pc \in {"wait_restore", "clear"}
          BY Zenon DEF RowInv
        <4>1. table[i].pid = p /\ table[i].worker = table'[i].worker /\ table[i].worker # w
          BY Zenon, <2>5 DEF NoNewWorker
        <4>2. table[i].worker \in Workers
          BY Zenon, <4>1 DEF Inv, TypeInv, TypeOK, Row
        <4>3. workers'[table'[i].worker] = workers[table[i].worker]
          BY Zenon, <3>2, <4>1, <4>2
        <4> QED
          BY Zenon, <2>1, <3>1, <4>1, <4>3 DEF RowInv
      <3>6. LostInv(p)'
        BY Zenon, <2>1, <2>3, <3>1, <3>2 DEF LostInv, Gone
      <3>7. ImageInv(p)'
        <4>1. CASE targets[p] = "frozen"
          <5>1. \A i \in Rows : table[i].worker # w
            BY Zenon, <2>1, <2>4, <3>1, <4>1, InvalidAssumption DEF RowInv
          <5> QED
            BY Zenon, <2>1, <2>3, <3>1, <3>2, <5>1 DEF ImageInv
        <4> QED
          BY Zenon, <2>1, <4>1 DEF ImageInv
      <3> QED
        BY Zenon, <3>3, <3>4, <3>5, <3>6, <3>7
    <2> QED
      BY Zenon, <2>1, <2>2, <2>6, <2>7 DEF PidInv
  <1> SUFFICES ASSUME Least, Inv, WorldInv, [Next]_vars, NEW w \in Workers,
                      Worker(w) \/ WorkerCrash(w) \/ sigchld_handler_service(w)
               PROVE  \A q \in Pids : PidInv(q)'
    BY Zenon
  <1> QED
    BY Zenon, <1>WorkerWalks, <1>SeizeKeeps, <1>DumpKeeps, <1>RestoreKeeps, <1>CrashKeeps,
       <1>SigchldKeeps DEF Worker

-----------------------------------------------------------------------------
(* The steps of the command thread. *)

LEMMA CtKeeps ==
  Least /\ Inv /\ WorldInv /\ [Next]_vars /\ CommandThread => \A q \in Pids : PidInv(q)'
  \* Processes other than the one it serves.
  <1>CtOthers.
    ASSUME Least, Inv, WorldInv, [Next]_vars, NEW p \in Pids, ct.pid = p, ct'.pid = p,
           \A q \in Pids : q # p => targets'[q] = targets[q] /\ (q \in files => q \in files'),
           \A v \in Workers : SameWorker(v) \/ Of(v, p)',
           \A i \in Rows : table'[i].worker # PID_INVALID =>
             \/ table'[i].worker = table[i].worker /\ table'[i].pid = table[i].pid
             \/ table'[i].pid = p
    PROVE  \A q \in Pids : q # p => PidInv(q)'
    <2> USE <1>CtOthers
    <2> SUFFICES ASSUME NEW q \in Pids, q # p PROVE PidInv(q)'
      BY Zenon
    <2>1. \A v \in Workers : Of(v, q) => Of(v, q)'
      BY Zenon, OfKept
    <2>2. \A v \in Workers : Of(v, q) \/ Of(v, q)' => SameWorker(v)
      BY Zenon, <2>1 DEF Of
    <2>3. \A i \in Rows : table'[i].pid = q /\ table'[i].worker # PID_INVALID =>
                          table[i].pid = q /\ table[i].worker = table'[i].worker
      BY Zenon
    <2>4. Quiet(q) /\ Quiet(q)'
      BY Zenon DEF Quiet
    <2> QED
      BY Zenon, <2>2, <2>3, <2>4, SamePid
  \* The command thread is in a system call nobody waits for.
  <1>IdleKeeps.
    ASSUME Least, Inv, WorldInv, [Next]_vars,
           CtPop \/ CtInterrupted \/ CtForkFails \/ CtClose \/ CtGetWorker
    PROVE  \A q \in Pids : PidInv(q)'
    <2> USE <1>IdleKeeps
    <2> TAKE q \in Pids
    <2>1. UNCHANGED <<world, table>>
      BY Zenon DEF CtPop, CtInterrupted, CtForkFails, CtClose, CtGetWorker
    <2>2. ct \in CtState
      BY Zenon DEF Inv, TypeInv, TypeOK
    <2>3. Quiet(q)
      BY Zenon DEF CtPop, CtInterrupted, CtForkFails, CtClose, CtGetWorker, Quiet
    <2>4. ct'.pc \in {"fork", "get_worker", "pop", "clear", "done", "close", "connect"}
      <3>1. CASE CtPop
        BY Zenon, <3>1 DEF CtPop, CtIdle
      <3>2. CASE CtInterrupted \/ CtForkFails \/ CtClose
        BY <2>2, <3>2 DEF CtInterrupted, CtForkFails, CtClose, CtTo, CtIdle, CtState
      <3>3. CASE CtGetWorker
        BY Zenon, <2>2, <3>3 DEF CtGetWorker, CtTo, CtState
      <3> QED
        BY Zenon, <3>1, <3>2, <3>3
    <2>5. Quiet(q)' \/ ct'.pc = "clear"
      BY Zenon, <2>4 DEF Quiet
    <2>6. NoNewWorker(table, table')
      BY Zenon, <2>1 DEF NoNewWorker
    <2>7. \A v \in Workers : SameWorker(v)
      BY Zenon, <2>1 DEF world, SameWorker
    <2> QED
      BY Zenon, <2>1, <2>3, <2>5, <2>6, <2>7, SamePid, NoNewRows DEF world
  <1>ForkKeeps.
    ASSUME Least, Inv, WorldInv, [Next]_vars, CtFork
    PROVE  \A q \in Pids : PidInv(q)'
    <2> USE <1>ForkKeeps
    <2>1. PICK w \in Workers :
            /\ workers[w].pc = "unused"
            /\ workers' = [workers EXCEPT ![w] = [NoWorker EXCEPT !.pc = "setup", !.pid = ct.pid]]
            /\ ct' = [ct EXCEPT !.pc = "set_checkpointing", !.worker = w]
      BY Zenon DEF CtFork
    <2>2. PICK p \in Pids : ct.pid = p /\ ct.pc = "fork"
      BY Zenon DEF CtFork, Inv, TypeInv, CtLocals
    <2>3. /\ ct'.pc = "set_checkpointing" /\ ct'.worker = w /\ ct'.pid = p
          /\ UNCHANGED <<table, targets, files>>
      BY Zenon, <2>1, <2>2 DEF CtFork, Inv, TypeInv, TypeOK, CtState
    <2>4. /\ OnlyWorker(w) /\ workers'[w].pc = "setup" /\ workers'[w].pid = p
          /\ workers'[w].resp = None /\ workers'[w].conn = FALSE
      BY Zenon, <2>1, <2>2 DEF OnlyWorker, NoWorker, Inv, TypeInv, TypeOK
    <2>5. \A q \in Pids : q # p => PidInv(q)'
      <3>1. \A v \in Workers : SameWorker(v) \/ Of(v, p)'
        BY Zenon, <2>4 DEF SameWorker, OnlyWorker, Of
      <3> QED
        BY Zenon, <2>2, <2>3, <3>1, <1>CtOthers
    <2>6. ASSUME targets[p] \notin {"adrift", "dead"}
          PROVE  HoldInv(p)' /\ BusyInv(p)' /\ RowInv(p)' /\ LostInv(p)' /\ ImageInv(p)'
      <3>1. HoldInv(p) /\ BusyInv(p) /\ RowInv(p) /\ LostInv(p) /\ ImageInv(p) /\ NamesInv
        BY Zenon, <2>6 DEF WorldInv, PidInv
      <3>2. \A v \in Workers : v # w => workers'[v] = workers[v] /\ (Of(v, p)' <=> Of(v, p))
        BY <2>4 DEF OnlyWorker, Of
      <3>3. \A v \in Workers : ~Checkpointing(v) /\ ~Restoring(v) /\ ~Restoring(v)'
        BY Zenon, <2>2, <2>3 DEF Checkpointing, Restoring
      <3>4. \A v \in Workers : Checkpointing(v)' <=> v = w
        BY Zenon, <2>3 DEF Checkpointing
      <3>5. HoldInv(p)'
        BY Zenon, <2>3, <2>4, <3>1, <3>2 DEF HoldInv, Holding
      <3>6. BusyInv(p)'
        BY SMTT(30), <2>3, <2>4, <3>1, <3>2, <3>3, <3>4 DEF BusyInv, Answered
      <3>7. RowInv(p)'
        <4> SUFFICES ASSUME NEW i \in Rows, table[i].pid = p, table[i].worker # PID_INVALID
                     PROVE  workers'[table[i].worker].pc \in {"accept", "restore"}
          BY Zenon, <2>3 DEF RowInv
        <4>1. table[i].worker \in Workers
          BY Zenon DEF Inv, TypeInv, TypeOK, Row
        <4>2. workers[table[i].worker].pc \in {"accept", "restore"}
          BY Zenon, <2>2, <3>1 DEF RowInv
        <4> QED
          BY Zenon, <2>1, <3>2, <4>1, <4>2
      <3>8. LostInv(p)'
        BY Zenon, <2>3, <3>1, <3>3 DEF LostInv
      <3>9. ImageInv(p)'
        BY Zenon, <2>3, <2>4, <3>1, <3>2 DEF ImageInv
      <3> QED
        BY Zenon, <3>5, <3>6, <3>7, <3>8, <3>9
    <2> QED
      BY Zenon, <2>3, <2>5, <2>6 DEF PidInv
  <1>SetCheckpointingKeeps.
    ASSUME Inv, WorldInv, [Next]_vars, CtSetCheckpointing
    PROVE  \A q \in Pids : PidInv(q)'
    <2> USE <1>SetCheckpointingKeeps
    <2>1. /\ ct.pc = "set_checkpointing" /\ ct'.pc = "wait_checkpoint" /\ ct'.pid = ct.pid
          /\ ct'.worker = ct.worker /\ UNCHANGED <<targets, files>>
      BY Zenon DEF CtSetCheckpointing, CtTo, Inv, TypeInv, TypeOK, CtState
    <2>2. NoNewWorker(table, table')
      BY Zenon, CheckpointingNoWorker DEF CtSetCheckpointing, Inv, TypeInv, TypeOK
    <2>3. \A v \in Workers : SameWorker(v)
      <3>1. CASE workers' = AbortSent(workers, ct.worker)
        BY Zenon, <3>1, AbortSentSame
      <3>2. CASE workers' = workers
        BY Zenon, <3>2 DEF SameWorker
      <3> QED
        BY Zenon, <3>1, <3>2 DEF CtSetCheckpointing
    <2> TAKE q \in Pids
    <2>4. \A v \in Workers :
            /\ Checkpointing(v)' <=> Checkpointing(v)
            /\ Restoring(v)' <=> Restoring(v)
            /\ ct'.pc # "set_checkpointed" /\ ct.pc \notin {"wait_restore", "clear"}
      BY Zenon, <2>1 DEF Checkpointing, Restoring
    <2>5. PidInv(q) /\ NamesInv
      BY Zenon DEF WorldInv
    <2> QED
      BY Zenon, <2>5, <2>1, <2>2, <2>3, <2>4, SameView, NoNewRows
  \* What is left to show when no worker moves and the target is not lost.
  <1>CtMoves.
    ASSUME Inv, NamesInv, UNCHANGED <<targets, files>>, NEW p \in Pids, PidInv(p),
           \A v \in Workers : workers'[v].pc = workers[v].pc /\ workers'[v].pid = workers[v].pid,
           BusyInv(p) /\ LostInv(p) => targets[p] # "lost" /\ BusyInv(p)',
           BusyInv(p) /\ RowInv(p) => \A i \in Rows : table'[i].pid = p /\ table'[i].worker # PID_INVALID =>
             /\ table'[i].worker \in Workers
             /\ \/ workers[table'[i].worker].pc \in {"accept", "restore"}
                \/ /\ targets[p] \in {"running", "lost"}
                   /\ ct'.pid = p /\ ct'.pc \in {"wait_restore", "clear"}
    PROVE  PidInv(p)'
    <2> USE <1>CtMoves
    <2> SUFFICES ASSUME targets[p] \notin {"adrift", "dead"}
                 PROVE  HoldInv(p)' /\ BusyInv(p)' /\ RowInv(p)' /\ LostInv(p)' /\ ImageInv(p)'
      BY Zenon DEF PidInv
    <2>1. HoldInv(p) /\ BusyInv(p) /\ RowInv(p) /\ LostInv(p) /\ ImageInv(p)
      BY Zenon DEF PidInv
    <2>2. \A v \in Workers : Of(v, p)' <=> Of(v, p)
      BY Zenon DEF Of
    <2>3. HoldInv(p)'
      BY Zenon, <2>1, <2>2 DEF HoldInv
    <2>4. RowInv(p)'
      BY Zenon, <2>1 DEF RowInv
    <2>5. BusyInv(p)' /\ LostInv(p)'
      BY Zenon, <2>1 DEF LostInv
    <2>6. ImageInv(p)'
      BY Zenon, <2>1, <2>2 DEF ImageInv
    <2> QED
      BY Zenon, <2>3, <2>4, <2>5, <2>6
  <1>CheckpointAnsweredKeeps.
    ASSUME Least, Inv, WorldInv, [Next]_vars, CtCheckpointAnswered
    PROVE  \A q \in Pids : PidInv(q)'
    <2> USE <1>CheckpointAnsweredKeeps
    <2>1. PICK p \in Pids : ct.pid = p
      BY Zenon DEF CtCheckpointAnswered, Inv, TypeInv, CtLocals
    <2>2. PICK w \in Workers : ct.worker = w /\ Of(w, p) /\ workers[w].resp # None
      BY Zenon, <2>1 DEF CtCheckpointAnswered, Inv, TypeInv, CtLocals, Of, Answered
    <2>3. /\ ct.pc = "wait_checkpoint" /\ ct'.pc \in {"set_checkpointed", "clear"}
          /\ ct'.pc = "set_checkpointed" => workers[w].resp = MEMCR_OK
          /\ ct'.pid = p /\ ct'.worker = w /\ UNCHANGED <<table, targets, files>>
      BY Zenon, <2>1, <2>2 DEF CtCheckpointAnswered, Inv, TypeInv, TypeOK, CtState
    <2>4. /\ workers'[w].resp = None
          /\ \A v \in Workers : /\ workers'[v].pc = workers[v].pc /\ workers'[v].pid = workers[v].pid
                                /\ workers'[v].conn = workers[v].conn
                                /\ v # w => workers'[v] = workers[v]
      BY Zenon, <2>2, TakeResponse DEF CtCheckpointAnswered
    <2>5. \A q \in Pids : q # p => PidInv(q)'
      <3>1. \A v \in Workers : SameWorker(v) \/ Of(v, p)'
        BY Zenon, <2>2, <2>4 DEF SameWorker, Of
      <3> QED
        BY Zenon, <2>1, <2>3, <3>1, <1>CtOthers
    <2>6. \A v \in Workers : /\ Checkpointing(v) <=> v = w
                             /\ ~Restoring(v) /\ ~Checkpointing(v)' /\ ~Restoring(v)'
                             /\ Of(v, p)' <=> Of(v, p)
      BY Zenon, <2>2, <2>3, <2>4 DEF Checkpointing, Restoring, Of
    <2>7. ASSUME BusyInv(p), LostInv(p) PROVE targets[p] # "lost" /\ BusyInv(p)'
      <3>1. targets[p] # "lost"
        BY Zenon, <2>2, <2>6, <2>7 DEF LostInv
      <3>2. BusyInv(p)'
        BY SMTT(30), <2>2, <2>3, <2>4, <2>6, <2>7 DEF BusyInv, Answered
      <3> QED
        BY Zenon, <3>1, <3>2
    <2>8. PidInv(p)'
      BY <2>3, <2>4, <2>7, <1>CtMoves, RowWorker DEF WorldInv, RowInv
    <2> QED
      BY Zenon, <2>5, <2>8
  <1>SetCheckpointedKeeps.
    ASSUME Least, Inv, WorldInv, [Next]_vars, CtSetCheckpointed
    PROVE  \A q \in Pids : PidInv(q)'
    <2> USE <1>SetCheckpointedKeeps
    <2>1. PICK p \in Pids : ct.pid = p
      BY Zenon DEF CtSetCheckpointed, Inv, TypeInv, CtLocals
    <2>2. PICK w \in Workers : ct.worker = w /\ Of(w, p)
      BY Zenon, <2>1 DEF CtSetCheckpointed, Inv, TypeInv, CtLocals, Of
    <2>3. /\ ct.pc = "set_checkpointed" /\ ct'.pc = "close" /\ ct'.pid = p
          /\ UNCHANGED <<workers, targets, files>>
      BY Zenon, <2>1 DEF CtSetCheckpointed, CtTo, world, Inv, TypeInv, TypeOK, CtState
    <2>4. \A i \in Rows : \/ table'[i].worker = table[i].worker /\ table'[i].pid = table[i].pid
                          \/ table'[i].worker = w /\ table'[i].pid = p
      BY <2>1, <2>2, CheckpointedWorker DEF CtSetCheckpointed, Inv, TypeInv, TypeOK
    <2>5. \A q \in Pids : q # p => PidInv(q)'
      BY Zenon, <2>1, <2>3, <2>4, <1>CtOthers DEF SameWorker
    <2>6. \A v \in Workers : /\ ~Checkpointing(v) /\ ~Restoring(v)
                             /\ ~Checkpointing(v)' /\ ~Restoring(v)'
                             /\ Of(v, p)' <=> Of(v, p)
      BY Zenon, <2>3 DEF Checkpointing, Restoring, Of
    <2>7. ASSUME BusyInv(p), LostInv(p) PROVE targets[p] # "lost" /\ BusyInv(p)'
      BY Zenon, <2>3, <2>6, <2>7 DEF BusyInv, LostInv, Answered
    <2>8. ASSUME BusyInv(p), RowInv(p), NEW i \in Rows, table'[i].pid = p, table'[i].worker # PID_INVALID
          PROVE  table'[i].worker \in Workers /\ workers[table'[i].worker].pc \in {"accept", "restore"}
      <3>1. CASE table'[i].worker = table[i].worker /\ table'[i].pid = table[i].pid
        BY Zenon, <2>3, <2>8, <3>1, RowWorker DEF RowInv
      <3>2. CASE table'[i].worker = w
        BY Zenon, <2>2, <2>3, <2>8, <3>2 DEF BusyInv
      <3> QED
        BY Zenon, <2>4, <3>1, <3>2
    <2>9. PidInv(p)'
      BY Zenon, <2>3, <2>7, <2>8, <1>CtMoves DEF WorldInv
    <2> QED
      BY Zenon, <2>5, <2>9
  <1>ClearKeeps.
    ASSUME Least, Inv, WorldInv, [Next]_vars, CtClear
    PROVE  \A q \in Pids : PidInv(q)'
    <2> USE <1>ClearKeeps
    <2>1. PICK p \in Pids : ct.pid = p
      BY Zenon DEF CtClear, Inv, TypeInv, CtLocals
    <2>2. /\ ct.pc = "clear" /\ ct'.pc = "close" /\ ct'.pid = p
          /\ UNCHANGED <<workers, targets, files>>
      BY Zenon, <2>1 DEF CtClear, CtTo, world, Inv, TypeInv, TypeOK, CtState
    <2>3. \A i \in Rows : /\ table[i].pid = p => table'[i].worker = PID_INVALID
                          /\ table[i].pid # p => table'[i] = table[i]
      BY Zenon, <2>1 DEF CtClear, clear_pid_checkpoint_data, Cleared, Inv, TypeInv, TypeOK, Row
    <2>4. \A q \in Pids : q # p => PidInv(q)'
      BY Zenon, <2>1, <2>2, <2>3, <1>CtOthers DEF SameWorker
    <2>5. \A v \in Workers : /\ ~Checkpointing(v) /\ ~Restoring(v)
                             /\ ~Checkpointing(v)' /\ ~Restoring(v)'
                             /\ Of(v, p)' <=> Of(v, p)
      BY Zenon, <2>2 DEF Checkpointing, Restoring, Of
    <2>6. ASSUME BusyInv(p), LostInv(p) PROVE targets[p] # "lost" /\ BusyInv(p)'
      BY Zenon, <2>2, <2>5, <2>6 DEF BusyInv, LostInv, Answered
    <2>7. \A i \in Rows : ~(table'[i].pid = p /\ table'[i].worker # PID_INVALID)
      BY Zenon, <2>3
    <2>8. PidInv(p)'
      BY Zenon, <2>2, <2>6, <2>7, <1>CtMoves DEF WorldInv
    <2> QED
      BY Zenon, <2>4, <2>8
  <1>ConnectKeeps.
    ASSUME Least, Inv, WorldInv, [Next]_vars, CtConnect
    PROVE  \A q \in Pids : PidInv(q)'
    <2> USE <1>ConnectKeeps
    <2>1. PICK p \in Pids : ct.pid = p
      BY Zenon DEF CtConnect, Inv, TypeInv, CtLocals
    <2>2. PICK w \in Workers : rname[p] = w /\ Of(w, p)
      BY Zenon, <2>1 DEF CtConnect, Reachable, WorldInv, NamesInv, Inv, TypeInv, TypeOK
    <2>3. /\ ct.pc = "connect" /\ ct'.pc = "wait_restore" /\ ct'.pid = p /\ ct'.rd = w
          /\ UNCHANGED <<table, targets, files>>
      BY Zenon, <2>1, <2>2 DEF CtConnect, Inv, TypeInv, TypeOK, CtState
    <2>4. /\ \A v \in Workers : /\ workers'[v].pc = workers[v].pc /\ workers'[v].pid = workers[v].pid
                                /\ workers'[v].resp = workers[v].resp
                                /\ v # w => workers'[v] = workers[v]
      BY <2>1, <2>2 DEF CtConnect, Inv, TypeInv, TypeOK, WorkerState
    <2>5. \A q \in Pids : q # p => PidInv(q)'
      <3>1. \A v \in Workers : SameWorker(v) \/ Of(v, p)'
        BY Zenon, <2>2, <2>4 DEF SameWorker, Of
      <3> QED
        BY Zenon, <2>1, <2>3, <3>1, <1>CtOthers
    <2>6. \A v \in Workers : /\ ~Checkpointing(v) /\ ~Restoring(v)
                             /\ ~Checkpointing(v)' /\ (Restoring(v)' <=> v = w)
                             /\ Of(v, p)' <=> Of(v, p)
      BY Zenon, <2>2, <2>3, <2>4 DEF Checkpointing, Restoring, Of
    <2>7. ASSUME BusyInv(p), LostInv(p) PROVE targets[p] # "lost" /\ BusyInv(p)'
      <3>1. targets[p] # "lost"
        BY Zenon, <2>6, <2>7 DEF LostInv
      <3>2. BusyInv(p)'
        BY SMTT(30), <2>3, <2>4, <2>6, <2>7 DEF BusyInv, Answered
      <3> QED
        BY Zenon, <3>1, <3>2
    <2>8. PidInv(p)'
      BY Zenon, <2>3, <2>4, <2>7, <1>CtMoves, RowWorker DEF WorldInv, RowInv
    <2> QED
      BY Zenon, <2>5, <2>8
  <1>RestoreAnsweredKeeps.
    ASSUME Least, Inv, WorldInv, [Next]_vars, CtRestoreAnswered
    PROVE  \A q \in Pids : PidInv(q)'
    <2> USE <1>RestoreAnsweredKeeps
    <2>1. PICK p \in Pids : ct.pid = p
      BY Zenon DEF CtRestoreAnswered, Inv, TypeInv, CtLocals
    <2>2. PICK w \in Workers : ct.rd = w /\ Of(w, p) /\ workers[w].resp # None
      BY Zenon, <2>1 DEF CtRestoreAnswered, Inv, TypeInv, CtLocals, WorldInv, NamesInv, Answered
    <2>3. /\ ct.pc = "wait_restore" /\ ct'.pc = "clear" /\ ct'.pid = p
          /\ UNCHANGED <<table, targets, files>>
      BY Zenon, <2>1 DEF CtRestoreAnswered, CtTo, Inv, TypeInv, TypeOK, CtState
    <2>4. /\ workers'[w].resp = None
          /\ \A v \in Workers : /\ workers'[v].pc = workers[v].pc /\ workers'[v].pid = workers[v].pid
                                /\ workers'[v].conn = workers[v].conn
                                /\ v # w => workers'[v] = workers[v]
      BY Zenon, <2>2, TakeResponse DEF CtRestoreAnswered
    <2>5. \A q \in Pids : q # p => PidInv(q)'
      <3>1. \A v \in Workers : SameWorker(v) \/ Of(v, p)'
        BY Zenon, <2>2, <2>4 DEF SameWorker, Of
      <3> QED
        BY Zenon, <2>1, <2>3, <3>1, <1>CtOthers
    <2>6. \A v \in Workers : /\ ~Checkpointing(v) /\ (Restoring(v) <=> v = w)
                             /\ ~Checkpointing(v)' /\ ~Restoring(v)'
                             /\ Of(v, p)' <=> Of(v, p)
      BY Zenon, <2>2, <2>3, <2>4 DEF Checkpointing, Restoring, Of
    <2>7. ASSUME BusyInv(p), LostInv(p) PROVE targets[p] # "lost" /\ BusyInv(p)'
      <3>1. targets[p] # "lost"
        BY Zenon, <2>2, <2>6, <2>7 DEF LostInv
      <3>2. BusyInv(p)'
        BY SMTT(30), <2>2, <2>3, <2>4, <2>6, <2>7 DEF BusyInv, Answered
      <3> QED
        BY Zenon, <3>1, <3>2
    <2>8. PidInv(p)'
      BY Zenon, <2>3, <2>4, <2>7, <1>CtMoves, RowWorker DEF WorldInv, RowInv
    <2> QED
      BY Zenon, <2>5, <2>8
  \* "unable to read response from worker, kill both"
  <1>KillBothKeeps.
    ASSUME Least, Inv, WorldInv, [Next]_vars, CtCheckpointLost \/ CtConnectFails \/ CtRestoreLost
    PROVE  \A q \in Pids : PidInv(q)'
    <2> USE <1>KillBothKeeps
    <2>1. ct.pc \in {"wait_checkpoint", "connect", "wait_restore"} /\ KillBoth(ct.pid, ct.worker)
      BY Zenon DEF CtCheckpointLost, CtConnectFails, CtRestoreLost
    <2>2. PICK p \in Pids : ct.pid = p
      BY Zenon, <2>1 DEF Inv, TypeInv, CtLocals
    <2>3. PICK w \in Workers : ct.worker = w /\ Of(w, p)
      BY Zenon, <2>1, <2>2 DEF Inv, TypeInv, CtLocals, WorldInv, NamesInv, Of
    <2>4. ct'.pid = p /\ UNCHANGED table
      BY Zenon, <2>2
         DEF CtCheckpointLost, CtConnectFails, CtRestoreLost, CtTo, Inv, TypeInv, TypeOK, CtState
    <2>5. targets'[p] \in {"adrift", "dead"} /\ \A q \in Pids : q # p => targets'[q] = targets[q] /\ (q \in files => q \in files')
      BY Zenon, <2>1, <2>2 DEF KillBoth, Killed, cleanup_pid
    <2>6. \A v \in Workers : workers'[v] = workers[v] \/ Of(v, p)
      BY Zenon, <2>1, <2>2, <2>3
         DEF KillBoth, Dispatched, Bereaved, Watching, Of, Inv, TypeInv, TypeOK
    <2>7. \A v \in Workers : SameWorker(v) \/ Of(v, p)'
      BY Zenon, <2>6, OfKept DEF SameWorker
    <2>8. PidInv(p)'
      BY Zenon, <2>5 DEF PidInv
    <2> QED
      BY Zenon, <2>2, <2>4, <2>5, <2>7, <2>8, <1>CtOthers
  <1> SUFFICES ASSUME Least, Inv, WorldInv, [Next]_vars, CommandThread
               PROVE  \A q \in Pids : PidInv(q)'
    BY Zenon
  <1> QED
    BY Zenon, <1>IdleKeeps, <1>ForkKeeps, <1>SetCheckpointingKeeps, <1>CheckpointAnsweredKeeps,
       <1>SetCheckpointedKeeps,
       <1>ClearKeeps, <1>ConnectKeeps, <1>RestoreAnsweredKeeps, <1>KillBothKeeps DEF CommandThread

-----------------------------------------------------------------------------

LEMMA WorldInit == Init => WorldInv
  <1> SUFFICES ASSUME Init PROVE WorldInv
    BY Zenon
  <1>1. \A w \in Workers : workers[w].pc = "unused"
    BY Zenon DEF Init, NoWorker
  <1>2. \A i \in Rows : table[i].worker = PID_INVALID
    BY Zenon DEF Init, EmptyTable
  <1>3. \A w \in Workers : \A p : ~Of(w, p)
    BY Zenon, <1>1 DEF Of
  <1>4. NamesInv
    BY Zenon, <1>2 DEF NamesInv, Init, CtIdle
  <1>5. \A p \in Pids : PidInv(p)
    BY Zenon, <1>2, <1>3 DEF PidInv, HoldInv, BusyInv, RowInv, LostInv, ImageInv, Init
  <1> QED
    BY Zenon, <1>4, <1>5 DEF WorldInv

LEMMA WorldNext ==
  Least /\ Inv /\ WorldInv /\ [Next]_vars => WorldInv'
  \* Nothing but clients, the queue, the lock and rows without a worker changes.
  <1>FrameKeeps.
    ASSUME Least, Inv, WorldInv, [Next]_vars, UNCHANGED <<targets, files, ct>>, NoNewWorker(table, table'),
           \A w \in Workers : SameWorker(w)
    PROVE  \A p \in Pids : PidInv(p)'
    BY Zenon, <1>FrameKeeps, SamePid, NoNewRows
  \* Processes are killed or go adrift, with the workers that watch them.
  <1>KillKeeps.
    ASSUME Least, Inv, WorldInv, [Next]_vars, UNCHANGED ct, NoNewWorker(table, table'), NEW P,
           Stranded(P),
           workers' = Bereaved(workers, P), files \ P \subseteq files'
    PROVE  \A p \in Pids : PidInv(p)'
    <2> USE <1>KillKeeps
    <2> TAKE p \in Pids
    <2>1. CASE p \in P
      <3>1. targets'[p] \in {"adrift", "dead"}
        BY Zenon, <2>1 DEF Stranded
      <3> QED
        BY Zenon, <3>1 DEF PidInv
    <2>2. CASE p \notin P
      <3>1. \A w \in Workers : \/ workers[w].pid \in P /\ workers'[w].pid = workers[w].pid
                               \/ workers'[w] = workers[w]
        BY Zenon DEF Bereaved, Inv, TypeInv, TypeOK, WorkerState
      <3>2. \A w \in Workers : Of(w, p) \/ Of(w, p)' => SameWorker(w)
        BY Zenon, <2>2, <3>1 DEF Of, SameWorker
      <3>3. targets'[p] = targets[p] /\ (p \in files => p \in files')
        BY Zenon, <2>2 DEF Stranded
      <3> QED
        BY Zenon, <3>2, <3>3, SamePid, NoNewRows
    <2> QED
      BY Zenon, <2>1, <2>2
  <1>MainKeeps.
    ASSUME Least, Inv, WorldInv, [Next]_vars, Main \/ MainStop
    PROVE  \A p \in Pids : PidInv(p)'
    <2> USE <1>MainKeeps
    <2>1. UNCHANGED ct
      BY Zenon, MainFrame
    <2>2. NoNewWorker(table, table')
      <3>1. CtSetCheckpointed => NoNewWorker(table, table')
        BY Zenon, <2>1 DEF CtSetCheckpointed, CtTo, Inv, TypeInv, TypeOK, CtState
      <3> QED
        BY Zenon, <3>1, TableWorkers
    <2>3. CASE MainCleanup
      <3> DEFINE P == {table[i].pid : i \in Rows} \cap Pids
      <3>1. targets' = Killed(P) /\ workers' = Bereaved(workers, P) /\ files \ P \subseteq files'
        BY Zenon, <2>3 DEF MainCleanup, cleanup_pid
      <3> HIDE DEF P
      <3>2. Stranded(P)
        BY Zenon, <3>1 DEF Killed, Stranded
      <3> QED
        BY Zenon, <2>1, <2>2, <3>1, <3>2, <1>KillKeeps
    <2>4. CASE MainAbort
      <3>1. \A v \in Workers : SameWorker(v)
        BY Zenon, <2>4, AbortSentSame DEF MainAbort, SameWorker
      <3> QED
        BY Zenon, <2>1, <2>2, <2>4, <3>1, <1>FrameKeeps DEF MainAbort
    <2>5. CASE UNCHANGED world
      BY Zenon, <2>1, <2>2, <2>5, <1>FrameKeeps DEF world, SameWorker
    <2> QED
      BY Zenon, <2>3, <2>4, <2>5
         DEF Main, MainStop, MainAccept, MainAcceptSilent, MainRead, MainReject, MainCanCheckpoint, MainInit,
             MainCanRestore, MainPush, MainPushFull, MainUnqueue, MainJoin
  <1>OutsideKeeps.
    ASSUME Least, Inv, WorldInv, [Next]_vars,
           (\E c \in Clients, cmd \in ClientCommands, p \in Pids : Connect(c, cmd, p))
             \/ (\E c \in Clients : ClientSend(c))
             \/ (\E p \in Pids : TargetKilled(p) \/ TargetStopped(p)) \/ UNCHANGED vars
    PROVE  \A p \in Pids : PidInv(p)'
    <2> USE <1>OutsideKeeps
    <2>1. UNCHANGED <<ct, table, files>>
      BY Zenon, OutsideFrame
    <2>2. NoNewWorker(table, table')
      BY Zenon, <2>1 DEF NoNewWorker
    <2>3. ASSUME NEW q \in Pids, TargetKilled(q) \/ TargetStopped(q) PROVE \A p \in Pids : PidInv(p)'
      <3>1. targets \in [Pids -> {"running", "frozen", "lost", "adrift", "dead"}]
        BY Zenon DEF Inv, TypeInv, TypeOK
      <3>2. Stranded({q})
        BY Zenon, <2>3, <3>1 DEF TargetKilled, TargetStopped, Killed, Stranded
      <3>3. workers' = Bereaved(workers, {q})
        BY Zenon, <2>3 DEF TargetKilled, TargetStopped
      <3> QED
        BY Zenon, <2>1, <2>2, <3>2, <3>3, <1>KillKeeps
    <2>4. CASE UNCHANGED world
      BY Zenon, <2>1, <2>2, <2>4, <1>FrameKeeps DEF world, SameWorker
    <2> QED
      BY Zenon, <2>3, <2>4 DEF Connect, ClientSend, vars, world
  <1> SUFFICES ASSUME Least, Inv, WorldInv, [Next]_vars PROVE WorldInv'
    BY Zenon
  <1>1. NamesInv'
    BY Zenon, NamesNext DEF WorldInv
  <1>2. \A p \in Pids : PidInv(p)'
    BY Zenon, <1>MainKeeps, <1>OutsideKeeps, WorkerKeeps, CtKeeps DEF Next
  <1> QED
    BY Zenon, <1>1, <1>2 DEF WorldInv

=============================================================================
