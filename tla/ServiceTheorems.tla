--------------------------- MODULE ServiceTheorems ---------------------------
(* The theorems about the daemon, for any number of clients, pids, workers,   *)
(* rows and queued commands.  Proved here as well: that the table changes by  *)
(* whole functions only (AtomicTable), and that it knows every process that   *)
(* is frozen.                                                                 *)
EXTENDS ServiceTable, ServiceWorldProofs, ServiceClientProofs, FiniteSetTheorems

-----------------------------------------------------------------------------
(* Facts about numbers and finite sets. *)

LEMMA LeastHolds == Least
  <1> SUFFICES ASSUME NEW S \in SUBSET Nat, S # {} PROVE Min(S) \in S
    BY Zenon DEF Least
  <1> DEFINE R == OpToRel(<, Nat)
  <1>1. R = {ss \in Nat \X Nat : ss[1] < ss[2]} BY Zenon DEF OpToRel
  <1>2. IsWellFoundedOn(R, Nat) BY Zenon, NatLessThanWellFounded
  <1> HIDE DEF R
  <1>3. PICK n \in S : \A m \in S : ~ (<<m, n>> \in R) BY Zenon, <1>2, WFMin
  <1>4. \A m \in S : n <= m
    <2> TAKE m \in S
    <2>1. m \in Nat /\ n \in Nat BY Zenon
    <2>2. m < n => <<m, n>> \in R BY Zenon, <1>1, <2>1
    <2> QED BY <1>3, <2>1, <2>2
  <1> QED BY Zenon, <1>4 DEF Min

\* The rows of the table are enough.
Roomy == IsFiniteSet(Pids) /\ Cardinality(Pids) <= CHECKPOINTED_PIDS_LIMIT

\* With one row per process there is a free one for a process that has none.
LEMMA FreeRow ==
  ASSUME Roomy, NEW t, Sound(t), NEW p \in Pids, RowsOf(t, p) = {}
  PROVE  RowsOf(t, PID_INVALID) # {}
  <1> SUFFICES ASSUME RowsOf(t, PID_INVALID) = {} PROVE FALSE
    BY Zenon
  <1>1. \A i \in Rows : t[i].pid \in Pids \ {p}
    <2>1. \A i \in Rows : t[i].pid \in Pids \cup {PID_INVALID}
      BY Zenon DEF Sound, Row
    <2> QED
      BY Zenon, <2>1 DEF RowsOf
  <1>2. PICK f \in [Rows -> Pids \ {p}] : \A i \in Rows : f[i] = t[i].pid
    <2>1. [i \in Rows |-> t[i].pid] \in [Rows -> Pids \ {p}]
      BY Zenon, <1>1
    <2> QED
      BY Zenon, <2>1
  <1>3. IsFiniteSet(Rows) /\ Cardinality(Rows) = CHECKPOINTED_PIDS_LIMIT
    <2>1. 0 \in Int /\ CHECKPOINTED_PIDS_LIMIT - 1 \in Int /\ ~(0 > CHECKPOINTED_PIDS_LIMIT - 1)
          /\ (CHECKPOINTED_PIDS_LIMIT - 1) - 0 + 1 = CHECKPOINTED_PIDS_LIMIT
      BY LimitAssumption
    <2> QED
      BY Zenon, <2>1, FS_Interval DEF Rows
  <1>4. IsFiniteSet(Pids \ {p}) /\ Cardinality(Pids \ {p}) = Cardinality(Pids) - 1
    BY Zenon, FS_RemoveElement DEF Roomy
  <1>5. Cardinality(Pids \ {p}) < Cardinality(Rows)
    BY <1>3, <1>4, FS_CardinalityType, LimitAssumption DEF Roomy
  <1>6. PICK i \in Rows, j \in Rows : i # j /\ f[i] = f[j]
    BY <1>2, <1>3, <1>4, <1>5, FS_PigeonHole
  <1>7. t[i].pid = t[j].pid /\ t[i].pid # PID_INVALID
    BY Zenon, <1>1, <1>2, <1>6, InvalidAssumption
  <1> QED
    BY Zenon, <1>6, <1>7 DEF Sound, UniquePids

-----------------------------------------------------------------------------
(* The table changes by whole functions. *)

LEMMA SameCleared == \A row : Atomic!Cleared(row) = Cleared(row)
  BY Zenon DEF Atomic!Cleared, Cleared, Atomic!STATE_RESTORED, STATE_RESTORED

LEMMA SameRowsOf == \A t, p : Atomic!RowsOf(t, p) = RowsOf(t, p)
  BY Zenon DEF Atomic!RowsOf, RowsOf, Atomic!Rows, Rows

\* The operators of the instance are those of CheckpointTable.
LEMMA SameOperators ==
  ASSUME NEW t, NEW p, NEW w
  PROVE  /\ Atomic!Rows = Rows
         /\ Atomic!EmptyTable = EmptyTable
         /\ Atomic!RowsOf(t, p) = RowsOf(t, p)
         /\ Atomic!can_checkpoint_pid(t, p) = can_checkpoint_pid(t, p)
         /\ Atomic!can_restore_pid(t, p) = can_restore_pid(t, p)
         /\ Atomic!FlagAbort(t, p) = FlagAbort(t, p)
         /\ Atomic!set_pid_checkpointing(t, p, w) = set_pid_checkpointing(t, p, w)
         /\ Atomic!set_pid_checkpointed(t, p, w) = set_pid_checkpointed(t, p, w)
         /\ Atomic!clear_pid_checkpoint_data(t, p) = clear_pid_checkpoint_data(t, p)
         /\ Atomic!clear_pid_on_worker_exit_non_blocking(t, w) = clear_pid_on_worker_exit_non_blocking(t, w)
  BY Zenon
     DEF Atomic!Rows, Atomic!EmptyTable, Atomic!RowsOf, Atomic!can_checkpoint_pid,
     Atomic!can_restore_pid,
         Atomic!FlagAbort, Atomic!set_pid_checkpointing, Atomic!set_pid_checkpointed,
         Atomic!clear_pid_checkpoint_data, Atomic!clear_pid_on_worker_exit_non_blocking,
         Atomic!Cleared, Atomic!Checkpointable, Atomic!STATE_RESTORED, Atomic!STATE_CHECKPOINTING,
         Atomic!STATE_CHECKPOINTED, Rows, EmptyTable, RowsOf, can_checkpoint_pid, can_restore_pid, FlagAbort,
         set_pid_checkpointing, set_pid_checkpointed, clear_pid_checkpoint_data,
         clear_pid_on_worker_exit_non_blocking, Cleared, Checkpointable, STATE_RESTORED,
         STATE_CHECKPOINTING, STATE_CHECKPOINTED, Atomic!Min, Min

\* A step of the listener is a whole function or leaves the table alone; it
\* takes a row for a process that has none because StillFree holds.
LEMMA MainAtomic ==
  ASSUME Least, Inv, Main \/ MainStop
  PROVE  Atomic!Step(table, table') \/ UNCHANGED table
  <1>m. main.pc \in {"init", "abort", "unqueue"} => main.pid \in Pids
    BY Zenon DEF Inv, TypeInv, MainLocals
  <1>1. CASE MainInit
    <2> DEFINE free == RowsOf(table, PID_INVALID)
    <2>1. main.pid \in Pids /\ can_checkpoint_pid(table, main.pid)
      BY Zenon, <1>1, <1>m DEF MainInit, Inv, StillFree, can_checkpoint_pid
    <2>2. CASE free = {} BY Zenon, <1>1, <2>2 DEF MainInit, init_pid_checkpoint_data
    <2>3. CASE free # {}
      <3>1. Min(free) \in free BY Zenon, <2>3, MinRow DEF RowsOf
      <3>2. table' = [table EXCEPT ![Min(free)] = [Cleared(table[Min(free)]) EXCEPT !.pid = main.pid]]
        BY Zenon, <1>1, <2>3 DEF MainInit, init_pid_checkpoint_data
      <3>3. Atomic!Cleared(table[Min(free)]) = Cleared(table[Min(free)]) BY Zenon, SameCleared
      <3>4. Min(free) \in Atomic!RowsOf(table, PID_INVALID) BY Zenon, <3>1, SameRowsOf
      <3>5. Atomic!can_checkpoint_pid(table, main.pid) BY Zenon, <2>1, SameOperators
      <3>6. table' = Atomic!NewRow(table, Min(free), main.pid) BY Zenon, <3>2, <3>3
                                                                  DEF Atomic!NewRow
      <3> HIDE DEF free
      <3>7. Atomic!InitRow(table, table', main.pid) BY Zenon, <3>4, <3>5, <3>6 DEF Atomic!InitRow
      <3> QED BY <2>1, <3>7, Zenon DEF Atomic!Step
    <2> QED BY Zenon, <2>2, <2>3
  <1>2. CASE MainAbort
    <2>1. CASE RowsOf(table, main.pid) = {} BY Zenon, <1>2, <2>1 DEF MainAbort
    <2>2. CASE RowsOf(table, main.pid) # {}
      <3>1. main.pid \in Pids /\ can_restore_pid(table, main.pid)
        BY Zenon, <1>2, <1>m, <2>2 DEF MainAbort, can_restore_pid
      <3>2. table' = FlagAbort(table, main.pid) BY Zenon, <1>2, <2>2 DEF MainAbort
      <3>3. Atomic!RequestAbort(table, table', main.pid)
        BY Zenon, <3>1, <3>2, SameOperators DEF Atomic!RequestAbort
      <3> QED BY Zenon, <3>1, <3>3 DEF Atomic!Step
    <2> QED BY Zenon, <2>1, <2>2
  <1>3. CASE MainUnqueue
    BY Zenon, <1>3, <1>m, SameOperators DEF MainUnqueue, Atomic!Step
  <1>4. CASE MainCleanup
    <2>1. table' = Atomic!ClearAll(table)
      <3>1. table' = [i \in Rows |-> IF table[i].pid = PID_INVALID THEN table[i] ELSE Cleared(table[i])]
        BY Zenon, <1>4 DEF MainCleanup
      <3> QED BY Zenon, <3>1, SameCleared DEF Atomic!ClearAll, Atomic!Rows, Rows
    <2> QED BY Zenon, <2>1 DEF Atomic!Step
  <1>5. CASE MainRead \/ MainCanCheckpoint \/ MainCanRestore \/ MainPush \/ MainPushFull \/ MainJoin
             \/ MainStop
    BY Zenon, <1>5
       DEF MainRead, MainCanCheckpoint, MainCanRestore, MainPush, MainPushFull, MainJoin, MainStop
  <1>6. ASSUME NEW c \in Clients, MainAccept(c) \/ MainAcceptSilent(c) \/ MainReject(c)
        PROVE  UNCHANGED table
    BY Zenon, <1>6 DEF MainAccept, MainAcceptSilent, MainReject, daemon
  <1> QED BY Zenon, <1>1, <1>2, <1>3, <1>4, <1>5, <1>6 DEF Main

LEMMA CtAtomic ==
  ASSUME Inv, CommandThread
  PROVE  Atomic!Step(table, table') \/ UNCHANGED table
  <1>l. CtLocals BY Zenon DEF Inv, TypeInv
  <1>1. CASE CtSetCheckpointing
    BY Zenon, <1>1, <1>l, SameOperators DEF CtSetCheckpointing, CtLocals, Atomic!Step
  <1>2. CASE CtSetCheckpointed
    BY Zenon, <1>2, <1>l, SameOperators DEF CtSetCheckpointed, CtLocals, Atomic!Step
  <1>3. CASE CtClear BY Zenon, <1>3, <1>l, SameOperators DEF CtClear, CtLocals, Atomic!Step
  <1>4. CASE CtPop \/ CtInterrupted \/ CtFork \/ CtForkFails \/ CtCheckpointAnswered
             \/ CtCheckpointLost \/ CtClose \/ CtGetWorker \/ CtConnect \/ CtConnectFails
             \/ CtRestoreAnswered \/ CtRestoreLost
    <2>1. CASE CtCheckpointAnswered \/ CtCheckpointLost
      BY Zenon, <2>1 DEF CtCheckpointAnswered, CtCheckpointLost
    <2>2. CASE ~(CtCheckpointAnswered \/ CtCheckpointLost)
      BY <1>4, <2>2, Zenon DEF CtPop, CtInterrupted, CtFork, CtForkFails, CtClose, CtGetWorker,
                  CtConnect, CtConnectFails, CtRestoreAnswered, CtRestoreLost
    <2> QED BY Zenon, <2>1, <2>2
  <1> QED BY Zenon, <1>1, <1>2, <1>3, <1>4 DEF CommandThread

LEMMA WorkerAtomic ==
  ASSUME NEW w \in Workers, WorkerStep(w)
  PROVE  Atomic!Step(table, table') \/ UNCHANGED table
  <1>1. CASE sigchld_handler_service(w)
    BY Zenon, <1>1, SameOperators DEF sigchld_handler_service, Atomic!Step
  <1>2. CASE Worker(w) \/ WorkerCrash(w)
    BY Zenon, <1>2 DEF Worker, WorkerCrash, WorkerSetup, WorkerSeize, WorkerDump, WorkerWatch,
                WorkerRespond, WorkerAccept, WorkerRestore, WorkerReply, WorkerEnd, daemon
  <1> QED BY Zenon, <1>1, <1>2 DEF WorkerStep

-----------------------------------------------------------------------------
(* From the row a CHECKPOINT gets to the process it freezes. *)

\* A process that is frozen, or that somebody is going to freeze.
Needs(p) ==
  \/ AtMain(p) /\ main.pc = "push"
  \/ InQueue(p) /\ main.pc # "down"
  \/ Forking(p)
  \/ targets[p] \notin {"adrift", "dead"} /\ \E w \in Workers : Of(w, p) /\ workers[w].pc \in {"setup", "seize"}
  \/ targets[p] = "frozen"

\* The table knows it, and whoever clears its row does not leave it frozen.
KnownInv ==
  Once => \A p \in Pids : /\ Needs(p) => RowsOf(table, p) # {}
                          /\ Clearing(p) => targets[p] # "frozen"

LEMMA NeedsBefore ==
  ASSUME Inv, WorldInv, CmdInv, StopInv, [Next]_vars, NEW p \in Pids, Needs(p)'
  PROVE  Needs(p) \/ (MainInit /\ main.pid = p)
  <1>1. CASE AtMain(p)' /\ main'.pc = "push"
    <2>1. CASE UNCHANGED main
      BY Zenon, <1>1, <2>1 DEF Needs, AtMain, MainBusy
    <2>2. CASE MainInit
      BY Zenon, <1>1, <2>2, MainEnters DEF AtMain
    <2>3. main'.cmd # MEMCR_RESTORE
      BY Zenon, <1>1 DEF AtMain, MEMCR_CHECKPOINT, MEMCR_RESTORE
    <2> QED
      BY Zenon, <1>1, <2>1, <2>2, <2>3, MainEnters
  <1>2. CASE InQueue(p)' /\ main'.pc # "down"
    <2>1. main.pc # "down"
      BY Zenon, <1>2, MainDown
    <2>2. CASE UNCHANGED queue
      BY Zenon, <1>2, <2>1, <2>2 DEF InQueue, Queued, Needs
    <2>3. CASE MainPush
      <3>1. InQueue(p) \/ AtMain(p)
        BY Zenon, <1>2, <2>3, PushClaims DEF InQueue
      <3> QED
        BY Zenon, <2>1, <2>3, <3>1 DEF Needs, MainPush
    <2>4. CASE CtPop
      <3>1. InQueue(p)
        BY Zenon, <1>2, <2>4, PopClaims DEF InQueue
      <3> QED
        BY Zenon, <2>1, <3>1 DEF Needs
    <2> QED
      BY Zenon, <2>2, <2>3, <2>4, QueueStep
  <1>3. CASE Forking(p)'
    <2>1. CASE Forking(p)
      BY Zenon, <2>1 DEF Needs
    <2>2. CASE CtPop
      <3>1. InQueue(p)
        BY Zenon, <1>3, <2>2, PopClaims DEF InQueue
      <3>2. main.pc # "down"
        BY Zenon, <2>2 DEF StopInv, CtPop
      <3> QED
        BY Zenon, <3>1, <3>2 DEF Needs
    <2> QED
      BY Zenon, <1>3, <2>1, <2>2, CtClaims
  <1>4. CASE targets'[p] \notin {"adrift", "dead"} /\ \E w \in Workers : Of(w, p)' /\ workers'[w].pc \in {"setup", "seize"}
    <2>1. PICK w \in Workers : Of(w, p)' /\ workers'[w].pc \in {"setup", "seize"}
      BY Zenon, <1>4
    <2>2. targets[p] \notin {"adrift", "dead"}
      BY Zenon, <1>4, TargetStep
    <2>3. CASE WorkerStep(w)
      <3>1. Of(w, p) /\ workers[w].pc = "setup"
        BY Zenon, <2>1, <2>3, OwnStep DEF OwnMove, Goes, Of
      <3> QED
        BY Zenon, <2>2, <3>1 DEF Needs
    <2>4. CASE ~Of(w, p)
      BY Zenon, <2>1, <2>4, WorkerClaims DEF Needs
    <2>5. CASE ~WorkerStep(w) /\ Of(w, p)
      <3>1. workers[w].pc # "unused" /\ workers[w].pid = p
        BY Zenon, <2>5 DEF Of
      <3>2. workers[w].pc = workers'[w].pc
        BY Zenon, <1>4, <2>1, <2>5, <3>1, OthersStep
      <3> QED
        BY Zenon, <2>1, <2>2, <2>5, <3>2 DEF Needs
    <2> QED
      BY Zenon, <2>3, <2>4, <2>5
  <1>5. CASE targets'[p] = "frozen"
    BY Zenon, <1>5, TargetStep DEF Needs
  <1> QED
    BY Zenon, <1>1, <1>2, <1>3, <1>4, <1>5 DEF Needs

\* Nobody needs a row that is taken away.
LEMMA Needless ==
  ASSUME Inv, WorldInv, FateInv, ClaimInv, StopInv, CmdInv, KnownInv, Once, NEW p \in Pids
  PROVE  /\ MainUnqueue /\ main.pid = p => ~Needs(p)
         /\ CtClear /\ ct.pid = p => ~Needs(p)
         /\ \A w \in Workers, i \in Rows :
              sigchld_handler_service(w) /\ table[i].worker = w /\ table[i].pid = p => ~Needs(p)
  <1>0. ExclInv(p)
    BY Zenon DEF ClaimInv
  <1>1. targets[p] = "frozen" => Worked(p)
    BY Zenon DEF FateInv, HeldInv, Worked
  <1>2. ASSUME MainUnqueue, main.pid = p PROVE ~Needs(p)
    <2>1. AtMain(p) /\ main.pc = "unqueue"
      BY Zenon, <1>2 DEF MainUnqueue, CmdInv, AtMain, MainBusy
    <2> QED
      BY Zenon, <1>0, <1>1, <2>1 DEF ExclInv, Needs, Worked
  <1>3. ASSUME CtClear, ct.pid = p PROVE ~Needs(p)
    <2>1. Clearing(p)
      BY Zenon, <1>3 DEF CtClear, Clearing
    <2>2. targets[p] # "frozen"
      BY Zenon, <2>1 DEF KnownInv
    <2>3. ASSUME targets[p] \notin {"adrift", "dead"}, NEW w \in Workers, Of(w, p), workers[w].pc \in {"setup", "seize"}
          PROVE  FALSE
      <3>1. Checkpointing(w)
        BY Zenon, <2>3 DEF WorldInv, PidInv, BusyInv, Abortable
      <3> QED
        BY Zenon, <2>1, <3>1 DEF Checkpointing, Clearing
    <2>4. ~Forking(p)
      BY Zenon, <2>1 DEF Forking, Clearing
    <2> QED
      BY Zenon, <1>0, <2>1, <2>2, <2>3, <2>4 DEF ExclInv, Needs
  <1>4. ASSUME NEW w \in Workers, NEW i \in Rows, sigchld_handler_service(w), table[i].worker = w,
               table[i].pid = p
        PROVE  ~Needs(p)
    <2>1. workers[w].pc = "zombie"
      BY Zenon, <1>4 DEF sigchld_handler_service
    <2>2. Of(w, p)
      <3>1. w # PID_INVALID
        BY Zenon, InvalidAssumption
      <3> QED
        BY Zenon, <1>4, <3>1 DEF WorldInv, NamesInv
    <2>3. targets[p] # "frozen"
      <3> SUFFICES ASSUME targets[p] = "frozen" PROVE FALSE
        BY Zenon
      <3>1. PICK v \in Workers : Of(v, p) /\ workers[v].pc \in Holding
        BY Zenon DEF FateInv, HeldInv
      <3>2. v = w
        BY Zenon, <1>0, <2>2, <3>1 DEF ExclInv
      <3> QED
        BY Zenon, <2>1, <3>1, <3>2 DEF Holding
    <2>4. ASSUME NEW v \in Workers, Of(v, p), workers[v].pc \in {"setup", "seize"} PROVE FALSE
      <3>1. v = w
        BY Zenon, <1>0, <2>2, <2>4 DEF ExclInv
      <3> QED
        BY Zenon, <2>1, <2>4, <3>1
    <2>5. Worked(p)
      BY Zenon, <2>2 DEF Worked
    <2> QED
      BY Zenon, <1>0, <2>3, <2>4, <2>5 DEF ExclInv, Needs
  <1> QED
    BY Zenon, <1>2, <1>3, <1>4

\* So a row stays as long as it is needed.
LEMMA RowStays ==
  ASSUME Least, Inv, WorldInv, FateInv, ClaimInv, StopInv, CmdInv, KnownInv, Once, [Next]_vars,
         NEW p \in Pids, Needs(p), Needs(p)'
  PROVE  RowsOf(table', p) # {}
  <1>0. PICK i \in Rows : table[i].pid = p
    BY Zenon DEF KnownInv, RowsOf
  <1>1. table'[i].pid = p => RowsOf(table', p) # {}
    BY Zenon DEF RowsOf
  <1>2. CASE Retains(table, table')
    BY Zenon, <1>0, <1>1, <1>2 DEF Retains
  <1>3. CASE MainUnqueue
    <2>1. main.pid # p
      BY Zenon, <1>3, Needless
    <2> QED
      BY Zenon, <1>0, <1>1, <1>3, <2>1 DEF MainUnqueue, clear_pid_checkpoint_data
  <1>4. CASE CtClear
    <2>1. ct.pid # p
      BY Zenon, <1>4, Needless
    <2> QED
      BY Zenon, <1>0, <1>1, <1>4, <2>1 DEF CtClear, clear_pid_checkpoint_data
  <1>5. ASSUME NEW w \in Workers, sigchld_handler_service(w) PROVE RowsOf(table', p) # {}
    <2>1. table[i].worker # w
      BY Zenon, <1>0, <1>5, Needless
    <2> QED
      BY Zenon, <1>0, <1>1, <1>5, <2>1
         DEF sigchld_handler_service, clear_pid_on_worker_exit_non_blocking
  <1>6. CASE MainCleanup
    <2>1. targets'[p] = "dead"
      BY Zenon, <1>0, <1>6 DEF MainCleanup, Killed
    <2>2. main'.pc = "down" /\ ct'.pc = "done"
      BY Zenon, <1>6 DEF MainCleanup, MainTo, StopInv, Inv, TypeInv, TypeOK, MainState
    <2> QED
      BY Zenon, <2>1, <2>2 DEF Needs, Forking
  <1> QED
    BY Zenon, <1>2, <1>3, <1>4, <1>5, <1>6, RowStep

\* The command thread clears a row because it has started no worker, or the
\* worker has failed or has restored the process, or it has killed it.
LEMMA ClearStep ==
  ASSUME Inv, [Next]_vars, NEW p \in Pids, Clearing(p)'
  PROVE  \/ Clearing(p) /\ UNCHANGED ct
         \/ /\ UNCHANGED targets
            /\ \/ Forking(p)
               \/ ct.pc = "wait_checkpoint" /\ ct.pid = p /\ Answered(ct.worker)
                  /\ workers[ct.worker].resp # MEMCR_OK
               \/ ct.pc = "wait_restore" /\ ct.pid = p /\ Answered(ct.rd)
         \/ targets'[p] = "dead"
  <1> USE DEF Forking, Clearing
  <1>0. ct \in CtState
    BY Zenon DEF Inv, TypeInv, TypeOK
  <1>1. CASE UNCHANGED ct
    BY Zenon, <1>1
  <1>2. \A pc : ct' = [ct EXCEPT !.pc = pc] => ct'.pc = pc /\ ct'.pid = ct.pid
    BY Zenon, <1>0 DEF CtState
  <1>3. CASE CtPop
    <2>1. ct'.pc \in {"fork", "get_worker"}
      BY Zenon, <1>3 DEF CtPop, CtIdle
    <2> QED
      BY Zenon, <2>1
  <1>4. CASE CtClose
    BY Zenon, <1>4 DEF CtClose, CtIdle
  <1>5. CASE CtFork
    BY Zenon, <1>0, <1>5 DEF CtFork, CtState
  <1>6. CASE CtGetWorker
    <2>1. CtTo("close") \/ \E w : ct' = [ct EXCEPT !.pc = "connect", !.worker = w]
      BY Zenon, <1>6 DEF CtGetWorker
    <2> QED
      BY Zenon, <1>0, <2>1 DEF CtTo, CtState
  <1>7. CASE CtConnect
    <2>1. \E w : ct' = [ct EXCEPT !.pc = "wait_restore", !.rd = w]
      BY Zenon, <1>7 DEF CtConnect
    <2> QED
      BY Zenon, <1>0, <2>1 DEF CtState
  <1>8. CASE \E pc \in {"done", "wait_checkpoint", "close"} : ct' = [ct EXCEPT !.pc = pc]
    BY Zenon, <1>2, <1>8
  <1>9. CASE CtForkFails
    BY Zenon, <1>2, <1>9 DEF CtForkFails, CtTo, world
  <1>10. CASE CtCheckpointAnswered
    <2>1. CASE workers[ct.worker].resp = MEMCR_OK
      BY Zenon, <1>2, <1>10, <2>1 DEF CtCheckpointAnswered
    <2>2. CASE workers[ct.worker].resp # MEMCR_OK
      BY Zenon, <1>2, <1>10, <2>2 DEF CtCheckpointAnswered
    <2> QED
      BY Zenon, <2>1, <2>2
  <1>11. CASE CtRestoreAnswered
    BY Zenon, <1>2, <1>11 DEF CtRestoreAnswered, CtTo
  <1>12. CASE CtCheckpointLost \/ CtConnectFails \/ CtRestoreLost
    <2>1. KillBoth(ct.pid, ct.worker) /\ CtTo("clear")
      BY Zenon, <1>12 DEF CtCheckpointLost, CtConnectFails, CtRestoreLost
    <2>2. ct.pid = p
      BY Zenon, <1>2, <2>1 DEF CtTo
    <2> QED
      BY Zenon, <2>1, <2>2 DEF KillBoth, Killed
  <1>13. CASE CommandThread
    BY Zenon, <1>3, <1>4, <1>5, <1>6, <1>7, <1>8, <1>9, <1>10, <1>11, <1>12, <1>13
       DEF CommandThread, CtInterrupted, CtSetCheckpointing, CtSetCheckpointed, CtClear, CtTo
  <1> QED
    BY Zenon, <1>1, <1>13, MainFrame, WorkerFrame, OutsideFrame DEF Next, WorkerStep

LEMMA ClearNext ==
  ASSUME Inv, WorldInv, FateInv, ClaimInv, KnownInv, Once, [Next]_vars, NEW p \in Pids, Clearing(p)'
  PROVE  targets'[p] # "frozen"
  <1> SUFFICES ASSUME targets'[p] = "frozen" PROVE FALSE
    BY Zenon
  <1>0. ExclInv(p)
    BY Zenon DEF ClaimInv
  <1>1. CASE Clearing(p)
    <2>1. targets[p] # "frozen"
      BY Zenon, <1>1 DEF KnownInv
    <2>2. PICK w \in Workers : Of(w, p) /\ workers[w].pc = "seize" /\ targets[p] = "running"
      BY Zenon, <2>1, TargetStep
    <2>3. Checkpointing(w)
      BY Zenon, <2>2 DEF WorldInv, PidInv, BusyInv, Abortable
    <2> QED
      BY Zenon, <1>1, <2>3 DEF Checkpointing, Clearing
  <1>2. CASE UNCHANGED targets
    <2>0. targets[p] = "frozen"
      BY Zenon, <1>2
    <2>1. PICK v \in Workers : Of(v, p) /\ workers[v].pc \in Holding
      BY Zenon, <2>0 DEF FateInv, HeldInv
    <2>2. ~Forking(p)
      BY Zenon, <1>0, <2>1 DEF ExclInv, Worked
    <2>3. BusyInv(p) /\ ReplyInv(p)
      BY Zenon, <2>0 DEF WorldInv, PidInv, FateInv
    <2>4. ASSUME ct.pc = "wait_checkpoint", ct.pid = p, Answered(ct.worker), workers[ct.worker].resp # MEMCR_OK
          PROVE  FALSE
      <3>1. ct.worker \in Workers /\ Of(ct.worker, p)
        BY Zenon, <2>4 DEF Inv, TypeInv, CtLocals, Of
      <3>2. ct.worker = v
        BY Zenon, <1>0, <2>1, <3>1 DEF ExclInv
      <3>3. workers[v].pc \notin Abortable
        BY Zenon, <2>1, <2>3, <2>4, <3>2 DEF BusyInv, Answered
      <3>4. workers[v].pc # "accept"
        BY Zenon, <2>1, <2>3, <2>4, <3>2 DEF ReplyInv, Answered
      <3>5. workers[v].pc # "restore"
        BY Zenon, <2>1, <2>3, <2>4, <3>2 DEF BusyInv, Answered
      <3> QED
        BY Zenon, <2>1, <3>3, <3>4, <3>5 DEF Holding, Abortable
    <2>5. ASSUME ct.pc = "wait_restore", ct.pid = p, Answered(ct.rd) PROVE FALSE
      <3>1. ct.rd \in Workers /\ Of(ct.rd, p)
        BY Zenon, <2>5 DEF Inv, TypeInv, CtLocals, WorldInv, NamesInv
      <3>2. ct.rd = v
        BY Zenon, <1>0, <2>1, <3>1 DEF ExclInv
      <3>3. workers[v].pc \notin Abortable
        BY Zenon, <2>1, <2>3, <2>5 DEF BusyInv, Checkpointing
      <3>4. workers[v].pc # "accept"
        BY Zenon, <2>1, <2>3, <2>5, <3>2 DEF BusyInv, Answered, Checkpointing
      <3>5. workers[v].pc # "restore"
        BY Zenon, <2>1, <2>3, <2>5, <3>2 DEF BusyInv, Answered
      <3> QED
        BY Zenon, <2>1, <3>3, <3>4, <3>5 DEF Holding, Abortable
    <2> QED
      BY Zenon, <1>1, <2>2, <2>4, <2>5, ClearStep
  <1> QED
    BY Zenon, <1>1, <1>2, ClearStep

LEMMA KnownNext ==
  ASSUME Least, Roomy, Inv, WorldInv, FateInv, LinkInv, ClaimInv, StopInv, CmdInv, KnownInv, [Next]_vars
  PROVE  KnownInv'
  <1> SUFFICES ASSUME Once', NEW p \in Pids
               PROVE  /\ Needs(p)' => RowsOf(table', p) # {}
                      /\ Clearing(p)' => targets'[p] # "frozen"
    BY Zenon DEF KnownInv, RowsOf
  <1>0. Once
    BY Zenon, OnceBefore
  <1>1. ASSUME Needs(p)' PROVE RowsOf(table', p) # {}
    <2>1. CASE Needs(p)
      BY Zenon, <1>0, <1>1, <2>1, RowStays
    <2>2. CASE MainInit /\ main.pid = p
      <3>1. Sound(table) /\ RowsOf(table, p) = {}
        BY Zenon, <2>2, InvSound DEF Inv, StillFree, MainInit
      <3>2. RowsOf(table, PID_INVALID) # {}
        BY Zenon, <3>1, FreeRow
      <3>3. RowsOf(init_pid_checkpoint_data(table, p), p) # {}
        BY Zenon, <3>1, <3>2, InitRetains
      <3> QED
        BY Zenon, <2>2, <3>3 DEF MainInit
    <2> QED
      BY Zenon, <1>1, <2>1, <2>2, NeedsBefore
  <1>2. Clearing(p)' => targets'[p] # "frozen"
    BY Zenon, <1>0, ClearNext
  <1> QED
    BY Zenon, <1>1, <1>2

-----------------------------------------------------------------------------
(* The theorems. *)

LEMMA InvHolds == Spec => []Inv
  <1>1. Inv /\ [Next]_vars => Inv'
    BY Zenon, LeastHolds, NextInv
  <1> QED
    BY <1>1, InitInv, PTL DEF Spec

\* The daemon, its clients and its workers stay within their types, the pid
\* recycling of the kernel and pids outside Pids aside.
THEOREM TypeCorrect == Spec => []TypeOK
  <1>1. Inv => TypeOK BY Zenon DEF Inv, TypeInv
  <1> QED BY <1>1, InvHolds, PTL

\* can_checkpoint_pid and init_pid_checkpoint_data, although they take the lock
\* separately, never give a process a second row.
THEOREM OneRowPerPidHolds == Spec => []OneRowPerPid
  <1>1. Inv => OneRowPerPid BY Zenon DEF Inv
  <1> QED BY <1>1, InvHolds, PTL

\* Whatever the order of the two threads' updates and of the SIGCHLD handler,
\* the state, the worker and the command socket of a row agree.
THEOREM RowsAgreeHolds == Spec => []RowsAgree
  <1>1. Inv => RowsAgree BY Zenon DEF Inv
  <1> QED BY <1>1, InvHolds, PTL

\* The socket try_to_abort_checkpoint finds in the table is always that of the
\* worker which checkpoints the process it was asked to abort.
THEOREM AbortReachesItsWorkerHolds == Spec => []AbortReachesItsWorker
  <1>1. Inv => AbortReachesItsWorker BY Zenon DEF Inv
  <1> QED BY <1>1, InvHolds, PTL

\* Whatever the threads, the SIGCHLD handler and the environment do, the table
\* changes only by whole functions of checkpoint_service_data, and a process
\* gets a row only when it has none, for any number of rows and processes.
THEOREM TableIsAtomicHolds == Spec => TableIsAtomic
  <1>1. Init => Atomic!Init BY Zenon, SameOperators DEF Init, Atomic!Init
  <1>2. Inv /\ [Next]_vars => [Atomic!Next]_table
    <2> SUFFICES ASSUME Inv, [Next]_vars PROVE Atomic!Step(table, table') \/ UNCHANGED table
      BY Zenon DEF Atomic!Next
    <2> QED BY Zenon, LeastHolds, MainAtomic, CtAtomic, WorkerAtomic, OutsideFrame
               DEF Next, WorkerStep
  <1> QED BY <1>1, <1>2, InvHolds, PTL DEF Spec, TableIsAtomic, Atomic!Spec

LEMMA WorldHolds == Spec => [](Inv /\ WorldInv)
  <1>1. Init => Inv /\ WorldInv
    BY Zenon, InitInv, WorldInit
  <1>2. Inv /\ WorldInv /\ [Next]_vars => (Inv /\ WorldInv)'
    BY Zenon, LeastHolds, NextInv, WorldNext
  <1> QED
    BY <1>1, <1>2, PTL DEF Spec

\* Whatever fails, in whatever order the workers, the command thread, the
\* SIGCHLD handler and the shutdown run cleanup_pid, none of them removes the
\* dump of a frozen process that has a worker to restore it.
THEOREM ImageKeptHolds == Spec => []ImageKept
  <1>1. Inv /\ WorldInv => ImageKept
    BY Zenon DEF Inv, TypeInv, WorkersOK, WorldInv, PidInv, ImageInv, ImageKept, Of
  <1> QED
    BY <1>1, WorldHolds, PTL

\* A process whose tracer crashed, and which runs without the memory that was
\* dumped, always has the command thread waiting for that worker: it reads the
\* end of the stream and kills the process.
THEOREM LostIsWaitedForHolds == Spec => []LostIsWaitedFor
  <1>1. ASSUME Inv, WorldInv PROVE LostIsWaitedFor
    BY Zenon, <1>1
       DEF Inv, TypeInv, CtLocals, WorldInv, NamesInv, PidInv, LostInv, LostIsWaitedFor, Of,
                Checkpointing, Restoring
  <1> QED
    BY <1>1, WorldHolds, PTL

LEMMA FateHolds == Spec => [](Inv /\ WorldInv /\ FateInv)
  <1>1. Init => FateInv
    BY DEF Init, FateInv, HeldInv, ReplyInv, Of, NoWorker
  <1>2. Inv /\ WorldInv /\ FateInv /\ [Next]_vars => FateInv'
    BY Zenon, FateNext
  <1> QED
    BY <1>1, <1>2, WorldHolds, PTL DEF Spec

\* Without -S, a worker that waits to restore its process has the restore name
\* of the pid: it is bound before the process is seized, a second worker of the
\* same process cannot bind it, and nothing but the end of the worker takes it
\* away, whatever fails.
THEOREM WaitingIsReachableHolds == ~parasite_socket_dir => (Spec => []WaitingIsReachable)
  <1> SUFFICES ASSUME ~parasite_socket_dir PROVE Spec => []WaitingIsReachable
    BY Zenon
  <1>1. Init => NameInv
    BY DEF Init, NameInv, NoWorker, Bound, Listening, Alive
  <1>2. Inv /\ WorldInv /\ NameInv /\ [Next]_vars => NameInv'
    BY Zenon, NameNext
  <1>3. NameInv => WaitingIsReachable
    BY Zenon DEF NameInv, WaitingIsReachable, Bound, Listening, Alive
  <1> QED
    BY <1>1, <1>2, <1>3, WorldHolds, PTL DEF Spec

\* Without -S and with nothing failing, neither a second CHECKPOINT for a process
\* whose worker has not ended, nor a RESTORE that comes at any moment, gets a
\* process killed before the daemon is shut down.
THEOREM NobodyKilledHolds == Calm => (Spec => []NobodyKilled)
  <1> SUFFICES ASSUME Calm PROVE Spec => []NobodyKilled
    BY Zenon
  <1>1. Init => StopInv /\ NameInv /\ CalmInv
    <2> SUFFICES ASSUME Init PROVE StopInv /\ NameInv /\ CalmInv
      BY Zenon
    <2>1. main.pc = "select" /\ ct.pc = "pop" /\ \A w \in Workers : workers[w].pc = "unused"
      BY Zenon DEF Init, MainIdle, CtIdle, NoWorker
    <2>2. \A p \in Pids : targets[p] = "running"
      BY Zenon DEF Init
    <2> QED
      BY Zenon, <2>1, <2>2
         DEF StopInv, NameInv, CalmInv, Checkpointing, Restoring, Bound, Listening, Alive
  <1>2. Inv /\ WorldInv /\ FateInv /\ StopInv /\ NameInv /\ CalmInv /\ [Next]_vars
          => (StopInv /\ NameInv /\ CalmInv)'
    BY Zenon, LeastHolds, NextInv, WorldNext, StopNext, NameNext, CalmNext DEF Calm
  <1>3. StopInv /\ CalmInv => NobodyKilled
    BY Zenon DEF StopInv, CalmInv, NobodyKilled
  <1> QED
    BY <1>1, <1>2, <1>3, FateHolds, PTL DEF Spec

LEMMA ClientsHolds == Spec => [](Inv /\ WorldInv /\ FateInv /\ ClientsInv)
  <1>1. Inv /\ ClientsInv /\ [Next]_vars => ClientsInv'
    BY Zenon, LeastHolds, ClientsNext
  <1> QED
    BY <1>1, ClientsInit, FateHolds, PTL DEF Spec

\* service_command_thread answers the descriptor of the command it executes, and
\* the worker's answer is about its target: as long as no client has been cut
\* off, a client that is told MEMCR_OK finds its process frozen after a
\* CHECKPOINT and running after a RESTORE, unless it died or was sent a SIGSTOP
\* under a worker, whatever else fails.
THEOREM OkIsTrueHolds == Spec => OkIsTrue
  <1>1. Inv /\ WorldInv /\ FateInv /\ ClientsInv /\ [Next]_vars =>
          [\A c \in Clients : NoneCutOff /\ clients[c].ans = None /\ clients'[c].ans = MEMCR_OK =>
             IF clients[c].cmd = MEMCR_CHECKPOINT THEN targets[clients[c].pid] \in {"frozen", "adrift", "dead"}
             ELSE targets[clients[c].pid] \in {"running", "adrift", "dead"}]_vars
    BY Zenon, LeastHolds, OkMeans
  <1> QED
    BY <1>1, ClientsHolds, PTL DEF Spec, OkIsTrue

LEMMA KnownHolds == Roomy => (Spec => [](FateInv /\ DownInv /\ KnownInv))
  <1> SUFFICES ASSUME Roomy PROVE Spec => [](FateInv /\ DownInv /\ KnownInv)
    BY Zenon
  <1> DEFINE IInv == StopInv /\ CmdInv /\ DownInv /\ ClaimInv /\ KnownInv
  <1>1. Init => IInv
    <2> SUFFICES ASSUME Init PROVE IInv
      BY Zenon
    <2>1. /\ main.pc = "select" /\ ct.pc = "pop" /\ Len(queue) = 0
          /\ \A w \in Workers : workers[w].pc = "unused"
          /\ \A p \in Pids : targets[p] = "running"
      BY Zenon DEF Init, MainIdle, CtIdle, NoWorker, Q!Empty
    <2>2. ASSUME NEW p PROVE ~Claimed(p)
      BY <2>1 DEF Claimed, AtMain, MainBusy, InQueue, Forking, Clearing, Worked, Of
    <2>3. ASSUME NEW p PROVE ExclInv(p)
      BY SMTT(30), <2>1, <2>2 DEF ExclInv, Claimed, Of
    <2>4. ASSUME NEW p \in Pids PROVE ~Needs(p)
      BY Zenon, <2>1, <2>2 DEF Needs, Claimed, Of
    <2>5. ClaimInv
      BY Zenon, <2>2, <2>3 DEF ClaimInv
    <2>6. KnownInv
      BY Zenon, <2>2, <2>4 DEF KnownInv, Claimed
    <2> QED
      BY Zenon, <2>1, <2>5, <2>6 DEF StopInv, CmdInv, DownInv
  <1>2. Inv /\ WorldInv /\ FateInv /\ ClientsInv /\ IInv /\ [Next]_vars => IInv'
    BY Zenon, LeastHolds, StopNext, MainEnters, DownNext, ClaimNext, KnownNext DEF ClientsInv
  <1> QED
    BY <1>1, <1>2, ClientsHolds, PTL DEF Spec

\* With a row for every process and no command repeated, a frozen process has
\* its row from the moment a worker seizes it until it runs again or is killed,
\* whatever fails and however the threads interleave: can_restore_pid never
\* refuses the RESTORE it needs.
THEOREM FrozenIsKnownHolds == Roomy => (Spec => []FrozenIsKnown)
  <1>1. KnownInv => FrozenIsKnown
    BY Zenon DEF KnownInv, FrozenIsKnown, Needs
  <1> QED
    BY <1>1, KnownHolds, PTL

\* Under the same conditions cleanup_checkpointed_pids finds every process that
\* is frozen: none is left so when the daemon is down.
THEOREM NoFrozenLeftHolds == Roomy => (Spec => []NoFrozenLeft)
  <1>1. DownInv /\ KnownInv => NoFrozenLeft
    BY Zenon DEF DownInv, KnownInv, NoFrozenLeft, Needs
  <1> QED
    BY <1>1, KnownHolds, PTL

=============================================================================
