---------------------------- MODULE ServiceProofs ----------------------------
(* The table of the daemon stays well formed for any number of clients, pids, *)
(* workers, rows and queued commands, whatever the environment does.  Then    *)
(* what becomes of the targets: who keeps one frozen, which worker a RESTORE  *)
(* reaches, when a target is killed, and what an answer of a worker means.    *)
EXTENDS Service, TLAPS

-----------------------------------------------------------------------------
(* What each function of memcr.c that writes checkpoint_service_data          *)
(* preserves, for every size of the table: at most one row per pid, rows      *)
(* whose fields agree, and which command sockets it leaves in the table.      *)

\* A well-formed table.
Sound(t) ==
  /\ t \in [Rows -> Row]
  /\ UniquePids(t)
  /\ \A i \in Rows : RowAgrees(t[i])

\* Row i has a command socket in t only if it had the same one, for the same
\* pid, in s.
NoNewSd(s, t) ==
  \A i \in Rows : t[i].checkpoint_cmd_sd # SOCKET_INVALID =>
    t[i].checkpoint_cmd_sd = s[i].checkpoint_cmd_sd /\ t[i].pid = s[i].pid

\* Every nonempty set of numbers has a least element.  The lemmas that need it
\* assume it, and LeastHolds proves it: so only the module with the theorems has
\* to have the library's facts about well-founded relations in view.
Least == \A S \in SUBSET Nat : S # {} => Min(S) \in S

LEMMA MinElement ==
  ASSUME Least, NEW S \in SUBSET Nat, S # {}
  PROVE  Min(S) \in S
  BY Zenon DEF Least

LEMMA MinRow ==
  ASSUME Least, NEW S \in SUBSET Rows, S # {}
  PROVE  Min(S) \in S
  BY MinElement, LimitAssumption DEF Rows

-----------------------------------------------------------------------------
(* The daemon. *)

\* What the threads, the clients and the workers hold, by program counter.
MainLocals ==
  /\ main.pc = "read" => main.pid \in Pids /\ main.cd \in Fds
  /\ main.pc \in {"can_checkpoint", "init", "can_restore", "abort", "push", "unqueue"} =>
    main.cmd \in Commands /\ main.pid \in Pids /\ main.cd \in Fds

CtLocals ==
  /\ ct.pc \notin {"pop", "done"} => ct.pid \in Pids /\ ct.cd \in Fds
  /\ ct.pc \in {"set_checkpointing", "wait_checkpoint", "set_checkpointed", "connect", "wait_restore"}
       => ct.worker \in Workers
  /\ ct.pc = "wait_restore" => ct.rd \in Workers
  /\ ct.pc \in {"set_checkpointing", "wait_checkpoint", "set_checkpointed"} =>
       workers[ct.worker].pc # "unused" /\ workers[ct.worker].pid = ct.pid

ClientsOK(cs) ==
  /\ cs \in [Clients -> ClientState]
  /\ \A c \in Clients : cs[c].st \in {"connected", "backlog"} => cs[c].pid \in Pids

WorkersOK(ws) ==
  /\ ws \in [Workers -> WorkerState]
  /\ \A w \in Workers : ws[w].pc # "unused" => ws[w].pid \in Pids

\* Between can_checkpoint_pid and init_pid_checkpoint_data, which take the lock
\* one after the other, nobody gives the pid a row.
StillFree == main.pc = "init" => RowsOf(table, main.pid) = {}

TypeInv == TypeOK /\ MainLocals /\ CtLocals /\ ClientsOK(clients) /\ WorkersOK(workers)
Inv == TypeInv /\ OneRowPerPid /\ RowsAgree /\ AbortReachesItsWorker /\ StillFree

\* A worker that exists stays one, for the same pid.
Kept(ws, us) ==
  \A w \in Workers : ws[w].pc # "unused" => us[w].pc # "unused" /\ us[w].pid = ws[w].pid

-----------------------------------------------------------------------------
(* What a step of one process leaves alone. *)

WorkerStep(w) == Worker(w) \/ WorkerCrash(w) \/ sigchld_handler_service(w)

LEMMA WorkerFrame ==
  ASSUME NEW w \in Workers, WorkerStep(w)
  PROVE  UNCHANGED <<lock, queue, interrupt, main, ct, clients, fds>>
  BY Zenon DEF WorkerStep, Worker, WorkerCrash, sigchld_handler_service, WorkerSetup, WorkerSeize,
         WorkerDump, WorkerWatch, WorkerRespond, WorkerAccept, WorkerRestore, WorkerReply,
         WorkerEnd, daemon

LEMMA CtFrame == CommandThread => UNCHANGED <<main, lock, interrupt>>
  BY Zenon DEF CommandThread, CtPop, CtInterrupted, CtFork, CtForkFails, CtSetCheckpointing,
         CtCheckpointAnswered, CtCheckpointLost, CtSetCheckpointed, CtClear, CtClose, CtGetWorker,
         CtConnect, CtConnectFails, CtRestoreAnswered, CtRestoreLost, Q!PopFront

LEMMA MainFrame == Main \/ MainStop => UNCHANGED ct
  BY Zenon
     DEF Main, MainStop, MainAccept, MainAcceptSilent, MainRead, MainReject, MainCanCheckpoint,
         MainInit, MainCanRestore, MainAbort, MainPush, MainPushFull, MainUnqueue, MainJoin, MainCleanup, daemon

LEMMA OutsideFrame ==
  ASSUME (\E c \in Clients, cmd \in ClientCommands, p \in Pids : Connect(c, cmd, p))
           \/ (\E c \in Clients : ClientSend(c))
           \/ (\E p \in Pids : TargetKilled(p) \/ TargetStopped(p)) \/ UNCHANGED vars
  PROVE  UNCHANGED <<table, lock, queue, interrupt, main, ct, fds, rname, files>>
  BY Zenon DEF Connect, ClientSend, TargetKilled, TargetStopped, daemon, world, vars

-----------------------------------------------------------------------------
(* Workers. *)

LEMMA WorkersType ==
  TypeInv /\ [Next]_vars => WorkersOK(workers') /\ Kept(workers, workers')
  \* Writing the record of an existing worker, its pid kept.
  <1>WorkerWrite.
    ASSUME NEW ws, WorkersOK(ws), NEW w \in Workers, ws[w].pc # "unused",
           NEW r \in WorkerState, r.pid = ws[w].pid, r.pc # "unused",
           NEW us, us = [ws EXCEPT ![w] = r]
    PROVE  WorkersOK(us) /\ Kept(ws, us)
    BY Zenon, <1>WorkerWrite DEF WorkersOK, Kept
  <1>WorkerFields.
    ASSUME NEW ws, WorkersOK(ws), NEW w \in Workers, ws[w].pc # "unused",
           NEW pc \in Alive \cup Gone, NEW resp \in Codes \cup {None}
    PROVE  /\ WorkersOK([ws EXCEPT ![w].pc = pc]) /\ Kept(ws, [ws EXCEPT ![w].pc = pc])
           /\ WorkersOK([ws EXCEPT ![w].resp = resp]) /\ Kept(ws, [ws EXCEPT ![w].resp = resp])
           /\ WorkersOK([ws EXCEPT ![w].pc = pc, ![w].resp = resp])
           /\ Kept(ws, [ws EXCEPT ![w].pc = pc, ![w].resp = resp])
           /\ WorkersOK([ws EXCEPT ![w].abort = TRUE]) /\ Kept(ws, [ws EXCEPT ![w].abort = TRUE])
           /\ WorkersOK([ws EXCEPT ![w].conn = TRUE]) /\ Kept(ws, [ws EXCEPT ![w].conn = TRUE])
           /\ WorkersOK([ws EXCEPT ![w].pc = pc, ![w].conn = FALSE])
           /\ Kept(ws, [ws EXCEPT ![w].pc = pc, ![w].conn = FALSE])
    <2> USE <1>WorkerFields
    <2>1. ws[w] \in WorkerState BY Zenon DEF WorkersOK
    <2>2. "unused" \notin Alive \cup Gone BY Zenon DEF Alive, Gone
    <2>3. WorkersOK([ws EXCEPT ![w].pc = pc]) /\ Kept(ws, [ws EXCEPT ![w].pc = pc])
      BY Zenon, <2>1, <2>2, <1>WorkerWrite DEF WorkerState
    <2>4. WorkersOK([ws EXCEPT ![w].resp = resp]) /\ Kept(ws, [ws EXCEPT ![w].resp = resp])
      BY Zenon, <2>1, <2>2, <1>WorkerWrite DEF WorkerState
    <2>5. /\ WorkersOK([ws EXCEPT ![w].pc = pc, ![w].resp = resp])
          /\ Kept(ws, [ws EXCEPT ![w].pc = pc, ![w].resp = resp])
      BY <2>1, <2>2, <1>WorkerWrite DEF WorkerState
    <2>6. WorkersOK([ws EXCEPT ![w].abort = TRUE]) /\ Kept(ws, [ws EXCEPT ![w].abort = TRUE])
      BY Zenon, <2>1, <2>2, <1>WorkerWrite DEF WorkerState
    <2>7. WorkersOK([ws EXCEPT ![w].conn = TRUE]) /\ Kept(ws, [ws EXCEPT ![w].conn = TRUE])
      BY Zenon, <2>1, <2>2, <1>WorkerWrite DEF WorkerState
    <2>8. /\ WorkersOK([ws EXCEPT ![w].pc = pc, ![w].conn = FALSE])
          /\ Kept(ws, [ws EXCEPT ![w].pc = pc, ![w].conn = FALSE])
      BY <2>1, <2>2, <1>WorkerWrite DEF WorkerState
    <2> QED BY Zenon, <2>3, <2>4, <2>5, <2>6, <2>7, <2>8
  \* A worker whose target is killed, or that is killed itself, is a zombie.
  <1>BereavedOK.
    ASSUME NEW ws, WorkersOK(ws), NEW P
    PROVE  WorkersOK(Bereaved(ws, P)) /\ Kept(ws, Bereaved(ws, P))
    <2> USE <1>BereavedOK
    <2> DEFINE us == Bereaved(ws, P)
    <2>1. \A w \in Workers : us[w] = ws[w] \/ us[w] = [ws[w] EXCEPT !.pc = "zombie"] BY Zenon
                                                                                        DEF Bereaved
    <2>2. us = [w \in Workers |-> us[w]] BY Zenon DEF Bereaved
    <2>3. \A w \in Workers : us[w] # ws[w] => ws[w].pc # "unused" BY Zenon DEF Bereaved, Watching
    <2> HIDE DEF us
    <2>4. ASSUME NEW w \in Workers
          PROVE  /\ us[w] \in WorkerState
                 /\ us[w].pid = ws[w].pid
                 /\ us[w].pc = "unused" <=> ws[w].pc = "unused"
      <3>1. ws[w] \in WorkerState BY Zenon DEF WorkersOK
      <3>2. CASE us[w] = ws[w] BY <3>1, <3>2, Zenon
      <3>3. CASE us[w] # ws[w] BY ZenonT(40), <2>1, <2>3, <3>1, <3>3 DEF WorkerState, Gone
      <3> QED BY Zenon, <3>2, <3>3
    <2>5. us \in [Workers -> WorkerState] BY Zenon, <2>2, <2>4
    <2> QED BY Zenon, <2>4, <2>5 DEF WorkersOK, Kept, us
  <1>DispatchedOK.
    ASSUME NEW ws, WorkersOK(ws), NEW w \in Workers
    PROVE  WorkersOK(Dispatched(ws, w)) /\ Kept(ws, Dispatched(ws, w))
    <2> USE <1>DispatchedOK
    <2>1. Kept(ws, ws) BY Zenon DEF Kept
    <2>2. "zombie" \in Gone /\ "unused" \notin Alive BY Zenon DEF Gone, Alive
    <2> QED BY Zenon, <2>1, <2>2, <1>WorkerFields DEF Dispatched
  <1>KeptTrans.
    ASSUME NEW us, NEW vs, NEW ws, Kept(us, vs), Kept(vs, ws)
    PROVE  Kept(us, ws)
    BY Zenon, <1>KeptTrans DEF Kept
  <1>KillBothOK.
    ASSUME WorkersOK(workers), NEW p, NEW w \in Workers, KillBoth(p, w)
    PROVE  WorkersOK(workers') /\ Kept(workers, workers')
    BY Zenon, <1>KillBothOK, <1>BereavedOK, <1>DispatchedOK, <1>KeptTrans DEF KillBoth
  <1>AbortSentOK.
    ASSUME NEW ws, WorkersOK(ws), NEW w
    PROVE  WorkersOK(AbortSent(ws, w)) /\ Kept(ws, AbortSent(ws, w))
    <2> USE <1>AbortSentOK
    <2>1. Kept(ws, ws) BY Zenon DEF Kept
    <2>2. "unused" \notin Abortable /\ "zombie" \in Alive \cup Gone /\ None \in Codes \cup {None}
      BY Zenon DEF Abortable, Gone
    <2> QED BY Zenon, <2>1, <2>2, <1>WorkerFields DEF AbortSent
  <1> SUFFICES ASSUME TypeInv, [Next]_vars
               PROVE  WorkersOK(workers') /\ Kept(workers, workers')
    BY Zenon
  <1> DEFINE Goal == WorkersOK(workers') /\ Kept(workers, workers')
  <1>0. WorkersOK(workers) BY Zenon DEF TypeInv
  <1>c. MEMCR_OK \in Codes /\ MEMCR_ERROR_GENERAL \in Codes BY Zenon DEF Codes
  <1>p. /\ {"seize", "dump", "dumped", "ready", "failed", "accept", "restore", "restored",
            "unrestored", "ending", "zombie", "reaped"} \subseteq Alive \cup Gone
        /\ "unused" \notin Alive \cup Gone
    BY Zenon DEF Alive, Gone
  <1>1. CASE UNCHANGED workers BY Zenon, <1>0, <1>1 DEF Kept
  <1>2. CASE Main \/ MainStop
    <2>1. CASE MainAbort BY Zenon, <2>1, <1>0, <1>1, <1>AbortSentOK DEF MainAbort
    <2>2. CASE MainCleanup BY Zenon, <2>2, <1>0, <1>BereavedOK DEF MainCleanup
    <2>3. CASE ~(MainAbort \/ MainCleanup)
      <3>1. UNCHANGED workers
        BY Zenon, <1>2, <2>3
           DEF Main, MainStop, MainAccept, MainAcceptSilent, MainRead, MainReject,
               MainCanCheckpoint, MainInit, MainCanRestore, MainPush, MainPushFull, MainUnqueue, MainJoin, world
      <3> QED BY Zenon, <1>1, <3>1
    <2> QED BY Zenon, <2>1, <2>2, <2>3
  <1>3. CASE CommandThread
    <2>1. CASE CtFork
      <3>1. PICK w \in Workers :
              /\ workers[w].pc = "unused"
              /\ workers' = [workers EXCEPT ![w] = [NoWorker EXCEPT !.pc = "setup", !.pid = ct.pid]]
        BY Zenon, <2>1 DEF CtFork
      <3>2. ct.pid \in Pids BY Zenon, <2>1 DEF CtFork, TypeInv, CtLocals
      <3> DEFINE r == [NoWorker EXCEPT !.pc = "setup", !.pid = ct.pid]
      <3>3. r \in WorkerState /\ r.pid = ct.pid BY Zenon, <3>2 DEF NoWorker, WorkerState, Alive
      <3> HIDE DEF r
      <3>4. workers' = [workers EXCEPT ![w] = r] BY Zenon, <3>1 DEF r
      <3> QED BY Zenon, <1>0, <3>1, <3>2, <3>3, <3>4 DEF WorkersOK, Kept
    <2>2. CASE CtSetCheckpointing BY Zenon, <2>2, <1>0, <1>1, <1>AbortSentOK DEF CtSetCheckpointing
    <2>3. CASE CtCheckpointAnswered
      <3>1. ct.worker \in Workers /\ workers[ct.worker].pc # "unused"
        BY Zenon, <2>3 DEF CtCheckpointAnswered, TypeInv, CtLocals
      <3> QED BY Zenon, <2>3, <3>1, <1>0, <1>p, <1>WorkerFields DEF CtCheckpointAnswered
    <2>4. CASE CtRestoreAnswered
      <3>1. ct.rd \in Workers BY Zenon, <2>4 DEF CtRestoreAnswered, TypeInv, CtLocals
      <3>2. CASE workers[ct.rd].pc # "unused"
        BY Zenon, <2>4, <3>1, <3>2, <1>0, <1>p, <1>WorkerFields DEF CtRestoreAnswered
      <3>3. CASE workers[ct.rd].pc = "unused"
        BY <2>4, <3>1, <3>3, <1>0 DEF CtRestoreAnswered, WorkersOK, Kept, WorkerState
      <3> QED BY Zenon, <3>2, <3>3
    <2>5. CASE CtCheckpointLost \/ CtConnectFails \/ CtRestoreLost
      <3>1. ct.worker \in Workers
        BY Zenon, <2>5 DEF CtCheckpointLost, CtConnectFails, CtRestoreLost, TypeInv, CtLocals
      <3>2. KillBoth(ct.pid, ct.worker) BY Zenon, <2>5
                                           DEF CtCheckpointLost, CtConnectFails, CtRestoreLost
      <3> QED BY Zenon, <1>0, <3>1, <3>2, <1>KillBothOK
    <2>6. CASE CtConnect
      <3>1. /\ rname[ct.pid] \in Workers
            /\ workers[rname[ct.pid]].pc # "unused"
            /\ workers' = [workers EXCEPT ![rname[ct.pid]].conn = TRUE]
        BY Zenon, <2>6 DEF CtConnect, Reachable, Listening, Alive, TypeInv, TypeOK, CtLocals
      <3> QED BY Zenon, <1>0, <1>p, <3>1, <1>WorkerFields
    <2>7. CASE CtPop \/ CtInterrupted \/ CtForkFails \/ CtSetCheckpointed \/ CtClear \/ CtClose
               \/ CtGetWorker
      BY Zenon, <2>7, <1>1
         DEF CtPop, CtInterrupted, CtForkFails, CtSetCheckpointed, CtClear, CtClose,
                        CtGetWorker, world
    <2> QED BY Zenon, <1>3, <2>5, <2>1, <2>2, <2>3, <2>4, <2>6, <2>7 DEF CommandThread
  <1>4. ASSUME NEW w \in Workers, WorkerStep(w) PROVE Goal
    <2>0. ASSUME NEW pc \in Alive \cup Gone, workers[w].pc # "unused", WorkerTo(w, pc) PROVE Goal
      BY Zenon, <2>0, <1>0, <1>WorkerFields DEF WorkerTo
    <2>1. CASE WorkerSetup(w) BY Zenon, <2>0, <2>1, <1>p DEF WorkerSetup
    <2>2. ASSUME CheckpointFails(w), workers[w].pc # "unused" PROVE Goal
      <3> DEFINE ws == Bereaved(workers, {workers[w].pid})
      <3>1. WorkersOK(ws) /\ Kept(workers, ws) BY Zenon, <1>0, <1>BereavedOK
      <3>2. workers' = [ws EXCEPT ![w].pc = "failed"] BY Zenon, <2>2 DEF CheckpointFails
      <3> HIDE DEF ws
      <3>3. ws[w].pc # "unused" BY Zenon, <2>2, <3>1 DEF Kept
      <3> QED BY Zenon, <3>1, <3>2, <3>3, <1>p, <1>WorkerFields, <1>KeptTrans
    <2>3. CASE WorkerSeize(w) BY Zenon, <2>0, <2>2, <2>3, <1>p DEF WorkerSeize
    <2>4. CASE WorkerDump(w) BY Zenon, <2>0, <2>2, <2>4, <1>p DEF WorkerDump
    <2>5. CASE WorkerWatch(w) \/ WorkerEnd(w) \/ WorkerCrash(w) \/ sigchld_handler_service(w)
      BY Zenon, <2>0, <2>5, <1>p DEF WorkerWatch, WorkerEnd, WorkerCrash, sigchld_handler_service
    <2>6. CASE WorkerRestore(w) BY Zenon, <2>0, <2>6, <1>p DEF WorkerRestore
    <2>7. CASE WorkerRespond(w)
      BY Zenon, <2>7, <1>0, <1>c, <1>p, <1>WorkerFields DEF WorkerRespond
    <2>8. CASE WorkerReply(w)
      BY Zenon, <2>8, <1>0, <1>c, <1>p, <1>WorkerFields DEF WorkerReply
    <2>9. CASE WorkerAccept(w) BY Zenon, <2>9, <1>0, <1>p, <1>WorkerFields DEF WorkerAccept
    <2> QED BY Zenon, <1>4, <2>1, <2>3, <2>4, <2>5, <2>6, <2>7, <2>8, <2>9 DEF WorkerStep, Worker
  <1>5. CASE \E p \in Pids : TargetKilled(p) \/ TargetStopped(p)
    <2>1. PICK p \in Pids : workers' = Bereaved(workers, {p})
      BY Zenon, <1>5 DEF TargetKilled, TargetStopped
    <2> QED BY Zenon, <2>1, <1>0, <1>BereavedOK
  <1>6. CASE \/ UNCHANGED vars
             \/ \E c \in Clients, cmd \in ClientCommands, p \in Pids : Connect(c, cmd, p)
             \/ \E c \in Clients : ClientSend(c)
    BY Zenon, <1>6, <1>1 DEF vars, Connect, ClientSend, world
  <1> QED BY Zenon, <1>2, <1>3, <1>4, <1>5, <1>6 DEF Next, WorkerStep

-----------------------------------------------------------------------------
(* The type invariant, the table's part aside. *)

LEMMA TypeNext ==
  Least /\ TypeInv /\ [Next]_vars /\ table' \in [Rows -> Row] => TypeInv'
  <1>FdOfAccept.
    Least /\ FreeFds # {} => Min(FreeFds) \in Fds
    <2>1. Fds \subseteq Nat BY DEF Fds
    <2> QED BY Zenon, <2>1, MinElement DEF FreeFds
  <1>MainType.
    ASSUME Least, TypeInv, [Next]_vars
    PROVE  main' \in MainState /\ MainLocals'
    <2> USE <1>MainType
    <2> USE DEF MainLocals, MainState
    <2>0. main \in MainState /\ MainLocals BY Zenon DEF TypeInv, TypeOK
    <2>1. CASE UNCHANGED main BY Zenon, <2>0, <2>1
    <2>2. ASSUME NEW c \in Clients, MainAccept(c) PROVE main' \in MainState /\ MainLocals'
      <3>1. clients[c].cmd \in Commands /\ clients[c].pid \in Pids
        BY Zenon, <2>2 DEF MainAccept, TypeInv, ClientsOK
      <3>2. FreeFds # {} BY Zenon, <2>2 DEF MainAccept
      <3>3. main' = [pc |-> Served(clients[c].cmd), cmd |-> clients[c].cmd, pid |-> clients[c].pid,
                     cd |-> Min(FreeFds)]
        BY Zenon, <2>2 DEF MainAccept
      <3> QED BY Zenon, <3>1, <3>2, <3>3, <1>FdOfAccept DEF Served
    <2>7. ASSUME NEW c \in Clients, MainAcceptSilent(c) PROVE main' \in MainState /\ MainLocals'
      <3>1. clients[c] \in ClientState /\ clients[c].pid \in Pids
        BY Zenon, <2>7 DEF MainAcceptSilent, TypeInv, ClientsOK
      <3>2. Min(FreeFds) \in Fds BY Zenon, <2>7, <1>FdOfAccept DEF MainAcceptSilent
      <3>3. main' = [pc |-> "read", cmd |-> clients[c].cmd, pid |-> clients[c].pid, cd |-> Min(FreeFds)]
        BY Zenon, <2>7 DEF MainAcceptSilent
      <3> QED BY Zenon, <3>1, <3>2, <3>3 DEF ClientState
    <2>8. CASE main.pc = "read" /\ main.cmd \in Commands /\ MainTo(Served(main.cmd))
      BY Zenon, <2>0, <2>8 DEF MainTo, Served
    <2>3. CASE MainDone BY Zenon, <2>3 DEF MainDone, MainIdle
    <2>4. CASE \E pc \in {"init", "abort", "push", "unqueue"} :
                 /\ main.pc \in {"can_checkpoint", "init", "can_restore", "abort", "push"}
                 /\ MainTo(pc)
      BY Zenon, <2>0, <2>4 DEF MainTo
    <2>5. CASE \E pc \in {"join", "cleanup", "down"} : MainTo(pc)
      BY Zenon, <2>0, <2>5 DEF MainTo
    <2>6. Main \/ MainStop =>
            \/ \E c \in Clients : MainAccept(c) \/ MainAcceptSilent(c)
            \/ main.pc = "read" /\ main.cmd \in Commands /\ MainTo(Served(main.cmd))
            \/ UNCHANGED main
            \/ MainDone
            \/ \E pc \in {"init", "abort", "push", "unqueue"} :
                 main.pc \in {"can_checkpoint", "init", "can_restore", "abort", "push"} /\ MainTo(pc)
            \/ \E pc \in {"join", "cleanup", "down"} : MainTo(pc)
      BY Zenon
         DEF Main, MainStop, MainRead, MainReject, MainCanCheckpoint, MainInit, MainCanRestore,
             MainAbort, MainPush, MainPushFull, MainUnqueue, MainJoin, MainCleanup, daemon
    <2> QED BY Zenon, <2>5, <2>1, <2>2, <2>3, <2>4, <2>6, <2>7, <2>8, WorkerFrame, CtFrame,
               OutsideFrame
            DEF Next, WorkerStep
  \* A response or the end of the stream leaves a client what it was.
  <1>ToldOK.
    ASSUME TypeInv, NEW fd \in Fds, NEW code \in Codes \cup {"eof"}
    PROVE  ClientsOK(Told(fd, code))
    <2> USE <1>ToldOK
    <2>1. fds[fd] = None \/ fds[fd] \in Clients BY Zenon DEF TypeInv, TypeOK
    <2>2. ClientsOK(clients) BY Zenon DEF TypeInv
    <2> QED BY <2>1, <2>2 DEF Told, ClientsOK, ClientState
  <1>ReleasedOK.
    ASSUME TypeInv, NEW fd \in Fds, Released(fd)
    PROVE  fds' \in [Fds -> Clients \cup {None}]
    BY Zenon, <1>ReleasedOK DEF Released, TypeInv, TypeOK
  <1>RespondOK.
    ASSUME TypeInv, NEW fd \in Fds, NEW code \in Codes,
           RespondAndClose(fd, code) \/ Close(fd)
    PROVE  ClientsOK(clients)' /\ fds' \in [Fds -> Clients \cup {None}]
    <2> USE <1>RespondOK
    <2>1. Released(fd) BY Zenon DEF RespondAndClose, Close
    <2>2. clients' = Told(fd, code) \/ clients' = Told(fd, "eof")
      BY Zenon DEF RespondAndClose, Close, send_response_to_client
    <2> QED BY Zenon, <2>1, <2>2, <1>ToldOK, <1>ReleasedOK DEF ClientsOK
  \* A response of a worker is a code.
  <1>RespIsCode.
    ASSUME TypeInv, NEW w \in Workers, Answered(w)
    PROVE  workers[w].resp \in Codes
    BY Zenon, <1>RespIsCode DEF TypeInv, TypeOK, WorkerState, Answered
  <1>ClientsType.
    ASSUME Least, TypeInv, [Next]_vars
    PROVE  ClientsOK(clients)' /\ fds' \in [Fds -> Clients \cup {None}]
    <2> USE <1>ClientsType
    <2> DEFINE Goal == ClientsOK(clients)' /\ fds' \in [Fds -> Clients \cup {None}]
    <2>0. ClientsOK(clients) /\ fds \in [Fds -> Clients \cup {None}] BY Zenon DEF TypeInv, TypeOK
    <2>c. MEMCR_OK \in Codes /\ MEMCR_ERROR_GENERAL \in Codes /\ MEMCR_INVALID_PID \in Codes
      BY Zenon DEF Codes
    <2>m. main.pc \in {"read", "can_checkpoint", "can_restore", "push", "unqueue"} => main.cd \in Fds
      BY Zenon DEF TypeInv, MainLocals
    <2>t. ct.pc \notin {"pop", "done"} => ct.cd \in Fds BY Zenon DEF TypeInv, CtLocals
    <2>1. CASE UNCHANGED <<clients, fds>> BY Zenon, <2>0, <2>1 DEF ClientsOK
    <2>2. ASSUME NEW c \in Clients, NEW cmd \in ClientCommands, NEW p \in Pids, Connect(c, cmd, p)
          PROVE Goal
      <3>1. cmd \in Commands \cup {"hangup", "other", None} BY Zenon DEF ClientCommands
      <3> QED BY <2>0, <2>2, <3>1 DEF Connect, ClientsOK, ClientState
    <2>3. ASSUME NEW c \in Clients, MainAccept(c) \/ MainAcceptSilent(c) PROVE Goal
      <3>1. Min(FreeFds) \in Fds BY Zenon, <2>3, <1>FdOfAccept DEF MainAccept, MainAcceptSilent
      <3>2. PICK fd \in Fds : fds' = [fds EXCEPT ![fd] = c]
        BY Zenon, <2>3, <3>1 DEF MainAccept, MainAcceptSilent
      <3>3. PICK st \in {"accepted", "opened"} : clients' = [clients EXCEPT ![c].st = st]
        BY Zenon, <2>3 DEF MainAccept, MainAcceptSilent
      <3>4. ClientsOK(clients)' BY <2>0, <3>3 DEF ClientsOK, ClientState
      <3>5. fds' \in [Fds -> Clients \cup {None}] BY Zenon, <2>0, <3>2
      <3> QED BY Zenon, <3>4, <3>5
    <2>4. ASSUME NEW c \in Clients, MainReject(c) PROVE Goal
      <3>1. PICK ans \in Codes \cup {"eof"} :
              clients' = [clients EXCEPT ![c].st = "accepted", ![c].ans = ans]
        BY Zenon, <2>4, <2>c DEF MainReject
      <3>2. clients \in [Clients -> ClientState] BY Zenon, <2>0 DEF ClientsOK
      <3> DEFINE cl == [clients[c] EXCEPT !.st = "accepted", !.ans = ans]
      <3>3. cl \in ClientState /\ cl.st \notin {"connected", "backlog"} BY Zenon, <3>2
                                                                           DEF ClientState
      <3>4. clients' = [clients EXCEPT ![c] = cl] BY Zenon, <3>1, <3>2
      <3> HIDE DEF cl
      <3>5. ClientsOK(clients)' BY Zenon, <2>0, <3>3, <3>4 DEF ClientsOK
      <3> QED BY Zenon, <2>0, <2>4, <3>5 DEF MainReject
    <2>5. ASSUME NEW fd \in Fds, NEW code \in Codes, RespondAndClose(fd, code) \/ Close(fd) PROVE Goal
      BY Zenon, <2>5, <1>RespondOK
    <2>6. ASSUME NEW fd \in Fds, NEW code \in Codes, send_response_to_client(fd, code), UNCHANGED fds
          PROVE Goal
      BY Zenon, <2>0, <2>6, <1>ToldOK DEF send_response_to_client, ClientsOK
    <2>7. Main \/ MainStop => Goal
      <3>1. CASE MainCanCheckpoint BY Zenon, <3>1, <2>1, <2>5, <2>c, <2>m DEF MainCanCheckpoint
      <3>2. CASE MainCanRestore BY Zenon, <3>2, <2>1, <2>5, <2>c, <2>m DEF MainCanRestore
      <3>3. CASE MainPushFull BY Zenon, <3>3, <2>1, <2>5, <2>c, <2>m DEF MainPushFull
      <3>4. CASE MainUnqueue BY Zenon, <3>4, <2>5, <2>c, <2>m DEF MainUnqueue
      <3>5. CASE MainInit \/ MainAbort \/ MainPush \/ MainStop \/ MainJoin \/ MainCleanup
        BY Zenon, <3>5, <2>1 DEF MainInit, MainAbort, MainPush, MainStop, MainJoin, MainCleanup
      <3>6. CASE MainRead BY Zenon, <3>6, <2>1, <2>5, <2>c, <2>m DEF MainRead
      <3> QED BY Zenon, <3>1, <3>2, <3>3, <3>4, <3>5, <3>6, <2>3, <2>4 DEF Main
    <2>8. CommandThread => Goal
      <3>1. CASE CtCheckpointAnswered
        <4>1. ct.worker \in Workers BY Zenon, <3>1 DEF CtCheckpointAnswered, TypeInv, CtLocals
        <4> QED BY Zenon, <3>1, <4>1, <2>6, <2>t, <1>RespIsCode DEF CtCheckpointAnswered
      <3>2. CASE CtRestoreAnswered
        <4>1. ct.rd \in Workers BY Zenon, <3>2 DEF CtRestoreAnswered, TypeInv, CtLocals
        <4> QED BY Zenon, <3>2, <4>1, <2>6, <2>t, <1>RespIsCode DEF CtRestoreAnswered
      <3>3. CASE CtCheckpointLost \/ CtConnectFails \/ CtRestoreLost
        BY Zenon, <3>3, <2>6, <2>c, <2>t DEF CtCheckpointLost, CtConnectFails, CtRestoreLost
      <3>4. CASE CtClose BY Zenon, <3>4, <2>5, <2>c, <2>t DEF CtClose
      <3>5. CASE CtGetWorker BY Zenon, <3>5, <2>1, <2>5, <2>c, <2>t DEF CtGetWorker
      <3>6. CASE CtPop \/ CtInterrupted \/ CtFork \/ CtForkFails \/ CtSetCheckpointing
                 \/ CtSetCheckpointed \/ CtClear \/ CtConnect
        BY Zenon, <3>6, <2>1 DEF CtPop, CtInterrupted, CtFork, CtForkFails, CtSetCheckpointing,
                          CtSetCheckpointed, CtClear, CtConnect
      <3> QED BY Zenon, <3>1, <3>2, <3>3, <3>4, <3>5, <3>6 DEF CommandThread
    <2>9. CASE (\E p \in Pids : TargetKilled(p) \/ TargetStopped(p)) \/ UNCHANGED vars
      BY Zenon, <2>9, <2>1 DEF TargetKilled, TargetStopped, vars
    <2>10. ASSUME NEW c \in Clients, ClientSend(c) PROVE Goal
      BY <2>0, <2>10 DEF ClientSend, ClientsOK, ClientState
    <2> QED BY Zenon, <2>1, <2>2, <2>7, <2>8, <2>9, <2>10, WorkerFrame DEF Next, WorkerStep
  <1>QueueType.
    ASSUME TypeInv, [Next]_vars
    PROVE  queue' \in Seq(SvcCtx) /\ interrupt' \in BOOLEAN /\ lock' \in {"free", "main"}
    <2> USE <1>QueueType
    <2> DEFINE Goal == queue' \in Seq(SvcCtx) /\ interrupt' \in BOOLEAN /\ lock' \in {"free", "main"}
    <2>0. queue \in Seq(SvcCtx) /\ interrupt \in BOOLEAN /\ lock \in {"free", "main"}
      BY Zenon DEF TypeInv, TypeOK
    <2>1. CASE UNCHANGED <<queue, interrupt, lock>> BY Zenon, <2>0, <2>1
    <2>2. CASE MainPush
      <3>1. SvcCtxOf(main) \in SvcCtx BY Zenon, <2>2
                                         DEF MainPush, TypeInv, MainLocals, SvcCtxOf, SvcCtx
      <3>2. queue' = Append(queue, SvcCtxOf(main)) /\ UNCHANGED <<interrupt, lock>>
        BY Zenon, <2>2 DEF MainPush, Q!PushBack
      <3> QED BY <2>0, <3>1, <3>2
    <2>3. CASE MainStop BY Zenon, <2>0, <2>3 DEF MainStop, Q!Interrupt
    <2>4. CASE MainAbort BY Zenon, <2>0, <2>4 DEF MainAbort
    <2>5. CASE CtPop
      <3>1. queue # <<>> /\ queue' = Tail(queue) /\ UNCHANGED <<interrupt, lock>>
        BY Zenon, <2>5 DEF CtPop, Q!PopFront
      <3> QED BY <2>0, <3>1
    <2>6. CASE Main /\ ~MainPush /\ ~MainAbort
      <3>1. UNCHANGED <<queue, interrupt, lock>>
        BY Zenon, <2>6
           DEF Main, MainAccept, MainAcceptSilent, MainRead, MainReject, MainCanCheckpoint,
                    MainInit, MainCanRestore, MainPushFull, MainUnqueue, MainJoin, MainCleanup, daemon
      <3> QED BY Zenon, <2>1, <3>1
    <2>7. CASE CommandThread /\ ~CtPop
      <3>1. UNCHANGED queue
        BY Zenon, <2>7 DEF CommandThread, CtInterrupted, CtFork, CtForkFails, CtSetCheckpointing,
                    CtCheckpointAnswered, CtCheckpointLost, CtSetCheckpointed, CtClear, CtClose,
                    CtGetWorker, CtConnect, CtConnectFails, CtRestoreAnswered, CtRestoreLost
      <3> QED BY Zenon, <2>1, <2>7, <3>1, CtFrame
    <2> QED BY Zenon, <2>5, <2>1, <2>2, <2>3, <2>4, <2>6, <2>7, WorkerFrame, OutsideFrame
               DEF Next, WorkerStep
  <1>GetWorkerType.
    ASSUME Least, NEW t \in [Rows -> Row], NEW p
    PROVE  get_pid_worker(t, p) \in Workers \cup {PID_INVALID}
    <2> USE <1>GetWorkerType
    <2>1. RowsOf(t, p) \in SUBSET Rows BY Zenon DEF RowsOf
    <2> QED BY Zenon, <2>1, MinRow DEF get_pid_worker, Row
  <1>CtType.
    ASSUME Least, TypeInv, [Next]_vars
    PROVE  ct' \in CtState /\ CtLocals'
    <2> USE <1>CtType
    <2> DEFINE Goal == ct' \in CtState /\ CtLocals'
    <2>0. ct \in CtState /\ CtLocals BY Zenon DEF TypeInv, TypeOK
    <2>k. Kept(workers, workers') BY Zenon, WorkersType
    <2>1. CASE UNCHANGED ct BY Zenon, <2>0, <2>1, <2>k DEF CtLocals, Kept
    <2>2. CASE CtPop
      <3>1. Head(queue) \in SvcCtx BY <2>2 DEF CtPop, Q!PopFront, TypeInv, TypeOK
      <3>2. ct' = [pc |-> IF Head(queue).cmd = MEMCR_CHECKPOINT THEN "fork" ELSE "get_worker",
                   pid |-> Head(queue).pid, cd |-> Head(queue).cd, worker |-> None, rd |-> None]
        BY Zenon, <2>2 DEF CtPop, CtIdle
      <3>3. Head(queue).pid \in Pids /\ Head(queue).cd \in Fds BY Zenon, <3>1 DEF SvcCtx
      <3> QED BY Zenon, <3>2, <3>3 DEF CtState, CtLocals
    <2>3. CASE CtInterrupted BY Zenon, <2>0, <2>3 DEF CtInterrupted, CtTo, CtState, CtLocals
    <2>4. CASE CtFork
      <3>1. PICK w \in Workers :
              /\ workers[w].pc = "unused"
              /\ workers' = [workers EXCEPT ![w] = [NoWorker EXCEPT !.pc = "setup", !.pid = ct.pid]]
              /\ ct' = [ct EXCEPT !.pc = "set_checkpointing", !.worker = w]
        BY Zenon, <2>4 DEF CtFork
      <3>2. workers'[w].pc # "unused" /\ workers'[w].pid = ct.pid
        BY Zenon, <3>1 DEF TypeInv, TypeOK, NoWorker
      <3>3. ct.pid \in Pids /\ ct.cd \in Fds BY Zenon, <2>4 DEF CtFork, TypeInv, CtLocals
      <3> QED BY Zenon, <2>0, <3>1, <3>2, <3>3 DEF CtState, CtLocals
    <2>5. CASE CtForkFails BY Zenon, <2>0, <2>5 DEF CtForkFails, CtTo, CtState, CtLocals
    <2>6. CASE CtSetCheckpointing \/ CtCheckpointAnswered
      <3>1. PICK pc \in {"wait_checkpoint", "set_checkpointed", "clear"} : ct' = [ct EXCEPT !.pc = pc]
        BY Zenon, <2>6 DEF CtSetCheckpointing, CtCheckpointAnswered, CtTo
      <3>2. ct.pc \in {"set_checkpointing", "wait_checkpoint"}
        BY Zenon, <2>6 DEF CtSetCheckpointing, CtCheckpointAnswered
      <3> QED BY Zenon, <2>0, <2>k, <3>1, <3>2 DEF CtState, CtLocals, Kept
    <2>7. CASE CtCheckpointLost \/ CtConnectFails \/ CtRestoreLost \/ CtRestoreAnswered
               \/ CtSetCheckpointed \/ CtClear
      <3>1. PICK pc \in {"clear", "close"} : ct' = [ct EXCEPT !.pc = pc]
        BY Zenon, <2>7 DEF CtCheckpointLost, CtConnectFails, CtRestoreLost, CtRestoreAnswered,
                    CtSetCheckpointed, CtClear, CtTo
      <3>2. ct.pc \notin {"pop", "done"}
        BY Zenon, <2>7 DEF CtCheckpointLost, CtConnectFails, CtRestoreLost, CtRestoreAnswered,
                    CtSetCheckpointed, CtClear
      <3> QED BY Zenon, <2>0, <3>1, <3>2 DEF CtState, CtLocals
    <2>8. CASE CtClose BY Zenon, <2>8 DEF CtClose, CtIdle, CtState, CtLocals
    <2>9. CASE CtGetWorker
      <3>1. get_pid_worker(table, ct.pid) \in Workers \cup {PID_INVALID}
        BY Zenon, <1>GetWorkerType DEF TypeInv, TypeOK
      <3>2. \/ ct' = [ct EXCEPT !.pc = "close"]
            \/ \E w \in Workers : ct' = [ct EXCEPT !.pc = "connect", !.worker = w]
        BY Zenon, <2>9, <3>1 DEF CtGetWorker, CtTo
      <3>3. ct.pid \in Pids /\ ct.cd \in Fds BY Zenon, <2>9 DEF CtGetWorker, TypeInv, CtLocals
      <3> QED BY Zenon, <2>0, <3>2, <3>3 DEF CtState, CtLocals
    <2>10. CASE CtConnect
      <3>1. rname[ct.pid] \in Workers
        BY Zenon, <2>10 DEF CtConnect, Reachable, TypeInv, TypeOK, CtLocals
      <3>2. ct' = [ct EXCEPT !.pc = "wait_restore", !.rd = rname[ct.pid]] BY Zenon, <2>10
                                                                             DEF CtConnect
      <3>3. ct.pid \in Pids /\ ct.cd \in Fds /\ ct.worker \in Workers
        BY Zenon, <2>10 DEF CtConnect, TypeInv, CtLocals
      <3> QED BY Zenon, <2>0, <3>1, <3>2, <3>3 DEF CtState, CtLocals
    <2>11. CommandThread => Goal
      BY Zenon, <2>2, <2>3, <2>4, <2>5, <2>6, <2>7, <2>8, <2>9, <2>10 DEF CommandThread
    <2> QED BY Zenon, <2>1, <2>11, MainFrame, WorkerFrame, OutsideFrame DEF Next, WorkerStep
  <1>KilledType.
    ASSUME TypeInv, NEW P
    PROVE  Killed(P) \in [Pids -> {"running", "frozen", "lost", "adrift", "dead"}]
    BY Zenon, <1>KilledType DEF Killed, TypeInv, TypeOK
  <1>CleanupType.
    ASSUME TypeInv, NEW P, cleanup_pid(P)
    PROVE  rname' \in [Pids -> Workers \cup {None}] /\ files' \subseteq Pids
    BY Zenon, <1>CleanupType DEF cleanup_pid, TypeInv, TypeOK
  <1>WorldType.
    ASSUME TypeInv, [Next]_vars
    PROVE  /\ targets' \in [Pids -> {"running", "frozen", "lost", "adrift", "dead"}]
           /\ rname' \in [Pids -> Workers \cup {None}]
           /\ files' \subseteq Pids
    <2> USE <1>WorldType
    <2> DEFINE Goal == /\ targets' \in [Pids -> {"running", "frozen", "lost", "adrift", "dead"}]
                       /\ rname' \in [Pids -> Workers \cup {None}]
                       /\ files' \subseteq Pids
    <2>0. /\ targets \in [Pids -> {"running", "frozen", "lost", "adrift", "dead"}]
          /\ rname \in [Pids -> Workers \cup {None}]
          /\ files \subseteq Pids
      BY Zenon DEF TypeInv, TypeOK
    <2>1. CASE UNCHANGED <<targets, rname, files>> BY Zenon, <2>0, <2>1
    <2>2. CASE MainCleanup BY Zenon, <2>2, <1>KilledType, <1>CleanupType DEF MainCleanup
    <2>3. CASE CtCheckpointLost \/ CtConnectFails \/ CtRestoreLost
      BY Zenon, <2>3, <1>KilledType, <1>CleanupType
         DEF CtCheckpointLost, CtConnectFails, CtRestoreLost, KillBoth
    <2>4. CASE (Main \/ MainStop) /\ ~MainCleanup
      <3>1. UNCHANGED <<targets, rname, files>>
        BY Zenon, <2>4 DEF Main, MainStop, MainAccept, MainAcceptSilent, MainRead, MainReject,
                    MainCanCheckpoint, MainInit, MainCanRestore, MainAbort, MainPush, MainPushFull, MainUnqueue, MainJoin, world
      <3> QED BY Zenon, <2>1, <3>1
    <2>5. CASE CommandThread /\ ~(CtCheckpointLost \/ CtConnectFails \/ CtRestoreLost)
      <3>1. UNCHANGED <<targets, rname, files>>
        BY Zenon, <2>5
           DEF CommandThread, CtPop, CtInterrupted, CtFork, CtForkFails, CtSetCheckpointing,
                    CtCheckpointAnswered, CtSetCheckpointed, CtClear, CtClose, CtGetWorker, CtConnect,
                    CtRestoreAnswered, world
      <3> QED BY Zenon, <2>1, <3>1
    <2>6. ASSUME NEW w \in Workers, WorkerStep(w) PROVE Goal
      <3>1. workers[w].pc # "unused" => workers[w].pid \in Pids BY Zenon DEF TypeInv, WorkersOK
      <3>2. CASE WorkerSetup(w) BY <2>0, <3>2 DEF WorkerSetup
      <3>3. CheckpointFails(w) => Goal BY Zenon, <1>KilledType, <1>CleanupType DEF CheckpointFails
      <3>4. CASE WorkerSeize(w) BY Zenon, <2>0, <3>3, <3>4 DEF WorkerSeize, Becomes
      <3>5. CASE WorkerDump(w) BY Zenon, <2>0, <3>1, <3>3, <3>5 DEF WorkerDump
      <3>6. CASE WorkerRestore(w)
        <4>1. targets' \in [Pids -> {"running", "frozen", "lost", "adrift", "dead"}]
          BY Zenon, <2>0, <3>6, <1>KilledType DEF WorkerRestore, Becomes
        <4> QED BY Zenon, <3>6, <4>1, <1>CleanupType DEF WorkerRestore
      <3>7. CASE WorkerEnd(w) BY Zenon, <2>0, <3>7 DEF WorkerEnd
      <3>8. CASE WorkerCrash(w) BY Zenon, <2>0, <3>8 DEF WorkerCrash
      <3>9. CASE sigchld_handler_service(w)
        BY Zenon, <2>0, <3>9, <1>CleanupType DEF sigchld_handler_service
      <3>10. CASE WorkerWatch(w) \/ WorkerRespond(w) \/ WorkerAccept(w) \/ WorkerReply(w)
        BY Zenon, <2>1, <3>10 DEF WorkerWatch, WorkerRespond, WorkerAccept, WorkerReply
      <3> QED BY Zenon, <2>6, <3>2, <3>4, <3>5, <3>6, <3>7, <3>8, <3>9, <3>10 DEF WorkerStep, Worker
    <2>7. CASE \E p \in Pids : TargetKilled(p) \/ TargetStopped(p)
      BY Zenon, <2>0, <2>7, <1>KilledType DEF TargetKilled, TargetStopped
    <2>8. CASE \/ UNCHANGED vars
               \/ \E c \in Clients, cmd \in ClientCommands, p \in Pids : Connect(c, cmd, p)
               \/ \E c \in Clients : ClientSend(c)
      BY Zenon, <2>1, <2>8 DEF vars, Connect, ClientSend, world
    <2> QED BY Zenon, <2>2, <2>3, <2>4, <2>5, <2>6, <2>7, <2>8 DEF Next, WorkerStep
  <1> SUFFICES ASSUME Least, TypeInv, [Next]_vars, table' \in [Rows -> Row]
               PROVE  TypeInv'
    BY Zenon
  <1> QED
    BY Zenon, <1>MainType, <1>ClientsType, WorkersType, <1>QueueType, <1>CtType, <1>WorldType
       DEF TypeInv, TypeOK, ClientsOK, WorkersOK

LEMMA InvSound == Inv => Sound(table)
  BY Zenon DEF Inv, TypeInv, TypeOK, OneRowPerPid, RowsAgree, Sound

LEMMA TableNext ==
  Least /\ Inv /\ [Next]_vars => Sound(table') /\ AbortReachesItsWorker' /\ StillFree'
  <1>ClearedRow.
    ASSUME NEW row \in Row
    PROVE  /\ Cleared(row) \in Row
           /\ RowAgrees(Cleared(row))
           /\ Cleared(row).pid = PID_INVALID
           /\ Cleared(row).checkpoint_cmd_sd = SOCKET_INVALID
    BY Zenon, <1>ClearedRow
       DEF Cleared, Row, RowAgrees, STATE_RESTORED, STATE_CHECKPOINTED, STATE_CHECKPOINTING
  \* Clearing any set of rows keeps a table well formed.
  <1>ClearSound.
    ASSUME NEW t, Sound(t), NEW S \in SUBSET Rows,
           NEW u, u = [i \in Rows |-> IF i \in S THEN Cleared(t[i]) ELSE t[i]]
    PROVE  Sound(u) /\ NoNewSd(t, u)
    <2> USE <1>ClearSound
    <2>1. \A i \in Rows : t[i] \in Row /\ RowAgrees(t[i]) BY Zenon DEF Sound
    <2>2. \A i \in Rows : u[i] \in Row /\ RowAgrees(u[i]) BY Zenon, <2>1, <1>ClearedRow
    <2>3. UniquePids(u) BY Zenon, <2>1, <1>ClearedRow DEF UniquePids, Sound
    <2>4. NoNewSd(t, u) BY Zenon, <2>1, <1>ClearedRow DEF NoNewSd
    <2> QED BY Zenon, <2>2, <2>3, <2>4 DEF Sound
  <1>ClearPidSound.
    ASSUME NEW t, Sound(t), NEW p
    PROVE  /\ Sound(clear_pid_checkpoint_data(t, p))
           /\ NoNewSd(t, clear_pid_checkpoint_data(t, p))
           /\ p # PID_INVALID => RowsOf(clear_pid_checkpoint_data(t, p), p) = {}
           /\ \A q \in Pids : RowsOf(t, q) = {} => RowsOf(clear_pid_checkpoint_data(t, p), q) = {}
    <2> USE <1>ClearPidSound
    <2> DEFINE S == RowsOf(t, p)
               u == clear_pid_checkpoint_data(t, p)
    <2>1. S \in SUBSET Rows BY Zenon DEF RowsOf
    <2>2. u = [i \in Rows |-> IF i \in S THEN Cleared(t[i]) ELSE t[i]]
      BY Zenon DEF RowsOf, clear_pid_checkpoint_data
    <2>3. p # PID_INVALID => RowsOf(u, p) = {}
      BY Zenon, <1>ClearedRow DEF RowsOf, clear_pid_checkpoint_data, Sound
    <2>4. ASSUME NEW q \in Pids, RowsOf(t, q) = {} PROVE RowsOf(u, q) = {}
      BY Zenon, <2>4, <1>ClearedRow, InvalidAssumption DEF RowsOf, clear_pid_checkpoint_data, Sound
    <2> QED BY Zenon, <2>1, <2>2, <2>3, <2>4, <1>ClearSound
  <1>ClearWorkerSound.
    ASSUME NEW t, Sound(t), NEW w
    PROVE  /\ Sound(clear_pid_on_worker_exit_non_blocking(t, w))
           /\ NoNewSd(t, clear_pid_on_worker_exit_non_blocking(t, w))
           /\ \A p \in Pids : RowsOf(t, p) = {}
                => RowsOf(clear_pid_on_worker_exit_non_blocking(t, w), p) = {}
    <2> USE <1>ClearWorkerSound
    <2> DEFINE S == {i \in Rows : t[i].worker = w}
               u == clear_pid_on_worker_exit_non_blocking(t, w)
    <2>1. S \in SUBSET Rows BY Zenon
    <2>2. u = [i \in Rows |-> IF i \in S THEN Cleared(t[i]) ELSE t[i]]
      BY Zenon DEF clear_pid_on_worker_exit_non_blocking
    <2>3. ASSUME NEW p \in Pids, RowsOf(t, p) = {} PROVE RowsOf(u, p) = {}
      BY Zenon, <2>3, <1>ClearedRow, InvalidAssumption
         DEF RowsOf, clear_pid_on_worker_exit_non_blocking, Sound
    <2> QED BY Zenon, <2>1, <2>2, <2>3, <1>ClearSound
  \* Writing one row whose pid no other row has keeps a table well formed.
  <1>WriteSound.
    ASSUME NEW t, Sound(t), NEW r \in Rows, NEW row \in Row, RowAgrees(row),
           row.pid # PID_INVALID => \A i \in Rows : i # r => t[i].pid # row.pid
    PROVE  Sound([t EXCEPT ![r] = row])
    <2> USE <1>WriteSound
    <2> DEFINE u == [t EXCEPT ![r] = row]
    <2>1. u \in [Rows -> Row] BY Zenon DEF Sound
    <2>2. \A i \in Rows : u[i] = IF i = r THEN row ELSE t[i] BY Zenon DEF Sound
    <2> HIDE DEF u
    <2>3. UniquePids(u) BY <2>2 DEF UniquePids, Sound
    <2>4. \A i \in Rows : RowAgrees(u[i]) BY Zenon, <2>2 DEF Sound
    <2> QED BY Zenon, <2>1, <2>3, <2>4 DEF Sound, u
  <1>InitPidSound.
    ASSUME Least, NEW t, Sound(t), NEW p \in Pids, RowsOf(t, p) = {}
    PROVE  /\ Sound(init_pid_checkpoint_data(t, p))
           /\ NoNewSd(t, init_pid_checkpoint_data(t, p))
    <2> USE <1>InitPidSound
    <2> DEFINE free == RowsOf(t, PID_INVALID)
               r == Min(free)
               row == [Cleared(t[r]) EXCEPT !.pid = p]
    <2>1. CASE free = {}
      BY Zenon, <2>1 DEF init_pid_checkpoint_data, NoNewSd
    <2>2. CASE free # {}
      <3>1. r \in Rows BY Zenon, <2>2, MinRow DEF RowsOf
      <3>2. t[r] \in Row BY Zenon, <3>1 DEF Sound
      <3> HIDE DEF r, free
      <3>3. row \in Row /\ row.pid = p /\ row.checkpoint_cmd_sd = SOCKET_INVALID
        BY Zenon, <3>2 DEF Cleared, Row, STATE_RESTORED
      <3>4. RowAgrees(row)
        BY Zenon, <3>2, InvalidAssumption
           DEF Cleared, Row, RowAgrees, STATE_RESTORED, STATE_CHECKPOINTED, STATE_CHECKPOINTING
      <3>5. init_pid_checkpoint_data(t, p) = [t EXCEPT ![r] = row]
        BY Zenon, <2>2, <3>1 DEF init_pid_checkpoint_data, free, r, Sound
      <3> HIDE DEF row
      <3>6. \A i \in Rows : t[i].pid # p BY Zenon DEF RowsOf
      <3>7. NoNewSd(t, [t EXCEPT ![r] = row]) BY Zenon, <3>1, <3>3 DEF NoNewSd, Sound
      <3>8. \A i \in Rows : i # r => t[i].pid # row.pid BY Zenon, <3>3, <3>6
      <3>9. Sound([t EXCEPT ![r] = row]) BY Zenon, <3>1, <3>3, <3>4, <3>8, <1>WriteSound
      <3> QED BY Zenon, <3>5, <3>7, <3>9
    <2> QED BY Zenon, <2>1, <2>2
  \* The command socket that set_pid_checkpointing stores is the one it was given,
  \* in the row of the pid it was given.
  <1>CheckpointingSound.
    ASSUME Least, NEW t, Sound(t), NEW p \in Pids, NEW w \in Workers
    PROVE  /\ Sound(set_pid_checkpointing(t, p, w))
           /\ \A i \in Rows :
                LET row == set_pid_checkpointing(t, p, w)[i]
                IN  \/ row.checkpoint_cmd_sd = t[i].checkpoint_cmd_sd /\ row.pid = t[i].pid
                    \/ row.checkpoint_cmd_sd = w /\ row.pid = p
           /\ \A q \in Pids : RowsOf(t, q) = {} => RowsOf(set_pid_checkpointing(t, p, w), q) = {}
    <2> USE <1>CheckpointingSound
    <2> DEFINE rows == Checkpointable(t, p)
               r == Min(rows)
               row == [t[r] EXCEPT !.state = STATE_CHECKPOINTING, !.checkpoint_cmd_sd = w]
               u == [t EXCEPT ![r] = row]
    <2>1. CASE rows = {}
      <3>1. set_pid_checkpointing(t, p, w) = t BY Zenon, <2>1 DEF set_pid_checkpointing
      <3> QED BY Zenon, <3>1
    <2>2. CASE rows # {}
      <3>1. r \in Rows /\ t[r].pid = p /\ t[r].state = STATE_RESTORED
        BY Zenon, <2>2, MinRow DEF Checkpointable, RowsOf
      <3>2. t[r] \in Row /\ RowAgrees(t[r]) BY Zenon, <3>1 DEF Sound
      <3>3. set_pid_checkpointing(t, p, w) = u
        BY Zenon, <2>2, <3>1 DEF set_pid_checkpointing, Sound
      <3> HIDE DEF r, rows
      <3>4. row \in Row /\ row.pid = p /\ row.checkpoint_cmd_sd = w
        BY Zenon, <3>1, <3>2 DEF Row, STATE_CHECKPOINTING
      <3>5. RowAgrees(row)
        BY Zenon, <3>1, <3>2, InvalidAssumption
           DEF Row, RowAgrees, STATE_RESTORED, STATE_CHECKPOINTED, STATE_CHECKPOINTING
      <3> HIDE DEF row
      <3>6. \A i \in Rows : i # r => t[i].pid # p BY Zenon, <3>1, InvalidAssumption
                                                     DEF Sound, UniquePids
      <3>7. Sound(u) BY Zenon, <3>1, <3>4, <3>5, <3>6, <1>WriteSound
      <3>8. \A i \in Rows : u[i] = IF i = r THEN row ELSE t[i] BY Zenon, <3>1 DEF Sound
      <3> HIDE DEF u
      <3>9. \A q \in Pids : RowsOf(t, q) = {} => RowsOf(u, q) = {}
        BY Zenon, <3>1, <3>4, <3>8 DEF RowsOf
      <3>10. \A i \in Rows :
               \/ u[i].checkpoint_cmd_sd = t[i].checkpoint_cmd_sd /\ u[i].pid = t[i].pid
               \/ u[i].checkpoint_cmd_sd = w /\ u[i].pid = p
        BY Zenon, <3>4, <3>8
      <3> QED BY Zenon, <3>3, <3>7, <3>9, <3>10
    <2> QED BY Zenon, <2>1, <2>2
  \* set_pid_checkpointed leaves no command socket in the row of its pid.
  <1>CheckpointedSound.
    ASSUME Least, NEW t, Sound(t), NEW p \in Pids, NEW w \in Workers
    PROVE  /\ Sound(set_pid_checkpointed(t, p, w))
           /\ NoNewSd(t, set_pid_checkpointed(t, p, w))
           /\ \A i \in RowsOf(t, p) : set_pid_checkpointed(t, p, w)[i].checkpoint_cmd_sd = SOCKET_INVALID
           /\ \A q \in Pids : RowsOf(t, q) = {} => RowsOf(set_pid_checkpointed(t, p, w), q) = {}
    <2> USE <1>CheckpointedSound
    <2> DEFINE rows == {i \in RowsOf(t, p) : t[i].state = STATE_CHECKPOINTING}
               r == Min(rows)
               row == [t[r] EXCEPT !.state = STATE_CHECKPOINTED, !.checkpoint_cmd_sd = SOCKET_INVALID,
                                   !.worker = w]
               u == [t EXCEPT ![r] = row]
    <2>0. \A i \in Rows : t[i] \in Row /\ RowAgrees(t[i]) BY Zenon DEF Sound
    <2>1. CASE rows = {}
      <3>1. set_pid_checkpointed(t, p, w) = t BY Zenon, <2>1 DEF set_pid_checkpointed
      <3>2. \A i \in RowsOf(t, p) : t[i].checkpoint_cmd_sd = SOCKET_INVALID
        BY Zenon, <2>0, <2>1 DEF RowsOf, RowAgrees
      <3> QED BY Zenon, <3>1, <3>2 DEF NoNewSd
    <2>2. CASE rows # {}
      <3>1. r \in Rows /\ t[r].pid = p /\ t[r].state = STATE_CHECKPOINTING
        BY Zenon, <2>2, MinRow DEF RowsOf
      <3>2. t[r] \in Row /\ RowAgrees(t[r]) BY Zenon, <3>1 DEF Sound
      <3>3. set_pid_checkpointed(t, p, w) = u
        BY Zenon, <2>2, <3>1 DEF set_pid_checkpointed, Sound
      <3> HIDE DEF r, rows
      <3>4. row \in Row /\ row.pid = p /\ row.checkpoint_cmd_sd = SOCKET_INVALID
        BY Zenon, <3>1, <3>2 DEF Row, STATE_CHECKPOINTED
      <3>5. RowAgrees(row)
        BY Zenon, <3>1, <3>2, InvalidAssumption
           DEF Row, RowAgrees, STATE_RESTORED, STATE_CHECKPOINTED, STATE_CHECKPOINTING
      <3> HIDE DEF row
      <3>6. \A i \in Rows : i # r => t[i].pid # p BY Zenon, <3>1, InvalidAssumption
                                                     DEF Sound, UniquePids
      <3>7. Sound(u) BY Zenon, <3>1, <3>4, <3>5, <3>6, <1>WriteSound
      <3>8. \A i \in Rows : u[i] = IF i = r THEN row ELSE t[i] BY Zenon, <3>1 DEF Sound
      <3> HIDE DEF u
      <3>9. \A q \in Pids : RowsOf(t, q) = {} => RowsOf(u, q) = {}
        BY Zenon, <3>1, <3>4, <3>8 DEF RowsOf
      <3>10. \A i \in RowsOf(t, p) : u[i].checkpoint_cmd_sd = SOCKET_INVALID
        BY Zenon, <3>4, <3>6, <3>8 DEF RowsOf
      <3>11. NoNewSd(t, u) BY Zenon, <3>4, <3>8 DEF NoNewSd
      <3> QED BY Zenon, <3>3, <3>7, <3>9, <3>10, <3>11
    <2> QED BY Zenon, <2>1, <2>2
  <1>FlagAbortSound.
    ASSUME Least, NEW t, Sound(t), NEW p \in Pids, RowsOf(t, p) # {}
    PROVE  Sound(FlagAbort(t, p)) /\ NoNewSd(t, FlagAbort(t, p))
    <2> USE <1>FlagAbortSound
    <2> DEFINE r == Min(RowsOf(t, p))
               row == [t[r] EXCEPT !.checkpoint_abort = TRUE]
               u == [t EXCEPT ![r] = row]
    <2>1. r \in Rows /\ t[r].pid = p BY Zenon, MinRow DEF RowsOf
    <2>2. FlagAbort(t, p) = t \/ FlagAbort(t, p) = u BY Zenon DEF FlagAbort
    <2>3. t[r] \in Row /\ RowAgrees(t[r]) BY Zenon, <2>1 DEF Sound
    <2> HIDE DEF r
    <2>4. row \in Row /\ row.pid = p /\ row.checkpoint_cmd_sd = t[r].checkpoint_cmd_sd
      BY Zenon, <2>1, <2>3 DEF Row
    <2>5. RowAgrees(row) BY Zenon, <2>3 DEF Row, RowAgrees
    <2> HIDE DEF row
    <2>6. \A i \in Rows : i # r => t[i].pid # p BY Zenon, <2>1, InvalidAssumption
                                                   DEF Sound, UniquePids
    <2>7. Sound(u) BY Zenon, <2>1, <2>4, <2>5, <2>6, <1>WriteSound
    <2>8. NoNewSd(t, u) BY Zenon, <2>1, <2>4 DEF NoNewSd, Sound
    <2>9. NoNewSd(t, t) BY Zenon DEF NoNewSd
    <2> QED BY Zenon, <2>2, <2>7, <2>8, <2>9
  \* A table step that adds no command socket keeps AbortReachesItsWorker as long
  \* as the command thread stays where a socket may be in the table.
  <1>SdKept.
    ASSUME Inv, [Next]_vars, NoNewSd(table, table'),
           ct'.pid = ct.pid, ct'.worker = ct.worker,
           ct'.pc \in {"wait_checkpoint", "set_checkpointed", "clear"} \/ ct'.pc = ct.pc
    PROVE  AbortReachesItsWorker'
    <2> USE <1>SdKept
    <2> SUFFICES ASSUME NEW i \in Rows, table'[i].checkpoint_cmd_sd # SOCKET_INVALID
                 PROVE  /\ ct'.pc \in {"wait_checkpoint", "set_checkpointed", "clear"}
                        /\ ct'.pid = table'[i].pid
                        /\ ct'.worker = table'[i].checkpoint_cmd_sd
                        /\ ct'.worker \in Workers
                        /\ workers'[ct'.worker].pc # "unused"
                        /\ workers'[ct'.worker].pid = ct'.pid
      BY Zenon DEF AbortReachesItsWorker
    <2>1. /\ table[i].checkpoint_cmd_sd # SOCKET_INVALID
          /\ table[i].checkpoint_cmd_sd = table'[i].checkpoint_cmd_sd
          /\ table[i].pid = table'[i].pid
      BY Zenon DEF NoNewSd
    <2>2. /\ ct.pc \in {"wait_checkpoint", "set_checkpointed", "clear"}
          /\ ct.pid = table[i].pid
          /\ ct.worker = table[i].checkpoint_cmd_sd
          /\ ct.worker \in Workers
          /\ workers[ct.worker].pc # "unused"
          /\ workers[ct.worker].pid = ct.pid
      BY Zenon, <2>1 DEF Inv, AbortReachesItsWorker, TypeInv, TypeOK, Row
    <2> QED BY Zenon, <2>1, <2>2, WorkersType DEF Kept, Inv
  \* Elsewhere there is no command socket in the table, so any step that adds
  \* none keeps it too.
  <1>SdNone.
    ASSUME Inv, NoNewSd(table, table'), ct.pc \notin {"wait_checkpoint", "set_checkpointed", "clear"}
    PROVE  AbortReachesItsWorker'
    BY Zenon, <1>SdNone DEF Inv, AbortReachesItsWorker, NoNewSd
  <1>TableMain.
    ASSUME Least, Inv, Main \/ MainStop, [Next]_vars
    PROVE  Sound(table') /\ NoNewSd(table, table') /\ StillFree'
    <2> USE <1>TableMain
    <2> DEFINE Goal == Sound(table') /\ NoNewSd(table, table') /\ StillFree'
    <2>0. Sound(table) /\ NoNewSd(table, table) BY Zenon, InvSound DEF NoNewSd
    <2>m. main.pc \in {"can_checkpoint", "init", "abort", "unqueue"} => main.pid \in Pids
      BY Zenon DEF Inv, TypeInv, MainLocals
    <2>i. main \in MainState BY Zenon DEF Inv, TypeInv, TypeOK
    <2>1. CASE MainInit
      <3>1. RowsOf(table, main.pid) = {} /\ main.pid \in Pids
        BY Zenon, <2>1, <2>m DEF MainInit, Inv, StillFree
      <3>2. main'.pc = "push" BY Zenon, <2>1, <2>i DEF MainInit, MainTo, MainState
      <3> QED BY Zenon, <2>0, <2>1, <3>1, <3>2, <1>InitPidSound DEF MainInit, StillFree
    <2>2. CASE MainAbort
      <3>1. main'.pc = "push" BY Zenon, <2>2, <2>i DEF MainAbort, MainTo, MainState
      <3>2. CASE RowsOf(table, main.pid) = {}
        BY Zenon, <2>0, <2>2, <3>1, <3>2 DEF MainAbort, StillFree
      <3>3. CASE RowsOf(table, main.pid) # {}
        <4>1. main.pid \in Pids BY Zenon, <2>2, <2>m DEF MainAbort
        <4> QED BY Zenon, <2>0, <2>2, <3>1, <3>3, <4>1, <1>FlagAbortSound DEF MainAbort, StillFree
      <3> QED BY Zenon, <3>2, <3>3
    <2>3. CASE MainUnqueue
      <3>1. main'.pc = "select" BY Zenon, <2>3 DEF MainUnqueue, MainDone, MainIdle
      <3> QED BY Zenon, <2>0, <2>3, <3>1, <1>ClearPidSound DEF MainUnqueue, StillFree
    <2>4. CASE MainCleanup
      <3>1. main'.pc = "down" BY Zenon, <2>4, <2>i DEF MainCleanup, MainTo, MainState
      <3> DEFINE S == {i \in Rows : table[i].pid # PID_INVALID}
      <3>2. table' = [i \in Rows |-> IF i \in S THEN Cleared(table[i]) ELSE table[i]]
        BY Zenon, <2>4 DEF MainCleanup
      <3>3. S \in SUBSET Rows BY Zenon
      <3> HIDE DEF S
      <3> QED BY Zenon, <2>0, <3>1, <3>2, <3>3, <1>ClearSound DEF StillFree
    <2>5. CASE MainCanCheckpoint
      <3>1. UNCHANGED table BY Zenon, <2>5 DEF MainCanCheckpoint
      <3>2. StillFree'
        BY <2>5, <2>i, <3>1 DEF MainCanCheckpoint, can_checkpoint_pid, MainTo, MainDone, MainIdle,
                                MainState, StillFree, RowsOf
      <3> QED BY Zenon, <2>0, <3>1, <3>2
    <2>6. CASE MainRead \/ MainCanRestore \/ MainPush \/ MainPushFull \/ MainJoin \/ MainStop
      <3>1. UNCHANGED table
        BY Zenon, <2>6 DEF MainRead, MainCanRestore, MainPush, MainPushFull, MainJoin, MainStop
      <3>2. main'.pc # "init"
        BY <2>6, <2>i
           DEF MainRead, Served, MainCanRestore, MainPush, MainPushFull, MainJoin, MainStop,
                          MainTo, MainDone, MainIdle, MainState
      <3> QED BY Zenon, <2>0, <3>1, <3>2 DEF StillFree
    <2>7. ASSUME NEW c \in Clients, MainAccept(c) \/ MainAcceptSilent(c) \/ MainReject(c)
          PROVE  Goal
      <3>1. UNCHANGED table BY Zenon, <2>7 DEF MainAccept, MainAcceptSilent, MainReject, daemon
      <3>2. main'.pc # "init" \/ UNCHANGED main
        BY <2>7 DEF MainAccept, MainAcceptSilent, MainReject, Served, daemon
      <3> QED BY Zenon, <2>0, <3>1, <3>2 DEF StillFree, Inv, RowsOf
    <2> QED BY Zenon, <2>5, <2>1, <2>2, <2>3, <2>4, <2>6, <2>7 DEF Main
  \* Without a step of the listener, the row it is about to take stays free.
  <1>StaysFree.
    ASSUME Inv, UNCHANGED main,
           \A q \in Pids : RowsOf(table, q) = {} => RowsOf(table', q) = {}
    PROVE  StillFree'
    BY Zenon, <1>StaysFree DEF Inv, TypeInv, MainLocals, StillFree, RowsOf
  <1>TableCt.
    ASSUME Least, Inv, CommandThread, [Next]_vars
    PROVE  Sound(table') /\ AbortReachesItsWorker' /\ StillFree'
    <2> USE <1>TableCt
    <2> DEFINE Goal == Sound(table') /\ AbortReachesItsWorker' /\ StillFree'
    <2>0. Sound(table) /\ NoNewSd(table, table) BY Zenon, InvSound DEF NoNewSd
    <2>m. UNCHANGED main BY Zenon, CtFrame
    <2>i. ct \in CtState BY Zenon DEF Inv, TypeInv, TypeOK
    <2>l. CtLocals BY Zenon DEF Inv, TypeInv
    <2>1. CASE CtSetCheckpointing
      <3>1. ct.pid \in Pids /\ ct.worker \in Workers /\ workers[ct.worker].pc # "unused"
              /\ workers[ct.worker].pid = ct.pid
        BY Zenon, <2>1, <2>l DEF CtSetCheckpointing, CtLocals
      <3>2. table' = set_pid_checkpointing(table, ct.pid, ct.worker) /\ ct' = [ct EXCEPT !.pc = "wait_checkpoint"]
        BY Zenon, <2>1 DEF CtSetCheckpointing, CtTo
      <3>3. \A i \in Rows : table[i].checkpoint_cmd_sd = SOCKET_INVALID
        BY Zenon, <2>1 DEF CtSetCheckpointing, Inv, AbortReachesItsWorker
      <3>4. \A i \in Rows : table'[i].checkpoint_cmd_sd # SOCKET_INVALID =>
              table'[i].checkpoint_cmd_sd = ct.worker /\ table'[i].pid = ct.pid
        BY <2>0, <3>1, <3>2, <3>3, <1>CheckpointingSound
      <3>5. workers'[ct.worker].pc # "unused" /\ workers'[ct.worker].pid = ct.pid
        BY Zenon, <3>1, WorkersType DEF Kept, Inv
      <3>6. ct'.pc = "wait_checkpoint" /\ ct'.pid = ct.pid /\ ct'.worker = ct.worker
        BY Zenon, <2>i, <3>2 DEF CtState
      <3>7. AbortReachesItsWorker' BY Zenon, <3>4, <3>5, <3>6 DEF AbortReachesItsWorker
      <3> QED BY Zenon, <2>0, <2>m, <3>1, <3>2, <3>7, <1>CheckpointingSound, <1>StaysFree
    <2>2. CASE CtSetCheckpointed
      <3>1. ct.pid \in Pids /\ ct.worker \in Workers BY Zenon, <2>2, <2>l
                                                        DEF CtSetCheckpointed, CtLocals
      <3>2. table' = set_pid_checkpointed(table, ct.pid, ct.worker) BY Zenon, <2>2
                                                                       DEF CtSetCheckpointed
      <3>3. \A i \in Rows : table'[i].checkpoint_cmd_sd = SOCKET_INVALID
        <4> SUFFICES ASSUME NEW i \in Rows, table'[i].checkpoint_cmd_sd # SOCKET_INVALID PROVE FALSE
          BY Zenon
        <4>1. table[i].checkpoint_cmd_sd # SOCKET_INVALID
          BY <2>0, <3>1, <3>2, <1>CheckpointedSound DEF NoNewSd
        <4>2. i \in RowsOf(table, ct.pid) BY Zenon, <4>1 DEF Inv, AbortReachesItsWorker, RowsOf
        <4> QED BY <2>0, <3>1, <3>2, <4>2, <1>CheckpointedSound
      <3> QED BY Zenon, <2>0, <2>m, <3>1, <3>2, <3>3, <1>CheckpointedSound, <1>StaysFree
                 DEF AbortReachesItsWorker
    <2>3. CASE CtClear
      <3>1. ct.pid \in Pids /\ ct.pid # PID_INVALID
        BY Zenon, <2>3, <2>l, InvalidAssumption DEF CtClear, CtLocals
      <3>2. table' = clear_pid_checkpoint_data(table, ct.pid) BY Zenon, <2>3 DEF CtClear
      <3>3. \A i \in Rows : table'[i].checkpoint_cmd_sd = SOCKET_INVALID
        <4> SUFFICES ASSUME NEW i \in Rows, table'[i].checkpoint_cmd_sd # SOCKET_INVALID PROVE FALSE
          BY Zenon
        <4>1. table[i].checkpoint_cmd_sd # SOCKET_INVALID /\ table'[i].pid = table[i].pid
          BY <2>0, <3>2, <1>ClearPidSound DEF NoNewSd
        <4>2. i \in RowsOf(table', ct.pid) BY Zenon, <4>1 DEF Inv, AbortReachesItsWorker, RowsOf
        <4> QED BY Zenon, <2>0, <3>1, <3>2, <4>2, <1>ClearPidSound
      <3> QED BY Zenon, <2>0, <2>m, <3>1, <3>2, <3>3, <1>ClearPidSound, <1>StaysFree
                 DEF AbortReachesItsWorker
    <2>4. CASE CtCheckpointAnswered \/ CtCheckpointLost
      <3>1. UNCHANGED table BY Zenon, <2>4 DEF CtCheckpointAnswered, CtCheckpointLost
      <3>2. PICK pc \in {"set_checkpointed", "clear"} : ct' = [ct EXCEPT !.pc = pc]
        BY Zenon, <2>4 DEF CtCheckpointAnswered, CtCheckpointLost, CtTo
      <3>3. ct'.pc = pc /\ ct'.pid = ct.pid /\ ct'.worker = ct.worker BY Zenon, <2>i, <3>2
                                                                         DEF CtState
      <3>4. AbortReachesItsWorker' BY Zenon, <2>0, <3>1, <3>3, <1>SdKept
      <3> QED BY Zenon, <2>0, <2>m, <3>1, <3>4, <1>StaysFree
    <2>5. CASE CtPop \/ CtInterrupted \/ CtFork \/ CtForkFails \/ CtClose \/ CtGetWorker \/ CtConnect
               \/ CtConnectFails \/ CtRestoreAnswered \/ CtRestoreLost
      <3>1. UNCHANGED table /\ ct.pc \notin {"wait_checkpoint", "set_checkpointed", "clear"}
        BY Zenon, <2>5
           DEF CtPop, CtInterrupted, CtFork, CtForkFails, CtClose, CtGetWorker, CtConnect,
                    CtConnectFails, CtRestoreAnswered, CtRestoreLost
      <3> QED BY Zenon, <2>0, <2>m, <3>1, <1>SdNone, <1>StaysFree
    <2> QED BY Zenon, <2>5, <2>1, <2>2, <2>3, <2>4 DEF CommandThread
  <1> SUFFICES ASSUME Least, Inv, [Next]_vars
               PROVE  Sound(table') /\ AbortReachesItsWorker' /\ StillFree'
    BY Zenon
  <1> DEFINE Goal == Sound(table') /\ AbortReachesItsWorker' /\ StillFree'
  <1>0. Sound(table) /\ NoNewSd(table, table) BY Zenon, InvSound DEF NoNewSd
  <1>1. CASE Main \/ MainStop BY Zenon, <1>1, MainFrame, <1>TableMain, <1>SdKept
  <1>2. CASE CommandThread BY Zenon, <1>2, <1>TableCt
  <1>3. CASE UNCHANGED <<table, main, ct>> BY Zenon, <1>0, <1>3, <1>SdKept, <1>StaysFree
  <1>4. ASSUME NEW w \in Workers, WorkerStep(w) PROVE Goal
    <2>1. UNCHANGED <<main, ct>> BY Zenon, <1>4, WorkerFrame
    <2>2. CASE sigchld_handler_service(w)
      BY Zenon, <1>0, <2>1, <2>2, <1>ClearWorkerSound, <1>SdKept, <1>StaysFree
         DEF sigchld_handler_service
    <2>3. CASE Worker(w) \/ WorkerCrash(w)
      <3>1. UNCHANGED table
        BY Zenon, <2>3 DEF Worker, WorkerCrash, WorkerSetup, WorkerSeize, WorkerDump, WorkerWatch,
                    WorkerRespond, WorkerAccept, WorkerRestore, WorkerReply, WorkerEnd, daemon
      <3> QED BY Zenon, <1>3, <2>1, <3>1
    <2> QED BY Zenon, <1>4, <2>2, <2>3 DEF WorkerStep
  <1> QED BY Zenon, <1>1, <1>2, <1>3, <1>4, OutsideFrame DEF Next, WorkerStep

LEMMA InitInv ==
  Init => Inv
  <1>EmptySound.
    Sound(EmptyTable)
    BY Zenon DEF EmptyTable, Sound, Row, UniquePids, RowAgrees, STATE_RESTORED, STATE_CHECKPOINTED,
           STATE_CHECKPOINTING
  <1> SUFFICES ASSUME Init PROVE Inv BY Zenon
  <1>1. Sound(table) BY Zenon, <1>EmptySound DEF Init
  <1>2. main = MainIdle /\ ct = CtIdle BY Zenon DEF Init
  <1>3. main \in MainState /\ MainLocals /\ StillFree
    BY Zenon, <1>2 DEF MainIdle, MainState, MainLocals, StillFree
  <1>4. ct \in CtState /\ CtLocals BY Zenon, <1>2 DEF CtIdle, CtState, CtLocals
  <1>5. ClientsOK(clients) BY Zenon DEF Init, ClientsOK, ClientState
  <1>6. WorkersOK(workers) BY Zenon DEF Init, WorkersOK, WorkerState, NoWorker
  <1>7. AbortReachesItsWorker BY Zenon DEF Init, EmptyTable, AbortReachesItsWorker
  <1>q. queue = <<>> /\ interrupt = FALSE BY Zenon DEF Init, Q!Empty
  <1>8. queue \in Seq(SvcCtx) BY <1>q
  <1>b. interrupt \in BOOLEAN BY <1>q, Zenon
  <1>9. /\ lock \in {"free", "main"}
        /\ fds \in [Fds -> Clients \cup {None}]
        /\ targets \in [Pids -> {"running", "frozen", "lost", "adrift", "dead"}]
        /\ rname \in [Pids -> Workers \cup {None}]
        /\ files \subseteq Pids
    BY Zenon DEF Init
  <1> QED BY Zenon, <1>1, <1>3, <1>4, <1>5, <1>6, <1>7, <1>8, <1>9, <1>b
          DEF Inv, TypeInv, TypeOK, ClientsOK, WorkersOK, Sound, OneRowPerPid, RowsAgree

LEMMA NextInv ==
  Least /\ Inv /\ [Next]_vars => Inv'
  <1> SUFFICES ASSUME Least, Inv, [Next]_vars PROVE Inv' BY Zenon
  <1>1. Sound(table') /\ AbortReachesItsWorker' /\ StillFree' BY Zenon, TableNext
  <1>2. TypeInv' BY Zenon, <1>1, TypeNext DEF Inv, Sound
  <1> QED BY Zenon, <1>1, <1>2 DEF Inv, Sound, OneRowPerPid, RowsAgree

-----------------------------------------------------------------------------
(* What the workers, their targets and the dump files have to do with the     *)
(* table and the command thread.  A target that is dead or adrift is out of   *)
(* the game: nothing is asked of its workers any more.                        *)

Of(w, p) == workers[w].pc # "unused" /\ workers[w].pid = p

\* Where a worker holds its target frozen.
Holding == {"dump", "dumped", "ready", "accept", "restore"}

\* The command thread is between fork() and the response to its checkpoint, or
\* between connect() and the response to its restore.
Checkpointing(w) == ct.pc \in {"set_checkpointing", "wait_checkpoint"} /\ ct.worker = w
Restoring(w) == ct.pc = "wait_restore" /\ ct.rd = w

\* A process is frozen by one worker only.
HoldInv(p) ==
  \A v, w \in Workers : Of(v, p) /\ Of(w, p) /\ workers[v].pc \in Holding /\ workers[w].pc \in Holding
    => v = w /\ targets[p] = "frozen"

\* A worker that is not waiting in accept() has the command thread waiting for it.
BusyInv(p) ==
  \A w \in Workers : Of(w, p) =>
    /\ workers[w].pc \in Abortable => Checkpointing(w) /\ workers[w].resp = None /\ ~workers[w].conn
    /\ workers[w].pc = "accept" /\ workers[w].resp # None => Checkpointing(w)
    /\ workers[w].pc = "accept" /\ workers[w].conn => Restoring(w)
    /\ workers[w].pc \in {"restore", "restored", "unrestored"} => Restoring(w) /\ workers[w].resp = None
    /\ Checkpointing(w) /\ Answered(w) /\ workers[w].resp = MEMCR_OK => workers[w].pc = "accept"
    /\ ct.pc = "set_checkpointed" /\ ct.worker = w => workers[w].pc = "accept"

\* The worker of a row waits for a RESTORE, executes one, or has executed the
\* one the command thread is still busy with.
RowInv(p) ==
  \A i \in Rows : table[i].pid = p /\ table[i].worker # PID_INVALID =>
    \/ workers[table[i].worker].pc \in {"accept", "restore"}
    \/ /\ targets[p] \in {"running", "lost"}
       /\ ct.pid = p /\ ct.pc \in {"wait_restore", "clear"}

\* The command thread is waiting for the worker that crashed.
LostInv(p) ==
  targets[p] = "lost" =>
    \E w \in Workers : /\ Of(w, p) /\ workers[w].pc \in Gone /\ workers[w].resp = None
                       /\ Checkpointing(w) \/ Restoring(w)

ImageInv(p) ==
  targets[p] = "frozen" =>
    \A w \in Workers : Of(w, p) /\ workers[w].pc \in {"dumped", "ready", "accept", "restore"} => p \in files

PidInv(p) ==
  targets[p] \notin {"adrift", "dead"} => HoldInv(p) /\ BusyInv(p) /\ RowInv(p) /\ LostInv(p) /\ ImageInv(p)

\* Whoever is recorded as the worker of a pid is one.
NamesInv ==
  /\ \A p \in Pids : rname[p] # None => Of(rname[p], p)
  /\ \A i \in Rows : table[i].worker # PID_INVALID => Of(table[i].worker, table[i].pid)
  /\ ct.pc \in {"connect", "wait_restore"} => Of(ct.worker, ct.pid)
  /\ ct.pc = "wait_restore" => Of(ct.rd, ct.pid)

WorldInv == NamesInv /\ \A p \in Pids : PidInv(p)

LEMMA OfKept ==
  ASSUME Inv, [Next]_vars, NEW w \in Workers, NEW p, Of(w, p)
  PROVE  Of(w, p)'
  BY Zenon, WorkersType DEF Inv, Kept, Of

SameWorker(w) ==
  /\ workers'[w].pc = workers[w].pc /\ workers'[w].pid = workers[w].pid
  /\ workers'[w].resp = workers[w].resp /\ workers'[w].conn = workers[w].conn

LEMMA AbortSentSame ==
  ASSUME Inv, NEW w, workers' = AbortSent(workers, w)
  PROVE  \A v \in Workers : SameWorker(v)
  BY DEF AbortSent, SameWorker, Inv, TypeInv, TypeOK, WorkerState

\* One worker changes, everybody else of its process stays as they are.
OnlyWorker(w) == \A v \in Workers : v # w => workers'[v] = workers[v]

LEMMA OneWorker ==
  ASSUME Inv, NEW w \in Workers, NEW pc, WorkerTo(w, pc)
  PROVE  /\ OnlyWorker(w)
         /\ workers'[w].pc = pc /\ workers'[w].pid = workers[w].pid
         /\ workers'[w].resp = workers[w].resp /\ workers'[w].conn = workers[w].conn
  BY DEF WorkerTo, OnlyWorker, Inv, TypeInv, TypeOK, WorkerState

\* The process of a worker, and what WorldInv says of it.
LEMMA WorkerPid ==
  ASSUME Inv, WorldInv, NEW w \in Workers, workers[w].pc # "unused"
  PROVE  \E p \in Pids : Of(w, p) /\ workers[w].pid = p
           /\ (targets[p] \notin {"adrift", "dead"} => HoldInv(p) /\ BusyInv(p) /\ RowInv(p) /\ LostInv(p) /\ ImageInv(p))
  BY Zenon DEF Inv, TypeInv, WorkersOK, WorldInv, PidInv, Of

\* The worker of a row is a worker.
LEMMA RowWorker ==
  ASSUME Inv, NEW i \in Rows, table[i].worker # PID_INVALID
  PROVE  table[i].worker \in Workers
  BY Zenon DEF Inv, TypeInv, TypeOK, Row

\* The command thread takes the response of a worker.
LEMMA TakeResponse ==
  ASSUME Inv, NEW w \in Workers, workers' = [workers EXCEPT ![w].resp = None]
  PROVE  /\ workers'[w].resp = None
         /\ \A v \in Workers : /\ workers'[v].pc = workers[v].pc /\ workers'[v].pid = workers[v].pid
                               /\ workers'[v].conn = workers[v].conn
                               /\ v # w => workers'[v] = workers[v]
  BY DEF Inv, TypeInv, TypeOK, WorkerState

-----------------------------------------------------------------------------
(* What one step does to a worker and to a target. *)

\* A worker whose own step it is not.  The command thread may start it or take
\* its response; otherwise only the death of its target can concern it.
LEMMA OthersStep ==
  ASSUME Inv, WorldInv, [Next]_vars, NEW w \in Workers, ~WorkerStep(w)
  PROVE  \/ /\ workers'[w].pc = workers[w].pc /\ workers'[w].pid = workers[w].pid
            /\ \/ workers'[w].resp = workers[w].resp
               \/ /\ workers'[w].resp = None
                  /\ \/ CtCheckpointAnswered /\ ct.worker = w
                     \/ CtRestoreAnswered /\ ct.rd = w
         \/ CtFork /\ workers[w].pc = "unused" /\ workers'[w].pc = "setup" /\ workers'[w].resp = None
         \/ /\ workers[w].pc # "unused" /\ workers[w].pid \in Pids
            /\ targets'[workers[w].pid] \in {"adrift", "dead"}
            /\ workers'[w].pc \in {workers[w].pc, "zombie"} /\ workers'[w].pid = workers[w].pid
  <1> DEFINE Same == /\ workers'[w].pc = workers[w].pc /\ workers'[w].pid = workers[w].pid
                     /\ workers'[w].resp = workers[w].resp
             Dies == /\ workers[w].pc # "unused" /\ workers[w].pid \in Pids
                     /\ targets'[workers[w].pid] \in {"adrift", "dead"}
                     /\ workers'[w].pc \in {workers[w].pc, "zombie"} /\ workers'[w].pid = workers[w].pid
  <1>0. workers \in [Workers -> WorkerState] /\ (workers[w].pc # "unused" => workers[w].pid \in Pids)
    BY Zenon DEF Inv, TypeInv, TypeOK, WorkersOK
  <1>1. CASE UNCHANGED workers
    BY Zenon, <1>1
  <1>2. ASSUME NEW P, targets' = Killed(P), workers' = Bereaved(workers, P) PROVE Same \/ Dies
    BY Zenon, <1>0, <1>2 DEF Killed, Bereaved, Watching, WorkerState
  <1>3. ASSUME NEW v \in Workers, v # w, WorkerStep(v) PROVE Same \/ Dies
    <2>1. CASE \E pc : WorkerTo(v, pc)
      BY Zenon, <1>3, <2>1, OneWorker DEF OnlyWorker
    <2>2. CASE CheckpointFails(v)
      BY <1>0, <1>3, <2>2 DEF CheckpointFails, Killed, Bereaved, Watching, WorkerState
    <2>3. CASE WorkerRespond(v) \/ WorkerAccept(v) \/ WorkerReply(v)
      BY Zenon, <1>0, <1>3, <2>3 DEF WorkerRespond, WorkerAccept, WorkerReply
    <2> QED
      BY Zenon, <1>3, <2>1, <2>2, <2>3
         DEF WorkerStep, Worker, WorkerCrash, sigchld_handler_service, WorkerSetup,
           WorkerSeize, WorkerDump, WorkerWatch, WorkerRestore, WorkerEnd
  <1>4. CASE Main \/ MainStop
    <2>1. CASE MainCleanup
      BY Zenon, <1>2, <2>1 DEF MainCleanup
    <2>2. CASE MainAbort
      <3>1. SameWorker(w)
        BY Zenon, <2>2, AbortSentSame DEF MainAbort, SameWorker
      <3> QED
        BY Zenon, <3>1 DEF SameWorker
    <2> QED
      BY Zenon, <1>1, <1>4, <2>1, <2>2
         DEF Main, MainStop, MainAccept, MainAcceptSilent, MainRead, MainReject, MainCanCheckpoint, MainInit,
             MainCanRestore, MainPush, MainPushFull, MainUnqueue, MainJoin, world
  <1>5. CASE CommandThread
    <2>1. CASE CtFork
      BY ZenonT(40), <1>0, <2>1 DEF CtFork, NoWorker
    <2>2. CASE CtSetCheckpointing
      BY Zenon, <2>2, AbortSentSame DEF CtSetCheckpointing, SameWorker
    <2>3. CASE CtCheckpointAnswered
      <3>1. ct.worker \in Workers /\ workers' = [workers EXCEPT ![ct.worker].resp = None]
        BY Zenon, <2>3 DEF CtCheckpointAnswered, Inv, TypeInv, CtLocals
      <3> QED
        BY Zenon, <2>3, <3>1, TakeResponse
    <2>4. CASE CtRestoreAnswered
      <3>1. ct.rd \in Workers /\ workers' = [workers EXCEPT ![ct.rd].resp = None]
        BY Zenon, <2>4 DEF CtRestoreAnswered, Inv, TypeInv, CtLocals
      <3> QED
        BY Zenon, <2>4, <3>1, TakeResponse
    <2>5. CASE CtConnect
      BY Zenon, <1>0, <2>5 DEF CtConnect, WorkerState
    <2>6. CASE CtCheckpointLost \/ CtConnectFails \/ CtRestoreLost
      <3>1. ct.pc \in {"wait_checkpoint", "connect", "wait_restore"} /\ KillBoth(ct.pid, ct.worker)
        BY Zenon, <2>6 DEF CtCheckpointLost, CtConnectFails, CtRestoreLost
      <3>2. ct.pid \in Pids /\ ct.worker \in Workers /\ Of(ct.worker, ct.pid)
        BY Zenon, <3>1 DEF Inv, TypeInv, CtLocals, WorldInv, NamesInv, Of
      <3>3. targets'[ct.pid] \in {"adrift", "dead"}
        BY ZenonT(40), <3>1, <3>2 DEF KillBoth, Killed
      <3>4. /\ workers'[w] = workers[w] \/ Of(w, ct.pid)
            /\ workers'[w].pc \in {workers[w].pc, "zombie"} /\ workers'[w].pid = workers[w].pid
        BY <1>0, <3>1, <3>2 DEF KillBoth, Dispatched, Bereaved, Watching, Of, WorkerState
      <3> QED
        BY Zenon, <3>2, <3>3, <3>4 DEF Of
    <2> QED
      BY ZenonT(40), <1>1, <1>5, <2>5, <2>1, <2>2, <2>3, <2>4, <2>6
         DEF CommandThread, CtPop, CtInterrupted, CtForkFails, CtSetCheckpointed, CtClear, CtClose,
             CtGetWorker, world
  <1>6. ASSUME NEW p \in Pids, TargetKilled(p) PROVE Same \/ Dies
    BY Zenon, <1>2, <1>6 DEF TargetKilled
  <1>7. ASSUME NEW p \in Pids, TargetStopped(p) PROVE Same \/ Dies
    <2>1. targets \in [Pids -> {"running", "frozen", "lost", "adrift", "dead"}]
      BY Zenon DEF Inv, TypeInv, TypeOK
    <2> QED
      BY Zenon, <1>0, <1>7, <2>1 DEF TargetStopped, Bereaved, Watching, WorkerState
  <1> QED
    BY Zenon, <1>1, <1>3, <1>4, <1>5, <1>6, <1>7 DEF Next, WorkerStep, Connect, ClientSend, vars, world

\* A step of a worker itself.
Goes(w, from, to) == workers[w].pc = from /\ workers'[w].pc = to
Mute(w) == workers'[w].resp = workers[w].resp

OwnMove(w) ==
  \/ Goes(w, "setup", "failed") /\ Mute(w)
  \/ Goes(w, "setup", "seize") /\ WorkerSetup(w) /\ Mute(w)
  \/ Goes(w, "seize", "dump") /\ Mute(w) /\ targets[workers[w].pid] \in {"running", "adrift"}
  \/ Goes(w, "dump", "dumped") /\ Mute(w)
  \/ /\ Goes(w, "seize", "failed") \/ Goes(w, "dump", "failed") \/ Goes(w, "restore", "unrestored")
     /\ targets'[workers[w].pid] \in {"adrift", "dead"}
  \/ Goes(w, "dumped", "ready") /\ Mute(w)
  \/ Goes(w, "ready", "accept") /\ workers'[w].resp = MEMCR_OK
  \/ Goes(w, "failed", "zombie") /\ workers'[w].resp = MEMCR_ERROR_GENERAL
  \/ Goes(w, "accept", "restore") /\ Mute(w) /\ workers[w].conn
  \/ Goes(w, "restore", "restored") /\ Mute(w) /\ targets'[workers[w].pid] \in {"running", "adrift"}
  \/ Goes(w, "restored", "ending") /\ workers'[w].resp = MEMCR_OK
  \/ Goes(w, "unrestored", "ending") /\ workers'[w].resp = MEMCR_ERROR_GENERAL
  \/ Goes(w, "ending", "zombie") /\ Mute(w)
  \/ (Goes(w, "dump", "zombie") \/ Goes(w, "restore", "zombie")) /\ Mute(w) /\ WorkerCrash(w)
  \/ Goes(w, "zombie", "reaped") /\ Mute(w)

\* A process that went adrift stays so.
LEMMA BecomesIs ==
  ASSUME Inv, NEW p \in Pids, NEW s, Becomes(p, s)
  PROVE  /\ targets'[p] = IF targets[p] = "adrift" THEN "adrift" ELSE s
         /\ \A q \in Pids : q # p => targets'[q] = targets[q]
  BY Zenon DEF Becomes, Inv, TypeInv, TypeOK

LEMMA OwnStep ==
  ASSUME Inv, NEW w \in Workers, WorkerStep(w)
  PROVE  /\ workers[w].pc # "unused" /\ workers[w].pid \in Pids /\ workers'[w].pid = workers[w].pid
         /\ OwnMove(w)
  <1>0. workers \in [Workers -> WorkerState] /\ (workers[w].pc # "unused" => workers[w].pid \in Pids)
        /\ targets \in [Pids -> {"running", "frozen", "lost", "adrift", "dead"}]
    BY Zenon DEF Inv, TypeInv, TypeOK, WorkersOK
  <1>1. workers[w].pc # "unused"
    BY Zenon
       DEF WorkerStep, Worker, WorkerCrash, sigchld_handler_service, WorkerSetup, WorkerSeize,
       WorkerDump,
           WorkerWatch, WorkerRespond, WorkerAccept, WorkerRestore, WorkerReply, WorkerEnd
  <1>2. ASSUME CheckpointFails(w)
        PROVE  /\ workers'[w].pc = "failed" /\ workers'[w].pid = workers[w].pid
               /\ targets'[workers[w].pid] \in {"adrift", "dead"}
    BY Zenon, <1>0, <1>1, <1>2 DEF CheckpointFails, Killed, Bereaved, WorkerState
  <1>3. CASE WorkerSetup(w)
    BY Zenon, <1>0, <1>1, <1>3, OneWorker DEF WorkerSetup, OwnMove, Goes, Mute
  <1>4. CASE WorkerSeize(w)
    BY Zenon, <1>0, <1>1, <1>2, <1>4, OneWorker DEF WorkerSeize, OwnMove, Goes, Mute
  <1>5. CASE WorkerDump(w)
    BY Zenon, <1>0, <1>1, <1>2, <1>5, OneWorker DEF WorkerDump, OwnMove, Goes, Mute
  <1>6. CASE WorkerWatch(w)
    BY Zenon, <1>0, <1>1, <1>6, OneWorker DEF WorkerWatch, OwnMove, Goes, Mute
  <1>7. CASE WorkerRespond(w)
    BY Zenon, <1>0, <1>1, <1>7 DEF WorkerRespond, OwnMove, Goes, Mute, WorkerState
  <1>8. CASE WorkerAccept(w)
    BY Zenon, <1>0, <1>1, <1>8 DEF WorkerAccept, OwnMove, Goes, Mute, WorkerState
  <1>9. CASE WorkerRestore(w)
    <2>1. CASE targets' = Killed({workers[w].pid}) /\ WorkerTo(w, "unrestored")
      BY Zenon, <1>0, <1>1, <1>9, <2>1, OneWorker DEF WorkerRestore, Killed, OwnMove, Goes
    <2>2. CASE Becomes(workers[w].pid, "running") /\ WorkerTo(w, "restored")
      BY Zenon, <1>0, <1>1, <1>9, <2>2, OneWorker, BecomesIs DEF WorkerRestore, OwnMove, Goes, Mute
    <2> QED
      BY Zenon, <1>9, <2>1, <2>2 DEF WorkerRestore
  <1>10. CASE WorkerReply(w)
    BY <1>0, <1>1, <1>10 DEF WorkerReply, OwnMove, Goes, Mute, WorkerState
  <1>11. CASE WorkerEnd(w)
    BY Zenon, <1>0, <1>1, <1>11, OneWorker DEF WorkerEnd, OwnMove, Goes, Mute
  <1>12. CASE WorkerCrash(w)
    BY Zenon, <1>0, <1>1, <1>12, OneWorker DEF WorkerCrash, OwnMove, Goes, Mute
  <1>13. CASE sigchld_handler_service(w)
    BY Zenon, <1>0, <1>1, <1>13, OneWorker DEF sigchld_handler_service, OwnMove, Goes, Mute
  <1> QED
    BY Zenon, <1>3, <1>4, <1>5, <1>6, <1>7, <1>8, <1>9, <1>10, <1>11, <1>12, <1>13
       DEF WorkerStep, Worker

\* A target changes when a worker seizes it, restores it or crashes, and else
\* only by going adrift or dying, for good.
LEMMA TargetStep ==
  ASSUME Inv, [Next]_vars, NEW p \in Pids
  PROVE  \/ targets'[p] = targets[p] \/ targets'[p] = "dead"
         \/ targets'[p] = "adrift" /\ "sigstop" \in Events
         \/ \E w \in Workers : Of(w, p) /\
              \/ /\ WorkerSeize(w) /\ targets[p] = "running" /\ targets'[p] = "frozen"
                 /\ workers[w].pc = "seize" /\ workers'[w].pc = "dump"
              \/ /\ WorkerRestore(w) /\ targets[p] = "frozen" /\ targets'[p] = "running"
                 /\ workers[w].pc = "restore" /\ workers'[w].pc = "restored"
              \/ WorkerCrash(w) /\ targets[p] = "frozen" /\ targets'[p] = "lost"
  <1> DEFINE Goal(w) == Of(w, p) /\
              \/ /\ WorkerSeize(w) /\ targets[p] = "running" /\ targets'[p] = "frozen"
                 /\ workers[w].pc = "seize" /\ workers'[w].pc = "dump"
              \/ /\ WorkerRestore(w) /\ targets[p] = "frozen" /\ targets'[p] = "running"
                 /\ workers[w].pc = "restore" /\ workers'[w].pc = "restored"
              \/ WorkerCrash(w) /\ targets[p] = "frozen" /\ targets'[p] = "lost"
             Same == \/ targets'[p] = targets[p] \/ targets'[p] = "dead"
                     \/ targets'[p] = "adrift" /\ "sigstop" \in Events
  <1>0. targets \in [Pids -> {"running", "frozen", "lost", "adrift", "dead"}] /\ workers \in [Workers -> WorkerState]
    BY Zenon DEF Inv, TypeInv, TypeOK
  <1>1. UNCHANGED targets => Same
    BY Zenon
  <1>2. \A P : targets' = Killed(P) => Same
    BY Zenon DEF Killed
  <1>3. ASSUME NEW w \in Workers, WorkerStep(w) PROVE Same \/ Goal(w)
    <2>p. workers[w].pc # "unused" => workers[w].pid \in Pids
      BY Zenon DEF Inv, TypeInv, WorkersOK
    <2>1. CASE WorkerSeize(w)
      <3>1. CASE CheckpointFails(w)
        BY Zenon, <1>2, <3>1 DEF CheckpointFails
      <3>2. CASE /\ targets[workers[w].pid] \in {"running", "adrift"}
                 /\ Becomes(workers[w].pid, "frozen")
                 /\ WorkerTo(w, "dump")
        <4>1. workers[w].pc = "seize" /\ workers'[w].pc = "dump" /\ workers[w].pid \in Pids
          BY Zenon, <2>1, <2>p, <3>2, OneWorker DEF WorkerSeize
        <4>2. workers[w].pid # p => Same
          BY Zenon, <3>2, <4>1, BecomesIs
        <4>3. targets[workers[w].pid] = "adrift" /\ workers[w].pid = p => Same
          BY Zenon, <3>2, <4>1, BecomesIs
        <4>4. targets[workers[w].pid] = "running" => targets'[workers[w].pid] = "frozen"
          BY Zenon, <3>2, <4>1, BecomesIs
        <4> QED
          BY Zenon, <2>1, <3>2, <4>1, <4>2, <4>3, <4>4 DEF Of
      <3> QED
        BY Zenon, <2>1, <3>1, <3>2 DEF WorkerSeize
    <2>2. CASE WorkerRestore(w)
      <3>1. CASE targets' = Killed({workers[w].pid})
        BY Zenon, <1>2, <3>1
      <3>2. CASE Restorable(w) /\ Becomes(workers[w].pid, "running") /\ WorkerTo(w, "restored")
        <4>1. workers[w].pc = "restore" /\ workers'[w].pc = "restored" /\ workers[w].pid \in Pids
          BY Zenon, <2>2, <2>p, <3>2, OneWorker DEF WorkerRestore
        <4>2. workers[w].pid # p => Same
          BY Zenon, <3>2, <4>1, BecomesIs
        <4>3. targets[workers[w].pid] = "adrift" /\ workers[w].pid = p => Same
          BY Zenon, <3>2, <4>1, BecomesIs
        <4>4. targets[workers[w].pid] = "frozen" => targets'[workers[w].pid] = "running"
          BY Zenon, <3>2, <4>1, BecomesIs
        <4> QED
          BY Zenon, <2>2, <3>2, <4>1, <4>2, <4>3, <4>4 DEF Of, Restorable
      <3> QED
        BY Zenon, <2>2, <3>1, <3>2 DEF WorkerRestore
    <2>3. CASE WorkerCrash(w)
      BY Zenon, <1>0, <2>3 DEF WorkerCrash, Of
    <2>4. CASE WorkerDump(w)
      BY Zenon, <1>1, <1>2, <2>4 DEF WorkerDump, CheckpointFails
    <2>5. CASE ~(WorkerSeize(w) \/ WorkerRestore(w) \/ WorkerCrash(w) \/ WorkerDump(w))
      BY Zenon, <1>1, <1>3, <2>5
         DEF WorkerStep, Worker, sigchld_handler_service, WorkerSetup, WorkerWatch,
                              WorkerRespond, WorkerAccept, WorkerReply, WorkerEnd
    <2> QED
      BY Zenon, <2>5, <2>1, <2>2, <2>3, <2>4
  <1>4. CASE Main \/ MainStop
    BY Zenon, <1>1, <1>2, <1>4
       DEF Main, MainStop, MainAccept, MainAcceptSilent, MainRead, MainReject, MainCanCheckpoint, MainInit,
           MainCanRestore, MainAbort, MainPush, MainPushFull, MainUnqueue, MainJoin, MainCleanup, world
  <1>5. CASE CommandThread
    BY Zenon, <1>1, <1>2, <1>5
       DEF CommandThread, CtPop, CtInterrupted, CtFork, CtForkFails, CtSetCheckpointing,
           CtCheckpointAnswered, CtCheckpointLost, CtSetCheckpointed, CtClear, CtClose, CtGetWorker,
           CtConnect, CtConnectFails, CtRestoreAnswered, CtRestoreLost, KillBoth, world
  <1>6. ASSUME NEW q \in Pids, TargetKilled(q) PROVE Same
    BY Zenon, <1>2, <1>6 DEF TargetKilled
  <1>7. ASSUME NEW q \in Pids, TargetStopped(q) PROVE Same
    BY Zenon, <1>0, <1>7 DEF TargetStopped
  <1> QED
    BY Zenon, <1>1, <1>3, <1>4, <1>5, <1>6, <1>7 DEF Next, WorkerStep, Connect, ClientSend, vars, world

-----------------------------------------------------------------------------
(* Whom the command thread waits for. *)

\* The step that begins and the steps that end the wait for the answer of a
\* worker, as long as its process lives.
LEMMA WaitStep ==
  ASSUME Inv, WorldInv, [Next]_vars, NEW w \in Workers, NEW p \in Pids, Of(w, p), targets'[p] \notin {"adrift", "dead"}
  PROVE  /\ Restoring(w) => Restoring(w)' \/ (CtRestoreAnswered /\ workers'[w].resp = None)
         /\ Restoring(w)' => \/ Restoring(w)
                             \/ /\ ct.pc = "connect" /\ ct.pid = p /\ rname[p] = w /\ workers[w].pc \in Listening
                                /\ workers'[w].resp = workers[w].resp /\ workers'[w].pc = workers[w].pc
         /\ Checkpointing(w) => Checkpointing(w)' \/ (CtCheckpointAnswered /\ workers'[w].resp = None)
         /\ Checkpointing(w)' => Checkpointing(w)
  <1> USE DEF Restoring, Checkpointing
  <1>0. ct \in CtState /\ CtLocals /\ workers \in [Workers -> WorkerState]
    BY Zenon DEF Inv, TypeInv, TypeOK
  <1>1. CASE UNCHANGED ct
    BY Zenon, <1>1
  <1>2. CASE CtPop \/ CtInterrupted \/ CtForkFails \/ CtSetCheckpointed \/ CtClear \/ CtClose \/ CtGetWorker
    <2>1. ct.pc \notin {"set_checkpointing", "wait_checkpoint", "wait_restore"}
      BY Zenon, <1>2
         DEF CtPop, CtInterrupted, CtForkFails, CtSetCheckpointed, CtClear, CtClose, CtGetWorker
    <2>2. CASE CtPop \/ CtClose
      <3>1. CtPop => ct'.pc \in {"fork", "get_worker"}
        BY Zenon DEF CtPop, CtIdle
      <3>2. CtClose => ct'.pc = "pop"
        BY DEF CtClose, CtIdle
      <3> QED
        BY Zenon, <2>1, <2>2, <3>1, <3>2
    <2>3. CASE CtGetWorker
      <3>1. \/ ct' = [ct EXCEPT !.pc = "close"]
            \/ \E v : ct' = [ct EXCEPT !.pc = "connect", !.worker = v]
        BY Zenon, <2>3 DEF CtGetWorker, CtTo
      <3> QED
        BY Zenon, <1>0, <2>1, <3>1 DEF CtState
    <2>4. CASE \E pc \in {"done", "clear", "close"} : ct' = [ct EXCEPT !.pc = pc]
      BY Zenon, <1>0, <2>1, <2>4 DEF CtState
    <2> QED
      BY Zenon, <1>2, <2>2, <2>3, <2>4
         DEF CtInterrupted, CtForkFails, CtSetCheckpointed, CtClear, CtTo
  <1>3. CASE CtFork
    BY Zenon, <1>0, <1>3 DEF CtFork, CtState, Of
  <1>4. CASE CtSetCheckpointing
    BY Zenon, <1>0, <1>4 DEF CtSetCheckpointing, CtTo, CtState
  <1>5. CASE CtCheckpointAnswered
    <2>1. ct.worker \in Workers /\ workers' = [workers EXCEPT ![ct.worker].resp = None]
          /\ ct.pc = "wait_checkpoint" /\ ct'.pc \in {"set_checkpointed", "clear"}
      BY Zenon, <1>0, <1>5 DEF CtCheckpointAnswered, CtLocals, CtState
    <2> QED
      BY Zenon, <1>5, <2>1, TakeResponse
  <1>6. CASE CtRestoreAnswered
    <2>1. ct.rd \in Workers /\ workers' = [workers EXCEPT ![ct.rd].resp = None]
          /\ ct.pc = "wait_restore" /\ ct'.pc = "clear"
      BY Zenon, <1>0, <1>6 DEF CtRestoreAnswered, CtLocals, CtState, CtTo
    <2> QED
      BY Zenon, <1>6, <2>1, TakeResponse
  <1>7. CASE CtCheckpointLost \/ CtConnectFails \/ CtRestoreLost
    <2>1. /\ ct.pc \in {"wait_checkpoint", "connect", "wait_restore"} /\ ct'.pc = "clear"
          /\ targets' = Killed({ct.pid})
      BY Zenon, <1>0, <1>7
         DEF CtCheckpointLost, CtConnectFails, CtRestoreLost, CtTo, CtState, KillBoth
    <2>2. ct.pid # p
      BY Zenon, <2>1 DEF Killed
    <2> QED
      BY Zenon, <1>0, <2>1, <2>2 DEF CtLocals, WorldInv, NamesInv, Of
  <1>8. CASE CtConnect
    <2>1. /\ ct.pc = "connect" /\ ct'.pc = "wait_restore" /\ ct'.rd = rname[ct.pid]
          /\ rname[ct.pid] # None /\ workers[rname[ct.pid]].pc \in Listening /\ ct.pid \in Pids
          /\ workers' = [workers EXCEPT ![rname[ct.pid]].conn = TRUE]
      BY Zenon, <1>0, <1>8 DEF CtConnect, CtState, Reachable, CtLocals
    <2>2. Of(rname[ct.pid], ct.pid)
      BY Zenon, <2>1 DEF WorldInv, NamesInv
    <2> QED
      BY <1>0, <2>1, <2>2 DEF Of, WorkerState
  <1> QED
    BY Zenon, <1>1, <1>2, <1>3, <1>4, <1>5, <1>6, <1>7, <1>8, WorkerFrame, MainFrame, OutsideFrame
       DEF Next, WorkerStep, CommandThread

-----------------------------------------------------------------------------
(* Who keeps a target frozen, and what the answer of a worker means. *)

\* A frozen process has a worker that keeps it so.
HeldInv(p) == targets[p] = "frozen" => \E w \in Workers : Of(w, p) /\ workers[w].pc \in Holding

\* The answer of a worker that waits in accept() is to the CHECKPOINT, and was
\* good; the answer of one that is ending is to the RESTORE that the command
\* thread is executing, and if it is good the process runs.
ReplyInv(p) ==
  \A w \in Workers : Of(w, p) =>
    /\ workers[w].pc = "accept" => workers[w].resp \in {None, MEMCR_OK}
    /\ workers[w].pc = "ending" /\ workers[w].resp # None => Restoring(w)
    /\ Restoring(w) /\ (workers[w].pc = "restored" \/ workers[w].resp = MEMCR_OK) => targets[p] = "running"

FateInv == \A p \in Pids : targets[p] \notin {"adrift", "dead"} => HeldInv(p) /\ ReplyInv(p)

LEMMA FateNext ==
  Inv /\ WorldInv /\ FateInv /\ [Next]_vars => FateInv'
  <1>HeldNext.
    ASSUME Inv, WorldInv, FateInv, [Next]_vars, NEW p \in Pids, targets'[p] = "frozen"
    PROVE  \E w \in Workers : Of(w, p)' /\ workers'[w].pc \in Holding
    <2> USE <1>HeldNext
    <2>1. CASE targets[p] = "frozen"
      <3>1. PICK w \in Workers : Of(w, p) /\ workers[w].pc \in Holding
        BY Zenon, <2>1 DEF FateInv, HeldInv
      <3>2. Of(w, p)'
        BY Zenon, <3>1, OfKept
      <3>3. workers[w].pc # "unused" /\ workers[w].pid = p
        BY Zenon, <3>1 DEF Of
      <3>4. CASE ~WorkerStep(w)
        BY Zenon, <3>1, <3>2, <3>3, <3>4, OthersStep
      <3>5. CASE WorkerStep(w)
        <4>1. ~WorkerCrash(w)
          BY Zenon, <2>1, <3>3 DEF WorkerCrash, Inv, TypeInv, TypeOK
        <4> QED
          BY Zenon, <3>1, <3>2, <3>3, <3>5, <4>1, OwnStep DEF OwnMove, Goes, Holding
      <3> QED
        BY Zenon, <3>4, <3>5
    <2>2. CASE targets[p] # "frozen"
      <3>1. PICK w \in Workers : Of(w, p) /\ workers'[w].pc = "dump"
        BY Zenon, <2>2, TargetStep
      <3> QED
        BY Zenon, <3>1, OfKept DEF Holding
    <2> QED
      BY Zenon, <2>1, <2>2
  <1>ReplyNext.
    ASSUME Inv, WorldInv, FateInv, [Next]_vars, NEW p \in Pids, targets'[p] \notin {"adrift", "dead"}, targets[p] \notin {"adrift", "dead"}
    PROVE  ReplyInv(p)'
    <2> USE <1>ReplyNext
    <2> SUFFICES ASSUME NEW w \in Workers, Of(w, p)'
                 PROVE  /\ workers'[w].pc = "accept" => workers'[w].resp \in {None, MEMCR_OK}
                        /\ workers'[w].pc = "ending" /\ workers'[w].resp # None => Restoring(w)'
                        /\ Restoring(w)' /\ (workers'[w].pc = "restored" \/ workers'[w].resp = MEMCR_OK)
                             => targets'[p] = "running"
      BY Zenon DEF ReplyInv
    <2>m. None # MEMCR_OK /\ MEMCR_OK # MEMCR_ERROR_GENERAL
      BY Zenon, NoneAssumption DEF MEMCR_OK, MEMCR_ERROR_GENERAL
    <2>p. BusyInv(p) /\ ReplyInv(p)
      BY Zenon DEF WorldInv, PidInv, FateInv
    <2>r. Restoring(w) /\ targets[p] = "running" => targets'[p] = "running"
      <3>1. ASSUME NEW v \in Workers, Of(v, p), workers[v].pc = "seize", Restoring(w) PROVE FALSE
        BY Zenon, <2>p, <3>1 DEF BusyInv, Abortable, Checkpointing, Restoring
      <3> QED
        BY Zenon, <3>1, TargetStep
    <2>1. CASE ~Of(w, p)
      <3>1. workers'[w].pc = "setup" /\ workers'[w].resp = None
        <4>1. ~WorkerStep(w)
          BY Zenon, <2>1, OwnStep DEF Of
        <4> QED
          BY Zenon, <2>1, <4>1, OthersStep DEF Of
      <3> QED
        BY Zenon, <2>m, <3>1
    <2>2. CASE Of(w, p) /\ ~WorkerStep(w)
      <3>1. /\ workers'[w].pc = workers[w].pc
            /\ workers'[w].resp = workers[w].resp \/ workers'[w].resp = None
        BY Zenon, <2>2, OthersStep DEF Of
      <3>2. Restoring(w)' /\ ~Restoring(w) =>
              workers[w].pc # "restored" /\ (workers[w].resp = MEMCR_OK => workers[w].pc \notin Listening)
        <4> SUFFICES ASSUME Restoring(w)', ~Restoring(w)
                     PROVE  workers[w].pc # "restored"
                            /\ (workers[w].resp = MEMCR_OK => workers[w].pc \notin Listening)
          BY Zenon
        <4>1. ct.pc = "connect"
          BY Zenon, <2>2, WaitStep
        <4> QED
          BY Zenon, <2>m, <2>p, <2>2, <4>1
             DEF BusyInv, ReplyInv, Listening, Alive, Abortable, Checkpointing, Restoring
      <3> QED
        BY <2>m, <2>p, <2>r, <2>2, <3>1, <3>2, WaitStep DEF ReplyInv
    <2>3. CASE Of(w, p) /\ WorkerStep(w)
      <3>1. UNCHANGED ct /\ workers[w].pid = p
        BY Zenon, <2>3, WorkerFrame DEF Of
      <3>2. /\ workers[w].pc \in Abortable => ~Restoring(w) /\ workers[w].resp = None
            /\ workers[w].pc = "accept" /\ workers[w].conn => Restoring(w) /\ workers[w].resp = None
            /\ workers[w].pc \in {"restore", "restored", "unrestored"} => Restoring(w) /\ workers[w].resp = None
        BY Zenon, <2>p, <2>3 DEF BusyInv, Checkpointing, Restoring
      <3>3. Restoring(w)' <=> Restoring(w)
        BY Zenon, <3>1 DEF Restoring
      <3> QED
        BY Zenon, <2>m, <2>p, <2>r, <2>3, <3>1, <3>2, <3>3, OwnStep
           DEF OwnMove, Goes, Mute, ReplyInv, Abortable
    <2> QED
      BY Zenon, <2>1, <2>2, <2>3
  <1> SUFFICES ASSUME Inv, WorldInv, FateInv, [Next]_vars
               PROVE  FateInv'
    BY Zenon
  <1> SUFFICES ASSUME NEW p \in Pids, targets'[p] \notin {"adrift", "dead"} PROVE HeldInv(p)' /\ ReplyInv(p)'
    BY Zenon DEF FateInv
  <1>1. targets[p] \notin {"adrift", "dead"}
    BY Zenon, TargetStep
  <1>2. HeldInv(p)'
    BY Zenon, <1>HeldNext DEF HeldInv
  <1> QED
    BY Zenon, <1>1, <1>2, <1>ReplyNext

-----------------------------------------------------------------------------
(* Restore sockets without -S: a name lasts as long as its socket. *)

\* Where the restore socket of a worker is bound.
Bound == Listening \ {"failed"}

NameInv == \A w \in Workers : workers[w].pc \in Bound => rname[workers[w].pid] = w

LEMMA NameNext ==
  ~parasite_socket_dir /\ Inv /\ WorldInv /\ NameInv /\ [Next]_vars => NameInv'
  \* Only a worker's own step moves it on.
  <1>Enters.
    ASSUME Inv, WorldInv, [Next]_vars, NEW w \in Workers, ~WorkerStep(w)
    PROVE  /\ workers'[w].pc \in {workers[w].pc, "setup", "zombie"}
           /\ workers[w].pc # "unused" => workers'[w].pid = workers[w].pid
    BY Zenon, <1>Enters, OthersStep
  <1>NameStep.
    ASSUME ~parasite_socket_dir, Inv, [Next]_vars
    PROVE  UNCHANGED rname \/ \E w \in Workers : WorkerSetup(w)
    <2> USE <1>NameStep
    <2>0. rname = [p \in Pids |-> rname[p]]
      BY Zenon DEF Inv, TypeInv, TypeOK
    <2>1. \A P : cleanup_pid(P) => UNCHANGED rname
      BY Zenon, <2>0 DEF cleanup_pid
    <2>2. ASSUME NEW w \in Workers, WorkerStep(w) PROVE UNCHANGED rname \/ WorkerSetup(w)
      BY Zenon, <2>1, <2>2
         DEF WorkerStep, Worker, WorkerCrash, sigchld_handler_service, WorkerSeize, WorkerDump, WorkerWatch,
             WorkerRespond, WorkerAccept, WorkerRestore, WorkerReply, WorkerEnd, CheckpointFails
    <2>3. Main \/ MainStop => UNCHANGED rname
      BY Zenon, <2>1
         DEF Main, MainStop, MainAccept, MainAcceptSilent, MainRead, MainReject, MainCanCheckpoint, MainInit,
             MainCanRestore, MainAbort, MainPush, MainPushFull, MainUnqueue, MainJoin, MainCleanup, world
    <2>4. CommandThread => UNCHANGED rname
      BY Zenon, <2>1
         DEF CommandThread, CtPop, CtInterrupted, CtFork, CtForkFails, CtSetCheckpointing,
             CtCheckpointAnswered, CtCheckpointLost, CtSetCheckpointed, CtClear, CtClose, CtGetWorker,
             CtConnect, CtConnectFails, CtRestoreAnswered, CtRestoreLost, KillBoth, world
    <2> QED
      BY Zenon, <2>2, <2>3, <2>4, OutsideFrame DEF Next, WorkerStep
  <1> SUFFICES ASSUME ~parasite_socket_dir, Inv, WorldInv, NameInv, [Next]_vars
               PROVE  NameInv'
    BY Zenon
  <1> SUFFICES ASSUME NEW w \in Workers, workers'[w].pc \in Bound PROVE rname'[workers'[w].pid] = w
    BY Zenon DEF NameInv
  <1>0. workers \in [Workers -> WorkerState] /\ (workers[w].pc # "unused" => workers[w].pid \in Pids)
        /\ rname \in [Pids -> Workers \cup {None}]
    BY Zenon DEF Inv, TypeInv, TypeOK, WorkersOK
  <1>1. CASE WorkerSetup(w)
    <2>1. workers[w].pc = "setup" /\ workers'[w].pc \in {"failed", "seize"} /\ workers'[w].pid = workers[w].pid
      BY Zenon, <1>1, OneWorker DEF WorkerSetup
    <2>2. rname' = [rname EXCEPT ![workers[w].pid] = w]
      BY Zenon, <1>1, <2>1, OneWorker DEF WorkerSetup, Bound
    <2> QED
      BY Zenon, <1>0, <2>1, <2>2
  <1>2. CASE ~WorkerSetup(w)
    <2>1. workers[w].pc \in Bound /\ workers'[w].pid = workers[w].pid
      <3>1. CASE ~WorkerStep(w)
        BY Zenon, <3>1, <1>Enters DEF Bound, Listening, Alive
      <3>2. CASE WorkerStep(w)
        BY Zenon, <1>2, <3>2, OwnStep DEF OwnMove, Goes, Bound, Listening, Alive
      <3> QED
        BY Zenon, <3>1, <3>2
    <2>2. rname[workers[w].pid] = w /\ workers[w].pid \in Pids /\ w # None
      BY Zenon, <1>0, <2>1, EnvAssumption DEF NameInv, Bound, Listening, Alive
    <2>3. ASSUME NEW v \in Workers, WorkerSetup(v) PROVE rname'[workers[w].pid] = w
      <3>1. CASE workers[v].pid = workers[w].pid
        <4>1. Reachable(workers[v].pid)
          BY Zenon, <2>1, <2>2, <3>1 DEF Reachable, Bound
        <4> QED
          BY Zenon, <2>2, <2>3, <4>1 DEF WorkerSetup
      <3>2. CASE workers[v].pid # workers[w].pid
        BY Zenon, <1>0, <2>2, <2>3, <3>2 DEF WorkerSetup
      <3> QED
        BY Zenon, <3>1, <3>2
    <2> QED
      BY Zenon, <2>1, <2>2, <2>3, <1>NameStep
  <1> QED
    BY Zenon, <1>1, <1>2

-----------------------------------------------------------------------------
(* With nothing failing. *)

\* Without -S, and with nobody killing processes, no checkpoint or restore
\* failing, no crash and no timeout.  Anything else may happen.
Calm == ~parasite_socket_dir /\ Events \cap {"kill", "sigstop", "fail", "crash", "timeout"} = {}

\* Every process runs or is frozen; the worker the command thread waits for is
\* at work or has answered; the one it is about to connect to is in accept().
CalmInv ==
  main.pc # "down" =>
    /\ \A p \in Pids : targets[p] \in {"running", "frozen"}
    /\ \A w \in Workers :
         /\ Checkpointing(w) => workers[w].pc \in Abortable \cup {"accept"} \cup Gone
         /\ Checkpointing(w) /\ workers[w].pc \in Gone => Answered(w)
         /\ Restoring(w) => workers[w].pc \in {"accept", "restore", "restored", "ending"} \cup Gone
         /\ Restoring(w) /\ workers[w].pc \in {"ending"} \cup Gone => Answered(w)
         /\ workers[w].pc # "unrestored"
    /\ ct.pc = "connect" => workers[ct.worker].pc = "accept"

\* The way down: service_mode stops the command thread before it cleans up.
StopInv ==
  /\ main.pc \in {"join", "cleanup", "down"} => interrupt
  /\ main.pc \in {"cleanup", "down"} => ct.pc = "done"

LEMMA MainDown ==
  ASSUME [Next]_vars, main.pc = "down"
  PROVE  UNCHANGED main
  <1>1. ~Main /\ ~MainStop
    BY Zenon
       DEF Main, MainStop, MainAccept, MainAcceptSilent, MainRead, MainReject, MainCanCheckpoint,
       MainInit,
           MainCanRestore, MainAbort, MainPush, MainPushFull, MainUnqueue, MainJoin, MainCleanup
  <1> QED
    BY Zenon, <1>1, CtFrame, WorkerFrame, OutsideFrame DEF Next, WorkerStep

LEMMA StopNext ==
  Inv /\ StopInv /\ [Next]_vars => StopInv'
  <1>CtDone.
    ASSUME [Next]_vars, ct.pc = "done"
    PROVE  UNCHANGED ct
    <2> USE <1>CtDone
    <2>1. ~CommandThread
      BY Zenon DEF CommandThread, CtPop, CtInterrupted, CtFork, CtForkFails, CtSetCheckpointing,
             CtCheckpointAnswered, CtCheckpointLost, CtSetCheckpointed, CtClear, CtClose, CtGetWorker,
             CtConnect, CtConnectFails, CtRestoreAnswered, CtRestoreLost
    <2> QED
      BY Zenon, <2>1, MainFrame, WorkerFrame, OutsideFrame DEF Next, WorkerStep
  <1> SUFFICES ASSUME Inv, StopInv, [Next]_vars
               PROVE  StopInv'
    BY Zenon
  <1>0. main \in MainState /\ interrupt \in BOOLEAN
    BY Zenon DEF Inv, TypeInv, TypeOK
  <1>1. interrupt => interrupt'
    BY Zenon, CtFrame, WorkerFrame, OutsideFrame
       DEF Next, WorkerStep, Main, MainStop, MainAccept, MainAcceptSilent, MainRead, MainReject,
           MainCanCheckpoint, MainInit, MainCanRestore, MainAbort, MainPush, MainPushFull, MainUnqueue,
           MainJoin, MainCleanup, daemon, Q!Interrupt, Q!PushBack
  <1>2. CASE MainStop
    BY Zenon, <1>0, <1>2 DEF MainStop, MainTo, MainState, StopInv, Q!Interrupt
  <1>3. CASE MainJoin \/ MainCleanup
    <2>1. main.pc \in {"join", "cleanup"} /\ (main.pc = "join" => ct.pc = "done") /\ UNCHANGED ct
      BY Zenon, <1>3 DEF MainJoin, MainCleanup
    <2> QED
      BY Zenon, <1>1, <2>1 DEF StopInv
  <1>4. CASE UNCHANGED main
    BY Zenon, <1>1, <1>4, <1>CtDone DEF StopInv
  <1>5. CASE Main /\ ~MainJoin /\ ~MainCleanup
    <2>1. CASE MainRead \/ MainCanCheckpoint \/ MainInit \/ MainCanRestore \/ MainAbort \/ MainPush
               \/ MainPushFull \/ MainUnqueue
      <3>1. \/ main' = MainIdle
            \/ \E pc \in {"can_checkpoint", "can_restore", "init", "abort", "push", "unqueue"} :
                 main' = [main EXCEPT !.pc = pc]
        BY Zenon, <2>1
           DEF MainRead, MainCanCheckpoint, MainInit, MainCanRestore, MainAbort, MainPush,
           MainPushFull,
                    MainUnqueue, MainTo, MainDone, Served
      <3>2. main'.pc \notin {"join", "cleanup", "down"}
        BY <1>0, <3>1 DEF MainIdle, MainState
      <3> QED
        BY Zenon, <3>2 DEF StopInv
    <2>2. ASSUME NEW c \in Clients, MainAccept(c) \/ MainAcceptSilent(c) PROVE StopInv'
      <3>1. main'.pc \in {"can_checkpoint", "can_restore", "read"}
        BY <2>2 DEF MainAccept, MainAcceptSilent, Served
      <3> QED
        BY Zenon, <3>1 DEF StopInv
    <2> QED
      BY Zenon, <1>4, <1>5, <2>1, <2>2 DEF Main, MainReject, daemon
  <1> QED
    BY Zenon, <1>2, <1>3, <1>4, <1>5, CtFrame, WorkerFrame, OutsideFrame DEF Next, WorkerStep

LEMMA CalmNext ==
  Least /\ Calm /\ Inv /\ WorldInv /\ FateInv /\ NameInv /\ CalmInv /\ [Next]_vars /\ Inv' /\ WorldInv' =>
    CalmInv'
  \* What can kill a process.
  <1>DeathStep.
    ASSUME Inv, WorldInv, [Next]_vars, NEW p \in Pids, targets[p] # "dead", targets'[p] = "dead"
    PROVE  \/ MainCleanup \/ (\E q \in Pids : TargetKilled(q))
           \/ CtCheckpointLost \/ CtConnectFails \/ CtRestoreLost
           \/ \E w \in Workers : Of(w, p) /\
                \/ workers[w].pc = "seize" /\ (targets[p] # "running" \/ "fail" \in Events)
                \/ workers[w].pc = "dump" /\ (targets[p] # "frozen" \/ "fail" \in Events)
                \/ workers[w].pc = "restore" /\ (~Restorable(w) \/ "fail" \in Events)
    <2> USE <1>DeathStep
    <2>0. targets \in [Pids -> {"running", "frozen", "lost", "adrift", "dead"}]
      BY Zenon DEF Inv, TypeInv, TypeOK
    <2>1. ~UNCHANGED targets
      BY Zenon
    <2>2. ASSUME NEW w \in Workers, WorkerStep(w)
          PROVE  Of(w, p) /\
                   \/ workers[w].pc = "seize" /\ (targets[p] # "running" \/ "fail" \in Events)
                   \/ workers[w].pc = "dump" /\ (targets[p] # "frozen" \/ "fail" \in Events)
                   \/ workers[w].pc = "restore" /\ (~Restorable(w) \/ "fail" \in Events)
      <3>1. targets' = Killed({workers[w].pid}) => workers[w].pid = p
        BY Zenon DEF Killed
      <3>2. CASE WorkerSeize(w)
        BY Zenon, <2>0, <3>1, <3>2 DEF WorkerSeize, CheckpointFails, Becomes, Of
      <3>3. CASE WorkerDump(w)
        BY Zenon, <2>0, <2>1, <3>1, <3>3 DEF WorkerDump, CheckpointFails, Of
      <3>4. CASE WorkerRestore(w)
        BY Zenon, <2>0, <3>1, <3>4 DEF WorkerRestore, Becomes, Of
      <3>5. ~WorkerCrash(w)
        BY Zenon, <2>0 DEF WorkerCrash
      <3> QED
        BY Zenon, <2>1, <2>2, <3>2, <3>3, <3>4, <3>5
           DEF WorkerStep, Worker, sigchld_handler_service, WorkerSetup, WorkerWatch, WorkerRespond,
               WorkerAccept, WorkerReply, WorkerEnd
    <2>3. Main \/ MainStop => MainCleanup
      BY Zenon, <2>1
         DEF Main, MainStop, MainAccept, MainAcceptSilent, MainRead, MainReject, MainCanCheckpoint, MainInit,
             MainCanRestore, MainAbort, MainPush, MainPushFull, MainUnqueue, MainJoin, world
    <2>4. CommandThread => CtCheckpointLost \/ CtConnectFails \/ CtRestoreLost
      BY Zenon, <2>1
         DEF CommandThread, CtPop, CtInterrupted, CtFork, CtForkFails, CtSetCheckpointing,
             CtCheckpointAnswered, CtSetCheckpointed, CtClear, CtClose, CtGetWorker, CtConnect,
             CtRestoreAnswered, world
    <2>5. ASSUME NEW q \in Pids, TargetStopped(q) PROVE FALSE
      BY Zenon, <2>0, <2>5 DEF TargetStopped
    <2> QED
      BY Zenon, <2>1, <2>2, <2>3, <2>4, <2>5 DEF Next, WorkerStep, Connect, ClientSend, vars, world
  \* A process is not seized twice: while one worker holds it, no other can have
  \* the restore name and pass setup_restore_socket_worker.
  <1>SeizedOnce.
    ASSUME Inv, WorldInv, FateInv, NameInv, NEW p \in Pids, NEW w \in Workers, Of(w, p),
           workers[w].pc = "seize", targets[p] \notin {"adrift", "dead"}
    PROVE  targets[p] # "frozen"
    <2> USE <1>SeizedOnce
    <2> SUFFICES ASSUME targets[p] = "frozen" PROVE FALSE
      BY Zenon
    <2>1. PICK v \in Workers : Of(v, p) /\ workers[v].pc \in Holding
      BY Zenon DEF FateInv, HeldInv
    <2>2. workers[w].pc \in Bound /\ workers[v].pc \in Bound
      BY Zenon, <2>1 DEF Bound, Listening, Alive, Holding
    <2>3. v = w
      BY Zenon, <2>1, <2>2 DEF NameInv, Of
    <2> QED
      BY Zenon, <2>1, <2>3 DEF Holding
  <1> SUFFICES ASSUME Least, Calm, Inv, WorldInv, FateInv, NameInv, CalmInv, [Next]_vars, Inv', WorldInv'
               PROVE  CalmInv'
    BY Zenon
  <1> SUFFICES ASSUME main'.pc # "down" PROVE CalmInv'
    BY Zenon DEF CalmInv
  <1>1. main.pc # "down" /\ ~MainCleanup
    <2>1. main.pc = "down" => UNCHANGED main
      BY Zenon, MainDown
    <2>2. MainCleanup => main'.pc = "down"
      BY Zenon DEF MainCleanup, MainTo, Inv, TypeInv, TypeOK, MainState
    <2> QED
      BY Zenon, <2>1, <2>2
  <1>2. /\ \A p \in Pids : targets[p] \in {"running", "frozen"}
        /\ \A w \in Workers :
             /\ Checkpointing(w) => workers[w].pc \in Abortable \cup {"accept"} \cup Gone
             /\ Checkpointing(w) /\ workers[w].pc \in Gone => Answered(w)
             /\ Restoring(w) => workers[w].pc \in {"accept", "restore", "restored", "ending"} \cup Gone
             /\ Restoring(w) /\ workers[w].pc \in {"ending"} \cup Gone => Answered(w)
             /\ workers[w].pc # "unrestored"
        /\ ct.pc = "connect" => workers[ct.worker].pc = "accept"
    BY Zenon, <1>1 DEF CalmInv
  <1>3. \A p \in Pids : HoldInv(p) /\ BusyInv(p) /\ RowInv(p) /\ ImageInv(p) /\ HeldInv(p) /\ ReplyInv(p)
    BY Zenon, <1>2 DEF WorldInv, PidInv, FateInv
  <1>4. CtLocals /\ NamesInv /\ Inv' /\ NamesInv'
    BY Zenon DEF Inv, TypeInv, WorldInv
  <1>5. ct.pc = "connect" => Reachable(ct.pid) /\ rname[ct.pid] = ct.worker
    <2> SUFFICES ASSUME ct.pc = "connect" PROVE Reachable(ct.pid) /\ rname[ct.pid] = ct.worker
      BY Zenon
    <2>1. ct.worker \in Workers /\ Of(ct.worker, ct.pid) /\ workers[ct.worker].pc = "accept"
      BY Zenon, <1>2, <1>4 DEF CtLocals, NamesInv
    <2> QED
      BY Zenon, <2>1, EnvAssumption DEF NameInv, Reachable, Of, Bound, Listening, Alive
  <1>6. ASSUME NEW p \in Pids PROVE targets'[p] # "dead"
    <2>1. ~CtCheckpointLost /\ ~CtRestoreLost /\ ~CtConnectFails
      BY Zenon, <1>2, <1>4, <1>5
         DEF CtCheckpointLost, CtRestoreLost, CtConnectFails, ReadFails, CtLocals, Checkpointing, Restoring, Calm
    <2>2. ASSUME NEW w \in Workers, Of(w, p) PROVE workers[w].pc = "seize" => targets[p] = "running"
      BY Zenon, <1>2, <2>2, <1>SeizedOnce
    <2>3. ASSUME NEW w \in Workers, Of(w, p), workers[w].pc \in {"dump", "restore"} PROVE targets[p] = "frozen"
      BY Zenon, <1>3, <2>3 DEF HoldInv, Holding
    <2>4. ASSUME NEW w \in Workers, Of(w, p), workers[w].pc = "restore" PROVE Restorable(w)
      BY Zenon, <1>3, <2>3, <2>4 DEF ImageInv, Restorable, Of
    <2> QED
      BY Zenon, <1>1, <1>2, <2>1, <2>2, <2>3, <2>4, <1>DeathStep DEF TargetKilled, Calm
  <1>7. ASSUME NEW p \in Pids PROVE targets'[p] \in {"running", "frozen"}
    BY Zenon, <1>2, <1>6, TargetStep DEF WorkerCrash, Calm
  <1>8. ASSUME NEW w \in Workers
        PROVE  /\ Checkpointing(w)' => workers'[w].pc \in Abortable \cup {"accept"} \cup Gone
               /\ Checkpointing(w)' /\ workers'[w].pc \in Gone => Answered(w)'
               /\ Restoring(w)' => workers'[w].pc \in {"accept", "restore", "restored", "ending"} \cup Gone
               /\ Restoring(w)' /\ workers'[w].pc \in {"ending"} \cup Gone => Answered(w)'
               /\ workers'[w].pc # "unrestored"
    <2>a. None # MEMCR_OK /\ None # MEMCR_ERROR_GENERAL
      BY Zenon, NoneAssumption
    <2>1. CASE workers[w].pc = "unused"
      <3>1. workers'[w].pc \in {"unused", "setup"}
        BY Zenon, <2>1, OthersStep, OwnStep
      <3>2. workers'[w].pc = "unused" => ~Checkpointing(w)' /\ ~Restoring(w)'
        BY Zenon, <1>4 DEF Inv, TypeInv, CtLocals, NamesInv, Checkpointing, Restoring, Of
      <3>3. workers'[w].pc = "setup" => CtFork
        BY Zenon, <2>1, OthersStep, OwnStep
      <3>4. CtFork => ~Restoring(w)'
        BY Zenon DEF CtFork, Restoring, Inv, TypeInv, TypeOK, CtState
      <3> QED
        BY Zenon, <3>1, <3>2, <3>3, <3>4 DEF Abortable, Gone
    <2>2. CASE workers[w].pc # "unused"
      <3>1. PICK p \in Pids : Of(w, p) /\ workers[w].pid = p
        BY Zenon, <2>2, WorkerPid
      <3>2. targets'[p] \notin {"adrift", "dead"}
        BY Zenon, <1>7
      <3>3. CASE ~WorkerStep(w)
        <4>1. /\ workers'[w].pc = workers[w].pc
              /\ \/ workers'[w].resp = workers[w].resp
                 \/ CtCheckpointAnswered /\ ct.worker = w
                 \/ CtRestoreAnswered /\ ct.rd = w
          BY Zenon, <2>2, <3>1, <3>2, <3>3, OthersStep
        <4>2. CtCheckpointAnswered \/ CtRestoreAnswered => ~Checkpointing(w)' /\ ~Restoring(w)'
          BY Zenon
             DEF CtCheckpointAnswered, CtRestoreAnswered, CtTo, Checkpointing, Restoring, Inv,
             TypeInv, TypeOK, CtState
        <4>3. Restoring(w)' => Restoring(w) \/ workers[w].pc = "accept"
          BY <1>2, <1>5, <3>1, <3>2, WaitStep
        <4>4. Checkpointing(w)' => Checkpointing(w)
          BY ZenonT(40), <3>1, <3>2, WaitStep
        <4> QED
          BY Zenon, <1>2, <4>1, <4>2, <4>3, <4>4 DEF Answered, Gone
      <3>4. CASE WorkerStep(w)
        <4>1. (Checkpointing(w)' <=> Checkpointing(w)) /\ (Restoring(w)' <=> Restoring(w))
          BY Zenon, <3>4, WorkerFrame DEF Checkpointing, Restoring
        <4>2. ~WorkerCrash(w)
          BY Zenon DEF WorkerCrash, Calm
        <4>3. BusyInv(p)
          BY Zenon, <1>3
        <4>4. workers[w].pc = "accept" /\ workers[w].conn => Restoring(w) /\ ~Checkpointing(w)
          BY Zenon, <3>1, <4>3 DEF BusyInv, Checkpointing, Restoring
        <4>5. workers[w].pc \in {"restore", "restored", "unrestored"} => ~Checkpointing(w)
          BY Zenon, <3>1, <4>3 DEF BusyInv, Checkpointing, Restoring
        <4> QED
          BY SMTT(30), <1>2, <2>a, <3>1, <3>2, <3>4, <4>1, <4>2, <4>4, <4>5, OwnStep
             DEF OwnMove, Goes, Mute, Abortable, Gone, Answered
      <3> QED
        BY Zenon, <3>3, <3>4
    <2> QED
      BY Zenon, <2>1, <2>2
  <1>9. ASSUME ct'.pc = "connect" PROVE workers'[ct'.worker].pc = "accept"
    <2>1. CASE UNCHANGED ct
      <3>1. PICK w \in Workers : ct.worker = w /\ workers[w].pc = "accept"
        BY Zenon, <1>2, <1>4, <1>9, <2>1 DEF CtLocals
      <3>2. PICK p \in Pids : Of(w, p) /\ workers[w].pid = p
        BY Zenon, <3>1, WorkerPid
      <3>3. ~workers[w].conn
        BY Zenon, <1>3, <1>9, <2>1, <3>1, <3>2 DEF BusyInv, Restoring
      <3>4. workers'[w].pc = "accept"
        BY Zenon, <1>7, <3>1, <3>2, <3>3, OthersStep, OwnStep DEF OwnMove, Goes
      <3> QED
        BY Zenon, <2>1, <3>1, <3>4
    <2>2. CASE CtGetWorker
      <3>1. /\ ct'.worker = get_pid_worker(table, ct.pid) /\ ct'.worker # PID_INVALID
            /\ ct.pc = "get_worker" /\ UNCHANGED workers
        BY Zenon, <1>9, <2>2 DEF CtGetWorker, CtTo, world, Inv, TypeInv, TypeOK, CtState
      <3>2. PICK i \in RowsOf(table, ct.pid) : get_pid_worker(table, ct.pid) = table[i].worker
        <4>1. RowsOf(table, ct.pid) \in SUBSET Rows /\ RowsOf(table, ct.pid) # {}
          BY Zenon, <3>1 DEF get_pid_worker, RowsOf
        <4> QED
          BY Zenon, <4>1, MinRow DEF get_pid_worker
      <3>3. PICK p \in Pids : ct.pid = p
        BY Zenon, <1>4, <3>1 DEF CtLocals
      <3>4. PICK w \in Workers : table[i].worker = w /\ Of(w, p) /\ workers[w].pc \in {"accept", "restore"}
        <4>1. i \in Rows /\ table[i].pid = p /\ table[i].worker # PID_INVALID
          BY Zenon, <3>1, <3>2, <3>3 DEF RowsOf
        <4> QED
          BY Zenon, <1>3, <1>4, <3>1, <3>3, <4>1, RowWorker DEF NamesInv, RowInv
      <3>5. workers[w].pc # "restore"
        BY Zenon, <1>3, <3>1, <3>4 DEF BusyInv, Restoring
      <3> QED
        BY Zenon, <3>1, <3>2, <3>4, <3>5
    <2>3. CommandThread => CtGetWorker
      <3>1. \A pc : ct' = [ct EXCEPT !.pc = pc] => pc = "connect"
        BY Zenon, <1>9 DEF Inv, TypeInv, TypeOK, CtState
      <3>2. CtPop => ct'.pc \in {"fork", "get_worker"}
        BY Zenon DEF CtPop, CtIdle
      <3>4. CtClose => ct'.pc = "pop"
        BY DEF CtClose, CtIdle
      <3>3. ~CtFork /\ ~CtConnect
        BY Zenon, <1>9 DEF CtFork, CtConnect, Inv, TypeInv, TypeOK, CtState
      <3> QED
        BY Zenon, <1>9, <3>1, <3>2, <3>3, <3>4
           DEF CommandThread, CtInterrupted, CtForkFails, CtSetCheckpointing, CtCheckpointAnswered,
               CtCheckpointLost, CtSetCheckpointed, CtClear, CtConnectFails, CtRestoreAnswered,
               CtRestoreLost, CtTo
    <2> QED
      BY Zenon, <2>1, <2>2, <2>3, WorkerFrame, MainFrame, OutsideFrame DEF Next, WorkerStep
  <1> QED
    BY Zenon, <1>7, <1>8, <1>9 DEF CalmInv

=============================================================================
