------------------------- MODULE ServiceClientProofs --------------------------
(* Clients, their connections and the commands on their way through the       *)
(* daemon: whom an answer goes to, where a CHECKPOINT is, and who takes rows  *)
(* from processes.                                                            *)
EXTENDS ServiceProofs

-----------------------------------------------------------------------------
(* Connections. *)

\* A client that the listener has not accepted has no answer.
IdleInv ==
  \A c \in Clients : /\ clients[c].st = "idle" => clients[c].cmd = None
                     /\ clients[c].st \in {"idle", "connected", "backlog"} => clients[c].ans = None

\* A descriptor belongs to one accepted client, and a client has one descriptor.
FdInv ==
  /\ \A fd \in Fds : fds[fd] # None => clients[fds[fd]].st \in {"opened", "accepted"}
  /\ \A e, f \in Fds : fds[e] = fds[f] /\ fds[e] # None => e = f

\* Descriptor fd is that of a client who sent cmd for p and waits for the answer.
Owner(fd, cmd, p) ==
  /\ fds[fd] # None
  /\ clients[fds[fd]].cmd = cmd /\ clients[fds[fd]].pid = p /\ clients[fds[fd]].ans = None

MainBusy == main.pc \in {"read", "can_checkpoint", "init", "can_restore", "abort", "push", "unqueue"}
CtCheckpoints == {"fork", "set_checkpointing", "wait_checkpoint"}
CtRestores == {"get_worker", "connect", "wait_restore"}
CtBusy == ct.pc \in CtCheckpoints \cup CtRestores

\* A command that is read, queued or executed carries the descriptor of the
\* client that sent it, and no two carry the same.
CdInv ==
  /\ MainBusy /\ main.cmd \in Commands => Owner(main.cd, main.cmd, main.pid)
  /\ \A i \in 1 .. Len(queue) : Owner(queue[i].cd, queue[i].cmd, queue[i].pid)
  /\ ct.pc \in CtCheckpoints => Owner(ct.cd, MEMCR_CHECKPOINT, ct.pid)
  /\ ct.pc \in CtRestores => Owner(ct.cd, MEMCR_RESTORE, ct.pid)
  /\ \A i, j \in 1 .. Len(queue) : queue[i].cd = queue[j].cd => i = j
  /\ MainBusy => \A i \in 1 .. Len(queue) : queue[i].cd # main.cd
  /\ CtBusy => \A i \in 1 .. Len(queue) : queue[i].cd # ct.cd
  /\ CtBusy /\ MainBusy => ct.cd # main.cd

\* What an answer changes.
LEMMA ToldIs ==
  ASSUME Inv, NEW fd \in Fds, NEW code, clients' = Told(fd, code)
  PROVE  \A c \in Clients :
           /\ clients'[c].st = clients[c].st /\ clients'[c].cmd = clients[c].cmd /\ clients'[c].pid = clients[c].pid
           /\ clients[c].ans # None \/ fds[fd] # c => clients'[c].ans = clients[c].ans
           /\ clients[c].ans = None /\ fds[fd] = c => clients'[c].ans = code
  <1>1. clients \in [Clients -> ClientState] /\ fds[fd] \in Clients \cup {None} /\ None \notin Clients
    BY Zenon, EnvAssumption DEF Inv, TypeInv, TypeOK
  <1>2. CASE fds[fd] = None \/ clients[fds[fd]].ans # None
    BY Zenon, <1>1, <1>2 DEF Told
  <1>3. CASE fds[fd] # None /\ clients[fds[fd]].ans = None
    <2>1. clients' = [clients EXCEPT ![fds[fd]].ans = code] /\ fds[fd] \in Clients
      BY Zenon, <1>1, <1>3 DEF Told
    <2> QED
      BY <1>1, <1>3, <2>1 DEF ClientState
  <1> QED
    BY Zenon, <1>2, <1>3

\* What becomes of a descriptor that is answered on or closed.
FdKept(fd) == fds' = fds \/ Released(fd)

\* An accepted client's descriptor has been free.
LEMMA AcceptIs ==
  ASSUME Least, Inv, IdleInv, FdInv, NEW c \in Clients, MainAccept(c) \/ MainAcceptSilent(c)
  PROVE  \E fd \in Fds :
           /\ fds[fd] = None /\ fds' = [fds EXCEPT ![fd] = c]
           /\ main' = [pc |-> main'.pc, cmd |-> clients[c].cmd, pid |-> clients[c].pid, cd |-> fd]
           /\ main'.pc \in {"can_checkpoint", "can_restore", "read"}
           /\ \A e \in Fds : fds[e] # c
           /\ \A d \in Clients : /\ clients'[d].cmd = clients[d].cmd /\ clients'[d].pid = clients[d].pid
                                 /\ clients'[d].ans = clients[d].ans
                                 /\ d # c => clients'[d].st = clients[d].st
           /\ clients'[c].st \in {"opened", "accepted"} /\ clients[c].ans = None
  <1>1. clients \in [Clients -> ClientState] /\ None \notin Clients
    BY Zenon, EnvAssumption DEF Inv, TypeInv, TypeOK
  <1>2. PICK fd : fd = Min(FreeFds)
    BY Zenon
  <1>3. FreeFds # {} /\ clients[c].st \in {"backlog", "connected"}
    BY Zenon DEF MainAccept, MainAcceptSilent
  <1>4. fd \in Fds /\ fds[fd] = None
    <2>1. FreeFds \in SUBSET Nat
      BY DEF FreeFds, Fds
    <2> QED
      BY Zenon, <1>2, <1>3, <2>1, MinElement DEF FreeFds
  <1>5. fds' = [fds EXCEPT ![fd] = c]
    BY Zenon, <1>2 DEF MainAccept, MainAcceptSilent
  <1>6. /\ main' = [pc |-> main'.pc, cmd |-> clients[c].cmd, pid |-> clients[c].pid, cd |-> fd]
        /\ main'.pc \in {"can_checkpoint", "can_restore", "read"}
    <2>1. MainAccept(c) => main' = [pc |-> Served(clients[c].cmd), cmd |-> clients[c].cmd, pid |-> clients[c].pid, cd |-> fd]
      BY Zenon, <1>2 DEF MainAccept
    <2>2. MainAcceptSilent(c) => main' = [pc |-> "read", cmd |-> clients[c].cmd, pid |-> clients[c].pid, cd |-> fd]
      BY Zenon, <1>2 DEF MainAcceptSilent
    <2> QED
      BY <2>1, <2>2 DEF Served
  <1>7. \A e \in Fds : fds[e] # c
    BY Zenon, <1>1, <1>3 DEF FdInv
  <1>8. clients' = [clients EXCEPT ![c].st = "accepted"] \/ clients' = [clients EXCEPT ![c].st = "opened"]
    BY Zenon DEF MainAccept, MainAcceptSilent
  <1>9. clients[c].ans = None
    BY Zenon, <1>3 DEF IdleInv
  <1>10. \A d \in Clients : /\ clients'[d].cmd = clients[d].cmd /\ clients'[d].pid = clients[d].pid
                            /\ clients'[d].ans = clients[d].ans
                            /\ d # c => clients'[d].st = clients[d].st
    BY <1>1, <1>8 DEF ClientState
  <1>11. clients'[c].st \in {"opened", "accepted"}
    BY <1>1, <1>8 DEF ClientState
  <1> QED
    BY Zenon, <1>4, <1>5, <1>6, <1>7, <1>9, <1>10, <1>11

-----------------------------------------------------------------------------
(* What a step does to the clients and to their descriptors. *)

\* A client that has not been accepted does something, or is turned away.
Talks(c) ==
  /\ UNCHANGED <<fds, queue, main, ct>>
  /\ \A d \in Clients : d # c => clients'[d] = clients[d]
  /\ \/ /\ clients[c].st = "idle" /\ clients'[c].st \in {"connected", "backlog"} /\ clients'[c].ans = None
     \/ /\ clients'[c].cmd = clients[c].cmd /\ clients'[c].pid = clients[c].pid
        /\ \/ /\ clients'[c].ans = clients[c].ans
              /\ \/ clients[c].st = "connected" /\ clients'[c].st = "backlog"
                 \/ clients[c].st = "opened" /\ clients'[c].st = "accepted"
           \/ /\ clients[c].st = "backlog" /\ clients'[c].st = "accepted"
              /\ clients'[c].ans \in {"eof", MEMCR_ERROR_GENERAL}

\* The listener answers a command it does not queue and closes the connection.
MainAnswers ==
  /\ MainBusy /\ main' = MainIdle
  /\ UNCHANGED <<queue, ct>>
  /\ main.cd \in Fds
  /\ Released(main.cd)
  /\ \E code \in {MEMCR_ERROR_GENERAL, MEMCR_INVALID_PID, "eof"} : clients' = Told(main.cd, code)

\* The command thread answers the command it executes.
CtAnswers ==
  /\ CtBusy /\ ct'.pc \in {"set_checkpointed", "clear", "close"}
  /\ UNCHANGED <<queue, main>>
  /\ ct.cd \in Fds
  /\ FdKept(ct.cd)
  /\ \/ clients' = Told(ct.cd, MEMCR_ERROR_GENERAL)
     \/ CtCheckpointAnswered /\ clients' = Told(ct.cd, workers[ct.worker].resp)
     \/ CtRestoreAnswered /\ clients' = Told(ct.cd, workers[ct.rd].resp)

LEMMA Traffic ==
  Inv /\ [Next]_vars =>
    \/ UNCHANGED <<clients, fds>>
    \/ \E c \in Clients : Talks(c) \/ MainAccept(c) \/ MainAcceptSilent(c)
    \/ MainAnswers \/ CtAnswers \/ CtClose
  <1>TalksStep.
    ASSUME Inv, NEW c \in Clients,
           (\E cmd \in ClientCommands, p \in Pids : Connect(c, cmd, p)) \/ ClientSend(c) \/ MainReject(c)
    PROVE  Talks(c)
    <2> USE <1>TalksStep
    <2>1. clients \in [Clients -> ClientState]
      BY Zenon DEF Inv, TypeInv, TypeOK
    <2>2. CASE \E cmd \in ClientCommands, p \in Pids : Connect(c, cmd, p)
      <3>1. /\ clients[c].st = "idle" /\ UNCHANGED <<fds, queue, main, ct>>
            /\ \E st \in {"connected", "backlog"} : \E cmd, p :
                 clients' = [clients EXCEPT ![c] = [st |-> st, cmd |-> cmd, pid |-> p, ans |-> None]]
        BY Zenon, <2>2 DEF Connect, daemon
      <3> QED
        BY <2>1, <3>1 DEF Talks
    <2>3. CASE ClientSend(c)
      <3>1. /\ UNCHANGED <<fds, queue, main, ct>>
            /\ \/ clients[c].st = "connected" /\ clients' = [clients EXCEPT ![c].st = "backlog"]
               \/ clients[c].st = "opened"    /\ clients' = [clients EXCEPT ![c].st = "accepted"]
        BY Zenon, <2>3 DEF ClientSend, daemon
      <3> QED
        BY <2>1, <3>1 DEF Talks, ClientState
    <2>4. CASE MainReject(c)
      <3>1. /\ UNCHANGED <<fds, queue, main, ct>> /\ clients[c].st = "backlog"
            /\ \E a \in {"eof", MEMCR_ERROR_GENERAL} : clients' = [clients EXCEPT ![c].st = "accepted", ![c].ans = a]
        BY Zenon, <2>4 DEF MainReject, daemon
      <3> QED
        BY <2>1, <3>1 DEF Talks, ClientState
    <2> QED
      BY Zenon, <2>2, <2>3, <2>4
  <1>MainTraffic.
    ASSUME Inv, Main \/ MainStop
    PROVE  \/ UNCHANGED <<clients, fds>>
           \/ \E c \in Clients : Talks(c) \/ MainAccept(c) \/ MainAcceptSilent(c)
           \/ MainAnswers
    <2> USE <1>MainTraffic
    <2>1. CASE UNCHANGED <<clients, fds>>
      BY Zenon, <2>1
    <2>2. CASE \E c \in Clients : MainAccept(c) \/ MainReject(c) \/ MainAcceptSilent(c)
      BY Zenon, <2>2, <1>TalksStep
    <2>3. ASSUME NEW code \in {MEMCR_ERROR_GENERAL, MEMCR_INVALID_PID, "eof"},
                 main.pc \in {"read", "can_checkpoint", "can_restore", "push", "unqueue"},
                 MainDone, RespondAndClose(main.cd, code), UNCHANGED <<queue, ct>>
          PROVE  MainAnswers
      <3>1. MainBusy /\ main.cd \in Fds
        BY Zenon, <2>3 DEF MainBusy, Inv, TypeInv, MainLocals
      <3> QED
        BY Zenon, <2>3, <3>1 DEF MainAnswers, MainDone, RespondAndClose, send_response_to_client
    <2>4. CASE MainRead
      <3>1. \/ UNCHANGED <<clients, fds>>
            \/ \E code \in {MEMCR_ERROR_GENERAL, "eof"} : MainDone /\ RespondAndClose(main.cd, code)
        BY Zenon, <2>4 DEF MainRead, Close, RespondAndClose, send_response_to_client
      <3>2. main.pc = "read" /\ UNCHANGED <<queue, ct>>
        BY Zenon, <2>4 DEF MainRead
      <3> QED
        BY Zenon, <2>1, <2>3, <3>1, <3>2
    <2>5. CASE MainCanCheckpoint
      <3>1. /\ main.pc = "can_checkpoint" /\ UNCHANGED <<queue, ct>>
            /\ UNCHANGED <<clients, fds>> \/ (MainDone /\ RespondAndClose(main.cd, MEMCR_INVALID_PID))
        BY Zenon, <2>5 DEF MainCanCheckpoint
      <3> QED
        BY Zenon, <2>1, <2>3, <3>1
    <2>6. CASE MainCanRestore
      <3>1. /\ main.pc = "can_restore" /\ UNCHANGED <<queue, ct>>
            /\ UNCHANGED <<clients, fds>> \/ (MainDone /\ RespondAndClose(main.cd, MEMCR_INVALID_PID))
        BY Zenon, <2>6 DEF MainCanRestore
      <3> QED
        BY Zenon, <2>1, <2>3, <3>1
    <2>7. CASE MainPushFull \/ MainUnqueue
      <3>1. /\ main.pc \in {"push", "unqueue"} /\ UNCHANGED <<queue, ct>>
            /\ UNCHANGED <<clients, fds>> \/ (MainDone /\ RespondAndClose(main.cd, MEMCR_ERROR_GENERAL))
        BY Zenon, <2>7 DEF MainPushFull, MainUnqueue
      <3> QED
        BY Zenon, <2>1, <2>3, <3>1
    <2>8. CASE MainInit \/ MainAbort \/ MainPush \/ MainJoin \/ MainCleanup \/ MainStop
      BY Zenon, <2>1, <2>8 DEF MainInit, MainAbort, MainPush, MainJoin, MainCleanup, MainStop
    <2> QED
      BY Zenon, <2>2, <2>4, <2>5, <2>6, <2>7, <2>8 DEF Main
  <1>CtTraffic.
    ASSUME Inv, CommandThread
    PROVE  UNCHANGED <<clients, fds>> \/ CtAnswers \/ CtClose
    <2> USE <1>CtTraffic
    <2>0. ct \in CtState /\ (ct.pc \notin {"pop", "done"} => ct.cd \in Fds) /\ UNCHANGED main
      BY Zenon, CtFrame DEF Inv, TypeInv, TypeOK, CtLocals
    <2>1. CASE CtPop \/ CtInterrupted \/ CtFork \/ CtForkFails \/ CtSetCheckpointing \/ CtSetCheckpointed
                 \/ CtClear \/ CtClose \/ CtConnect
      BY Zenon, <2>1
         DEF CtPop, CtInterrupted, CtFork, CtForkFails, CtSetCheckpointing, CtSetCheckpointed,
         CtClear, CtConnect
    <2>2. ASSUME CtBusy, NEW pc \in {"set_checkpointed", "clear", "close"}, ct' = [ct EXCEPT !.pc = pc],
                 UNCHANGED queue, fds' = fds \/ Released(ct.cd)
          PROVE  /\ CtBusy /\ ct'.pc \in {"set_checkpointed", "clear", "close"}
                 /\ UNCHANGED <<queue, main>> /\ ct.cd \in Fds /\ FdKept(ct.cd)
      BY Zenon, <2>0, <2>2 DEF CtBusy, CtCheckpoints, CtRestores, CtState, FdKept
    <2>3. CASE CtCheckpointAnswered
      <3>1. /\ CtBusy /\ UNCHANGED <<queue, fds>> /\ clients' = Told(ct.cd, workers[ct.worker].resp)
            /\ \E pc \in {"set_checkpointed", "clear"} : ct' = [ct EXCEPT !.pc = pc]
        BY Zenon, <2>3 DEF CtCheckpointAnswered, CtBusy, CtCheckpoints, send_response_to_client
      <3> QED
        BY Zenon, <2>2, <2>3, <3>1 DEF CtAnswers
    <2>4. CASE CtRestoreAnswered
      <3>1. /\ CtBusy /\ UNCHANGED <<queue, fds>> /\ clients' = Told(ct.cd, workers[ct.rd].resp)
            /\ ct' = [ct EXCEPT !.pc = "clear"]
        BY Zenon, <2>4 DEF CtRestoreAnswered, CtBusy, CtRestores, send_response_to_client, CtTo
      <3> QED
        BY Zenon, <2>2, <2>4, <3>1 DEF CtAnswers
    <2>5. CASE CtCheckpointLost \/ CtConnectFails \/ CtRestoreLost
      <3>1. /\ CtBusy /\ UNCHANGED <<queue, fds>> /\ clients' = Told(ct.cd, MEMCR_ERROR_GENERAL)
            /\ ct' = [ct EXCEPT !.pc = "clear"]
        BY Zenon, <2>5
           DEF CtCheckpointLost, CtConnectFails, CtRestoreLost, CtBusy, CtCheckpoints, CtRestores,
                    send_response_to_client, CtTo
      <3> QED
        BY Zenon, <2>2, <3>1 DEF CtAnswers
    <2>6. CASE CtGetWorker
      <3>1. /\ CtBusy /\ UNCHANGED queue
            /\ \/ UNCHANGED <<clients, fds>>
               \/ /\ clients' = Told(ct.cd, MEMCR_ERROR_GENERAL) /\ Released(ct.cd)
                  /\ ct' = [ct EXCEPT !.pc = "close"]
        BY Zenon, <2>6
           DEF CtGetWorker, CtBusy, CtRestores, RespondAndClose, send_response_to_client, CtTo
      <3> QED
        BY Zenon, <2>2, <3>1 DEF CtAnswers
    <2> QED
      BY Zenon, <2>1, <2>3, <2>4, <2>5, <2>6 DEF CommandThread
  <1> SUFFICES ASSUME Inv, [Next]_vars
               PROVE  \/ UNCHANGED <<clients, fds>>
                      \/ \E c \in Clients : Talks(c) \/ MainAccept(c) \/ MainAcceptSilent(c)
                      \/ MainAnswers \/ CtAnswers \/ CtClose
    BY Zenon
  <1>1. CASE \E w \in Workers : WorkerStep(w)
    BY Zenon, <1>1, WorkerFrame
  <1>2. CASE \E p \in Pids : TargetKilled(p) \/ TargetStopped(p)
    BY Zenon, <1>2 DEF TargetKilled, TargetStopped
  <1> QED
    BY Zenon, <1>1, <1>2, <1>TalksStep, <1>MainTraffic, <1>CtTraffic DEF Next, WorkerStep, vars

-----------------------------------------------------------------------------
(* Connections, continued. *)

LinkInv == IdleInv /\ FdInv

LEMMA LinkNext ==
  Least /\ Inv /\ LinkInv /\ [Next]_vars => LinkInv'
  \* An answer goes to a client that has been accepted.
  <1>TellsKeeps.
    ASSUME Inv, LinkInv, NEW fd \in Fds, NEW code, clients' = Told(fd, code), FdKept(fd)
    PROVE  LinkInv'
    <2> USE <1>TellsKeeps
    <2>1. \A e \in Fds : fds'[e] = fds[e] \/ fds'[e] = None
      BY Zenon DEF FdKept, Released, Inv, TypeInv, TypeOK
    <2>2. \A e \in Fds : fds[e] \in Clients \cup {None}
      BY Zenon DEF Inv, TypeInv, TypeOK
    <2>3. FdInv'
      BY <2>1, <2>2, ToldIs DEF LinkInv, FdInv
    <2>4. ASSUME NEW c \in Clients, clients[c].st \in {"idle", "connected", "backlog"} PROVE fds[fd] # c
      BY Zenon, <2>2, <2>4, EnvAssumption DEF LinkInv, FdInv
    <2>5. IdleInv'
      BY <2>4, ToldIs DEF LinkInv, IdleInv
    <2> QED
      BY Zenon, <2>3, <2>5 DEF LinkInv
  <1> SUFFICES ASSUME Least, Inv, LinkInv, [Next]_vars PROVE LinkInv'
    BY Zenon
  <1>0. /\ \A fd \in Fds : fds[fd] \in Clients \cup {None}
        /\ fds \in [Fds -> Clients \cup {None}] /\ None \notin Clients
    BY Zenon, EnvAssumption DEF Inv, TypeInv, TypeOK
  <1>1. CASE UNCHANGED <<clients, fds>>
    BY Zenon, <1>1 DEF LinkInv, IdleInv, FdInv
  <1>2. ASSUME NEW c \in Clients, Talks(c) PROVE LinkInv'
    <2>1. \A d \in Clients : clients'[d].st = clients[d].st \/ d = c
      BY Zenon, <1>2 DEF Talks
    <2>2. UNCHANGED fds /\ (clients[c].st \in {"opened", "accepted"} => clients'[c].st \in {"opened", "accepted"})
      BY Zenon, <1>2 DEF Talks
    <2>3. FdInv'
      BY Zenon, <1>0, <2>1, <2>2 DEF LinkInv, FdInv
    <2>4. IdleInv'
      BY Zenon, <1>2 DEF Talks, LinkInv, IdleInv
    <2> QED
      BY Zenon, <2>3, <2>4 DEF LinkInv
  <1>3. ASSUME NEW c \in Clients, MainAccept(c) \/ MainAcceptSilent(c) PROVE LinkInv'
    <2>1. IdleInv /\ FdInv
      BY Zenon DEF LinkInv
    <2>2. PICK fd \in Fds :
           /\ fds[fd] = None /\ fds' = [fds EXCEPT ![fd] = c]
           /\ \A e \in Fds : fds[e] # c
           /\ \A d \in Clients : /\ clients'[d].cmd = clients[d].cmd /\ clients'[d].ans = clients[d].ans
                                 /\ d # c => clients'[d].st = clients[d].st
           /\ clients'[c].st \in {"opened", "accepted"} /\ clients[c].ans = None
      BY <1>3, <2>1, AcceptIs
    <2>3. \A e \in Fds : fds'[e] = IF e = fd THEN c ELSE fds[e]
      BY Zenon, <1>0, <2>2
    <2>4. FdInv'
      BY Zenon, <1>0, <2>1, <2>2, <2>3 DEF FdInv
    <2>5. IdleInv'
      BY Zenon, <2>1, <2>2 DEF IdleInv
    <2> QED
      BY Zenon, <2>4, <2>5 DEF LinkInv
  <1>4. CASE MainAnswers
    BY Zenon, <1>4, <1>TellsKeeps DEF MainAnswers, FdKept
  <1>5. CASE CtAnswers
    BY Zenon, <1>5, <1>TellsKeeps DEF CtAnswers
  <1>6. CASE CtClose
    <2>1. ct.cd \in Fds
      BY Zenon, <1>6 DEF CtClose, Inv, TypeInv, CtLocals
    <2> QED
      BY Zenon, <1>6, <2>1, <1>TellsKeeps DEF CtClose, Close, FdKept
  <1> QED
    BY Zenon, <1>1, <1>2, <1>3, <1>4, <1>5, <1>6, Traffic

\* What a client that has sent a command keeps.
LEMMA ClientKept ==
  ASSUME Least, Inv, LinkInv, [Next]_vars, NEW c \in Clients
  PROVE  /\ clients[c].st # "idle" =>
              /\ clients'[c].st # "idle" /\ clients'[c].cmd = clients[c].cmd /\ clients'[c].pid = clients[c].pid
         /\ clients[c].st \in {"opened", "accepted"} => clients'[c].st \in {"opened", "accepted"}
         /\ clients[c].ans # None => clients'[c].ans = clients[c].ans
  <1>0. IdleInv /\ FdInv
    BY Zenon DEF LinkInv
  <1>1. CASE UNCHANGED <<clients, fds>>
    BY Zenon, <1>1
  <1>2. CASE \E d \in Clients : Talks(d)
    BY Zenon, <1>0, <1>2 DEF Talks, IdleInv
  <1>3. CASE \E d \in Clients : MainAccept(d) \/ MainAcceptSilent(d)
    BY Zenon, <1>0, <1>3, AcceptIs
  <1>4. CASE MainAnswers
    BY Zenon, <1>4, ToldIs DEF MainAnswers
  <1>5. CASE CtAnswers
    BY <1>5, ToldIs DEF CtAnswers
  <1>6. CASE CtClose
    <2>1. ct.cd \in Fds /\ clients' = Told(ct.cd, "eof")
      BY Zenon, <1>6 DEF CtClose, Close, Inv, TypeInv, CtLocals
    <2> QED
      BY Zenon, <2>1, ToldIs
  <1> QED
    BY Zenon, <1>1, <1>2, <1>3, <1>4, <1>5, <1>6, Traffic

\* A client that was cut off stays so, and a repeated command is not taken back.
LEMMA CutOffStays ==
  ASSUME Least, Inv, LinkInv, [Next]_vars
  PROVE  NoneCutOff' => NoneCutOff
  <1> SUFFICES ASSUME NoneCutOff', NEW c \in Clients, clients[c].ans = "eof" PROVE clients[c].cmd = "hangup"
    BY Zenon DEF NoneCutOff
  <1>1. clients[c].ans # None
    BY Zenon, NoneAssumption
  <1>2. clients[c].st # "idle"
    BY Zenon, <1>1 DEF LinkInv, IdleInv
  <1> QED
    BY Zenon, <1>1, <1>2, ClientKept DEF NoneCutOff

LEMMA OnceBefore ==
  ASSUME Least, Inv, LinkInv, [Next]_vars
  PROVE  Once' => Once
  <1> SUFFICES ASSUME Once', NEW c \in Clients, NEW d \in Clients, c # d, clients[c].cmd \in Commands,
                      clients[c].cmd = clients[d].cmd, clients[c].pid = clients[d].pid
               PROVE  FALSE
    BY Zenon DEF Once
  <1>1. clients[c].cmd # None
    BY Zenon, NoneAssumption
  <1>2. clients[c].st # "idle" /\ clients[d].st # "idle"
    BY Zenon, <1>1 DEF LinkInv, IdleInv
  <1> QED
    BY <1>2, ClientKept DEF Once

-----------------------------------------------------------------------------
(* The way of a command through the daemon. *)

LEMMA QueueStep ==
  ASSUME [Next]_vars
  PROVE  UNCHANGED queue \/ MainPush \/ CtPop
  <1>1. CASE Main \/ MainStop
    BY Zenon, <1>1
       DEF Main, MainStop, MainAccept, MainAcceptSilent, MainRead, MainReject, MainCanCheckpoint,
       MainInit,
                MainCanRestore, MainAbort, MainPushFull, MainUnqueue, MainJoin, MainCleanup, daemon, Q!Interrupt
  <1>2. CASE CommandThread
    BY Zenon, <1>2 DEF CommandThread, CtInterrupted, CtFork, CtForkFails, CtSetCheckpointing,
                CtCheckpointAnswered, CtCheckpointLost, CtSetCheckpointed, CtClear, CtClose,
                CtGetWorker, CtConnect, CtConnectFails, CtRestoreAnswered, CtRestoreLost
  <1> QED
    BY Zenon, <1>1, <1>2, WorkerFrame, OutsideFrame DEF Next, WorkerStep

\* The listener takes a command, is done with one, or goes on with it.
LEMMA MainStep ==
  ASSUME Inv, [Next]_vars
  PROVE  \/ UNCHANGED main
         \/ \E c \in Clients : MainAccept(c) \/ MainAcceptSilent(c)
         \/ MainBusy /\ main' = MainIdle
         \/ /\ main'.cmd = main.cmd /\ main'.pid = main.pid /\ main'.cd = main.cd
            /\ MainBusy <=> MainBusy'
  <1>0. main \in MainState
    BY Zenon DEF Inv, TypeInv, TypeOK
  <1>1. ASSUME MainBusy,
               NEW pc \in {"can_checkpoint", "can_restore", "init", "abort", "push", "unqueue"}, MainTo(pc)
        PROVE  /\ main'.cmd = main.cmd /\ main'.pid = main.pid /\ main'.cd = main.cd
               /\ MainBusy <=> MainBusy'
    BY Zenon, <1>0, <1>1 DEF MainTo, MainBusy, MainState
  <1>2. CASE MainRead \/ MainCanCheckpoint \/ MainInit \/ MainCanRestore \/ MainAbort \/ MainPush
             \/ MainPushFull \/ MainUnqueue
    <2>1. MainBusy
      BY Zenon, <1>2
         DEF MainRead, MainCanCheckpoint, MainInit, MainCanRestore, MainAbort, MainPush,
         MainPushFull,
                  MainUnqueue, MainBusy
    <2>2. \/ main' = MainIdle
          \/ \E pc \in {"can_checkpoint", "can_restore", "init", "abort", "push", "unqueue"} : MainTo(pc)
      BY Zenon, <1>2
         DEF MainRead, MainCanCheckpoint, MainInit, MainCanRestore, MainAbort, MainPush,
         MainPushFull,
                  MainUnqueue, MainDone, Served
    <2> QED
      BY Zenon, <1>1, <2>1, <2>2
  <1>3. CASE MainStop \/ MainJoin \/ MainCleanup
    <2>1. /\ main.pc \in {"select", "join", "cleanup"}
          /\ \E pc \in {"join", "cleanup", "down"} : main' = [main EXCEPT !.pc = pc]
      BY Zenon, <1>3 DEF MainStop, MainJoin, MainCleanup, MainTo
    <2> QED
      BY Zenon, <1>0, <2>1 DEF MainBusy, MainState
  <1> QED
    BY Zenon, <1>2, <1>3, CtFrame, WorkerFrame, OutsideFrame
       DEF Next, WorkerStep, Main, MainReject, daemon

\* A descriptor that some command is going to be answered on.
InUse(e) ==
  \/ MainBusy /\ e = main.cd
  \/ CtBusy /\ e = ct.cd
  \/ \E i \in 1 .. Len(queue) : e = queue[i].cd

LEMMA CdNext ==
  Least /\ Inv /\ LinkInv /\ CdInv /\ [Next]_vars /\ NoneCutOff' => CdInv'
  <1>OwnerTold.
    ASSUME Inv, FdInv, NEW fd \in Fds, NEW code, clients' = Told(fd, code), FdKept(fd),
           NEW e \in Fds, e # fd, NEW k, NEW p, Owner(e, k, p)
    PROVE  Owner(e, k, p)'
    <2> USE <1>OwnerTold
    <2>1. fds'[e] = fds[e] /\ fds[e] \in Clients
      BY Zenon DEF FdKept, Released, Owner, Inv, TypeInv, TypeOK
    <2>2. fds[fd] # fds[e]
      BY Zenon DEF FdInv, Owner
    <2> QED
      BY <2>1, <2>2, ToldIs DEF Owner
  \* A client that is cut off is no owner of a command.
  <1>OwnerClosed.
    ASSUME Inv, FdInv, NEW fd \in Fds, Close(fd), NoneCutOff',
           NEW e \in Fds, NEW k \in Commands, NEW p, Owner(e, k, p)
    PROVE  Owner(e, k, p)'
    <2> USE <1>OwnerClosed
    <2>1. clients' = Told(fd, "eof") /\ FdKept(fd)
      BY Zenon DEF Close, FdKept
    <2>2. CASE e = fd
      <3>1. fds[e] \in Clients
        BY Zenon DEF Owner, Inv, TypeInv, TypeOK
      <3>2. clients'[fds[e]].ans = "eof" /\ clients'[fds[e]].cmd = k
        BY Zenon, <2>1, <2>2, <3>1, ToldIs DEF Owner
      <3> QED
        BY Zenon, <3>1, <3>2 DEF NoneCutOff, Commands, MEMCR_CHECKPOINT, MEMCR_RESTORE
    <2> QED
      BY Zenon, <2>1, <2>2, <1>OwnerTold
  \* So does the command thread.
  <1>CtStep.
    ASSUME Inv, [Next]_vars
    PROVE  \/ CtPop
           \/ /\ ct'.pc \in CtCheckpoints => ct.pc \in CtCheckpoints
              /\ ct'.pc \in CtRestores => ct.pc \in CtRestores
              /\ ct'.pc \notin {"pop", "done"} => ct'.pid = ct.pid /\ ct'.cd = ct.cd
    <2> USE <1>CtStep
    <2> USE DEF CtCheckpoints, CtRestores
    <2>0. ct \in CtState
      BY Zenon DEF Inv, TypeInv, TypeOK
    <2>1. CASE UNCHANGED ct
      BY Zenon, <2>1
    <2>2. CASE CtClose
      BY Zenon, <2>2 DEF CtClose, CtIdle
    <2>3. CASE CtFork
      BY Zenon, <2>0, <2>3 DEF CtFork, CtState
    <2>4. CASE CtSetCheckpointing
      BY Zenon, <2>0, <2>4 DEF CtSetCheckpointing, CtTo, CtState
    <2>5. CASE CtGetWorker
      <3>1. ct.pc = "get_worker" /\ (CtTo("close") \/ \E w : ct' = [ct EXCEPT !.pc = "connect", !.worker = w])
        BY Zenon, <2>5 DEF CtGetWorker
      <3> QED
        BY Zenon, <2>0, <3>1 DEF CtTo, CtState
    <2>6. CASE CtConnect
      <3>1. ct.pc = "connect" /\ \E w : ct' = [ct EXCEPT !.pc = "wait_restore", !.rd = w]
        BY Zenon, <2>6 DEF CtConnect
      <3> QED
        BY Zenon, <2>0, <3>1 DEF CtState
    <2>7. CASE \E pc \in {"done", "clear", "close", "set_checkpointed"} : ct' = [ct EXCEPT !.pc = pc]
      BY Zenon, <2>0, <2>7 DEF CtState
    <2>8. CASE CommandThread
      BY Zenon, <2>2, <2>3, <2>4, <2>5, <2>6, <2>7, <2>8
         DEF CommandThread, CtInterrupted, CtForkFails, CtCheckpointAnswered, CtCheckpointLost,
             CtSetCheckpointed, CtClear, CtConnectFails, CtRestoreAnswered, CtRestoreLost, CtTo
    <2> QED
      BY Zenon, <2>1, <2>8, MainFrame, WorkerFrame, OutsideFrame DEF Next, WorkerStep
  <1>TypeOfCds.
    ASSUME Inv
    PROVE  /\ MainBusy => main.cd \in Fds
           /\ CtBusy => ct.cd \in Fds
           /\ \A i \in 1 .. Len(queue) : queue[i].cd \in Fds /\ queue[i].cmd \in Commands
    <2> USE <1>TypeOfCds
    <2>1. MainBusy => main.cd \in Fds
      BY Zenon DEF Inv, TypeInv, MainBusy, MainLocals
    <2>2. CtBusy => ct.cd \in Fds
      BY Zenon DEF Inv, TypeInv, CtBusy, CtCheckpoints, CtRestores, CtLocals
    <2>3. \A i \in 1 .. Len(queue) : queue[i] \in SvcCtx
      BY DEF Inv, TypeInv, TypeOK
    <2>4. \A i \in 1 .. Len(queue) : queue[i].cd \in Fds /\ queue[i].cmd \in Commands
      BY Zenon, <2>3 DEF SvcCtx
    <2> QED
      BY Zenon, <2>1, <2>2, <2>4
  <1>CdKeeps.
    ASSUME Inv, CdInv, UNCHANGED queue,
           MainBusy' => MainBusy /\ main'.cd = main.cd /\ main'.cmd = main.cmd /\ main'.pid = main.pid,
           ct'.pc \in CtCheckpoints => ct.pc \in CtCheckpoints,
           ct'.pc \in CtRestores => ct.pc \in CtRestores,
           CtBusy' => ct'.cd = ct.cd /\ ct'.pid = ct.pid,
           \A e \in Fds, k \in Commands : \A p : Owner(e, k, p) /\ InUse(e)' => Owner(e, k, p)'
    PROVE  CdInv'
    <2> USE <1>CdKeeps
    <2>1. /\ MainBusy => main.cd \in Fds
          /\ CtBusy => ct.cd \in Fds
          /\ \A i \in 1 .. Len(queue) : queue[i].cd \in Fds /\ queue[i].cmd \in Commands
      BY Zenon, <1>TypeOfCds
    <2>2. MEMCR_CHECKPOINT \in Commands /\ MEMCR_RESTORE \in Commands
      BY Zenon DEF Commands
    <2>3. CtBusy' => CtBusy
      BY Zenon DEF CtBusy
    <2>4. (MainBusy /\ main.cmd \in Commands => Owner(main.cd, main.cmd, main.pid))'
      <3> SUFFICES ASSUME MainBusy', main'.cmd \in Commands PROVE Owner(main.cd, main.cmd, main.pid)'
        BY Zenon
      <3>1. InUse(main.cd)'
        BY Zenon DEF InUse
      <3>2. Owner(main.cd, main.cmd, main.pid) /\ main.cmd \in Commands
        BY Zenon DEF CdInv
      <3> QED
        BY <2>1, <3>1, <3>2 DEF Owner
    <2>5. (\A i \in 1 .. Len(queue) : Owner(queue[i].cd, queue[i].cmd, queue[i].pid))'
      <3> SUFFICES ASSUME NEW i \in 1 .. Len(queue) PROVE Owner(queue[i].cd, queue[i].cmd, queue[i].pid)'
        BY Zenon
      <3>1. InUse(queue[i].cd)'
        BY Zenon DEF InUse
      <3>2. Owner(queue[i].cd, queue[i].cmd, queue[i].pid)
        BY Zenon DEF CdInv
      <3> QED
        BY <2>1, <3>1, <3>2 DEF Owner
    <2>6. (ct.pc \in CtCheckpoints => Owner(ct.cd, MEMCR_CHECKPOINT, ct.pid))'
      BY Zenon, <2>1, <2>2, <2>3 DEF CdInv, InUse, CtBusy
    <2>7. (ct.pc \in CtRestores => Owner(ct.cd, MEMCR_RESTORE, ct.pid))'
      BY Zenon, <2>1, <2>2, <2>3 DEF CdInv, InUse, CtBusy
    <2>8. /\ (\A i, j \in 1 .. Len(queue) : queue[i].cd = queue[j].cd => i = j)'
          /\ (MainBusy => \A i \in 1 .. Len(queue) : queue[i].cd # main.cd)'
          /\ (CtBusy => \A i \in 1 .. Len(queue) : queue[i].cd # ct.cd)'
          /\ (CtBusy /\ MainBusy => ct.cd # main.cd)'
      BY Zenon, <2>3 DEF CdInv
    <2> QED
      BY Zenon, <2>4, <2>5, <2>6, <2>7, <2>8 DEF CdInv
  \* A command is taken, queued and taken from the queue.
  <1>CdAccept.
    ASSUME Least, Inv, LinkInv, CdInv, NEW c \in Clients, MainAccept(c) \/ MainAcceptSilent(c)
    PROVE  CdInv'
    <2> USE <1>CdAccept
    <2>1. PICK fd \in Fds :
             /\ fds[fd] = None /\ fds' = [fds EXCEPT ![fd] = c]
             /\ main' = [pc |-> main'.pc, cmd |-> clients[c].cmd, pid |-> clients[c].pid, cd |-> fd]
             /\ \A d \in Clients : /\ clients'[d].cmd = clients[d].cmd /\ clients'[d].pid = clients[d].pid
                                   /\ clients'[d].ans = clients[d].ans
             /\ clients[c].ans = None
      BY AcceptIs DEF LinkInv
    <2>2. UNCHANGED <<queue, ct>> /\ fds \in [Fds -> Clients \cup {None}] /\ None \notin Clients
      BY Zenon, EnvAssumption DEF MainAccept, MainAcceptSilent, Inv, TypeInv, TypeOK
    <2>3. ASSUME NEW e \in Fds, NEW k, NEW p, Owner(e, k, p) PROVE e # fd /\ Owner(e, k, p)'
      BY Zenon, <2>1, <2>2, <2>3 DEF Owner
    <2>4. main'.cd = fd /\ Owner(main.cd, main.cmd, main.pid)'
      BY <2>1, <2>2 DEF Owner
    <2>5. ~MainBusy
      BY Zenon DEF MainAccept, MainAcceptSilent, MainBusy
    <2>6. \A i \in 1 .. Len(queue) : queue[i].cd # fd /\ Owner(queue[i].cd, queue[i].cmd, queue[i].pid)'
      BY Zenon, <2>2, <2>3, <1>TypeOfCds DEF CdInv
    <2>7. CtBusy => ct.cd # fd
      BY Zenon, <2>3, <1>TypeOfCds DEF CdInv, CtBusy
    <2>8. (ct.pc \in CtCheckpoints => Owner(ct.cd, MEMCR_CHECKPOINT, ct.pid))'
      BY Zenon, <2>2, <2>3, <1>TypeOfCds DEF CdInv, CtBusy
    <2>9. (ct.pc \in CtRestores => Owner(ct.cd, MEMCR_RESTORE, ct.pid))'
      BY Zenon, <2>2, <2>3, <1>TypeOfCds DEF CdInv, CtBusy
    <2>10. CtBusy' <=> CtBusy
      BY Zenon, <2>2 DEF CtBusy
    <2> QED
      BY Zenon, <2>2, <2>4, <2>6, <2>7, <2>8, <2>9, <2>10 DEF CdInv
  <1>CdPush.
    ASSUME Inv, CdInv, MainPush
    PROVE  CdInv'
    <2> USE <1>CdPush
    <2>1. /\ MainBusy /\ main.cmd \in Commands /\ main.pid \in Pids /\ main.cd \in Fds
          /\ queue \in Seq(SvcCtx)
      BY Zenon DEF MainPush, MainBusy, Inv, TypeInv, TypeOK, MainLocals
    <2>2. UNCHANGED <<ct, clients, fds>> /\ main' = MainIdle /\ queue' = Append(queue, SvcCtxOf(main))
      BY Zenon DEF MainPush, MainDone, Q!PushBack
    <2>3. SvcCtxOf(main).cd = main.cd /\ SvcCtxOf(main).cmd = main.cmd /\ SvcCtxOf(main).pid = main.pid
      BY Zenon DEF SvcCtxOf
    <2>4. ~MainBusy'
      BY Zenon, <2>2 DEF MainBusy, MainIdle
    <2>5. /\ Len(queue') = Len(queue) + 1 /\ Len(queue) \in Nat
          /\ \A i \in 1 .. Len(queue) : queue'[i] = queue[i]
          /\ queue'[Len(queue) + 1] = SvcCtxOf(main)
      BY <2>1, <2>2
    <2>7. CtBusy' <=> CtBusy
      BY Zenon, <2>2 DEF CtBusy
    <2>8. \A i \in 1 .. Len(queue') : i \in 1 .. Len(queue) \/ i = Len(queue) + 1
      BY <2>5
    <2>9. (\A i \in 1 .. Len(queue) : Owner(queue[i].cd, queue[i].cmd, queue[i].pid))'
      <3> SUFFICES ASSUME NEW i \in 1 .. Len(queue') PROVE Owner(queue[i].cd, queue[i].cmd, queue[i].pid)'
        BY ZenonT(40)
      <3>1. CASE i \in 1 .. Len(queue)
        <4>1. queue'[i] = queue[i]
          BY <2>5, <3>1
        <4>2. Owner(queue[i].cd, queue[i].cmd, queue[i].pid)
          BY ZenonT(40), <3>1 DEF CdInv
        <4> QED
          BY Zenon, <2>2, <4>1, <4>2 DEF Owner
      <3>2. CASE i = Len(queue) + 1
        BY SMTT(30), <2>1, <2>2, <2>3, <2>5, <3>2 DEF CdInv, Owner
      <3> QED
        BY Zenon, <2>8, <3>1, <3>2
    <2>10. (\A i, j \in 1 .. Len(queue) : queue[i].cd = queue[j].cd => i = j)'
      BY SMTT(30), <2>1, <2>3, <2>5, <2>8 DEF CdInv
    <2>11. (CtBusy => \A i \in 1 .. Len(queue) : queue[i].cd # ct.cd)'
      BY <2>1, <2>2, <2>3, <2>5, <2>7, <2>8 DEF CdInv
    <2>12. /\ (ct.pc \in CtCheckpoints => Owner(ct.cd, MEMCR_CHECKPOINT, ct.pid))'
           /\ (ct.pc \in CtRestores => Owner(ct.cd, MEMCR_RESTORE, ct.pid))'
      BY Zenon, <2>2 DEF CdInv, Owner
    <2> QED
      BY Zenon, <2>4, <2>9, <2>10, <2>11, <2>12 DEF CdInv
  <1>CdPop.
    ASSUME Inv, CdInv, CtPop
    PROVE  CdInv'
    <2> USE <1>CdPop
    <2>1. queue \in Seq(SvcCtx) /\ queue # <<>> /\ queue' = Tail(queue) /\ UNCHANGED <<main, clients, fds>>
      BY Zenon DEF CtPop, Q!PopFront, Inv, TypeInv, TypeOK
    <2>2. /\ ct'.pc = (IF queue[1].cmd = MEMCR_CHECKPOINT THEN "fork" ELSE "get_worker")
          /\ ct'.pid = queue[1].pid /\ ct'.cd = queue[1].cd
      BY <2>1 DEF CtPop, CtIdle
    <2>3. /\ Len(queue) \in Nat /\ Len(queue) # 0 /\ Len(queue') = Len(queue) - 1
          /\ \A i \in 1 .. Len(queue') : queue'[i] = queue[i + 1]
      BY <2>1
    <2>4. 1 \in 1 .. Len(queue) /\ \A i \in 1 .. Len(queue') : i + 1 \in 1 .. Len(queue) /\ i + 1 # 1
      BY <2>3
    <2>6. MainBusy' <=> MainBusy
      BY Zenon, <2>1 DEF MainBusy
    <2>7. (\A i \in 1 .. Len(queue) : Owner(queue[i].cd, queue[i].cmd, queue[i].pid))'
      <3> SUFFICES ASSUME NEW i \in 1 .. Len(queue') PROVE Owner(queue[i].cd, queue[i].cmd, queue[i].pid)'
        BY Zenon
      <3>1. Owner(queue[i + 1].cd, queue[i + 1].cmd, queue[i + 1].pid)
        BY Zenon, <2>4 DEF CdInv
      <3> QED
        BY Zenon, <2>1, <2>3, <3>1 DEF Owner
    <2>8. (\A i, j \in 1 .. Len(queue) : queue[i].cd = queue[j].cd => i = j)'
      <3> SUFFICES ASSUME NEW i \in 1 .. Len(queue'), NEW j \in 1 .. Len(queue'), queue'[i].cd = queue'[j].cd
                   PROVE  i = j
        BY Zenon
      <3>1. i + 1 = j + 1
        <4>1. i + 1 \in 1 .. Len(queue) /\ j + 1 \in 1 .. Len(queue)
          BY Zenon, <2>4
        <4>2. queue[i + 1].cd = queue[j + 1].cd
          BY Zenon, <2>3
        <4> QED
          BY Zenon, <4>1, <4>2 DEF CdInv
      <3> QED
        BY <2>3, <3>1
    <2>9. (MainBusy => \A i \in 1 .. Len(queue) : queue[i].cd # main.cd)'
      BY <2>1, <2>3, <2>4, <2>6 DEF CdInv
    <2>10. \A i \in 1 .. Len(queue') : queue'[i].cd # ct'.cd
      BY Zenon, <2>2, <2>3, <2>4 DEF CdInv
    <2>11. MainBusy' => ct'.cd # main'.cd
      BY Zenon, <2>1, <2>2, <2>4, <2>6 DEF CdInv
    <2>12. queue[1].cmd \in Commands /\ Owner(queue[1].cd, queue[1].cmd, queue[1].pid)
      BY Zenon, <2>4, <1>TypeOfCds DEF CdInv
    <2>13. /\ (ct.pc \in CtCheckpoints => Owner(ct.cd, MEMCR_CHECKPOINT, ct.pid))'
           /\ (ct.pc \in CtRestores => Owner(ct.cd, MEMCR_RESTORE, ct.pid))'
      BY <2>1, <2>2, <2>12 DEF Owner, Commands, CtCheckpoints, CtRestores
    <2>14. (MainBusy /\ main.cmd \in Commands => Owner(main.cd, main.cmd, main.pid))'
      BY Zenon, <2>1, <2>6 DEF CdInv, Owner
    <2> QED
      BY Zenon, <2>7, <2>8, <2>9, <2>10, <2>11, <2>13, <2>14 DEF CdInv
  \* The way of a command ends with an answer.
  <1>CdOthers.
    ASSUME Inv, CdInv, [Next]_vars, ~MainPush, ~CtPop,
           \A c \in Clients : ~MainAccept(c) /\ ~MainAcceptSilent(c),
           \A e \in Fds, k \in Commands : \A p : Owner(e, k, p) /\ InUse(e)' => Owner(e, k, p)'
    PROVE  CdInv'
    <2> USE <1>CdOthers
    <2>1. UNCHANGED queue
      BY Zenon, QueueStep
    <2>2. MainBusy' => MainBusy /\ main'.cd = main.cd /\ main'.cmd = main.cmd /\ main'.pid = main.pid
      <3>1. main' = MainIdle => ~MainBusy'
        BY DEF MainIdle, MainBusy
      <3> QED
        BY Zenon, <3>1, MainStep DEF MainBusy
    <2>3. /\ ct'.pc \in CtCheckpoints => ct.pc \in CtCheckpoints
          /\ ct'.pc \in CtRestores => ct.pc \in CtRestores
          /\ CtBusy' => ct'.cd = ct.cd /\ ct'.pid = ct.pid
      BY Zenon, <1>CtStep DEF CtBusy, CtCheckpoints, CtRestores
    <2> QED
      BY Zenon, <2>1, <2>2, <2>3, <1>CdKeeps
  <1> SUFFICES ASSUME Least, Inv, LinkInv, CdInv, [Next]_vars, NoneCutOff'
               PROVE  CdInv'
    BY Zenon
  <1> DEFINE OwnersKept == \A e \in Fds, k \in Commands : \A p : Owner(e, k, p) /\ InUse(e)' => Owner(e, k, p)'
  <1>0. FdInv
    BY Zenon DEF LinkInv
  <1>1. CASE MainPush
    BY Zenon, <1>1, <1>CdPush
  <1>2. CASE CtPop
    BY Zenon, <1>2, <1>CdPop
  <1>3. CASE \E c \in Clients : MainAccept(c) \/ MainAcceptSilent(c)
    BY Zenon, <1>3, <1>CdAccept
  <1>4. CASE UNCHANGED <<clients, fds>>
    <2>1. OwnersKept
      BY Zenon, <1>4 DEF Owner
    <2> QED
      BY Zenon, <1>1, <1>2, <1>3, <2>1, <1>CdOthers
  <1>5. ASSUME NEW c \in Clients, Talks(c) PROVE CdInv'
    <2>1. \A e \in Fds : fds[e] # None =>
            /\ clients'[fds[e]].cmd = clients[fds[e]].cmd /\ clients'[fds[e]].pid = clients[fds[e]].pid
            /\ clients'[fds[e]].ans = clients[fds[e]].ans
      <3> SUFFICES ASSUME NEW e \in Fds, fds[e] # None
                   PROVE  /\ clients'[fds[e]].cmd = clients[fds[e]].cmd /\ clients'[fds[e]].pid = clients[fds[e]].pid
                          /\ clients'[fds[e]].ans = clients[fds[e]].ans
        BY Zenon
      <3>1. fds[e] \in Clients /\ clients[fds[e]].st \in {"opened", "accepted"}
        BY Zenon, <1>0 DEF FdInv, Inv, TypeInv, TypeOK
      <3> QED
        BY Zenon, <1>5, <3>1 DEF Talks
    <2>2. OwnersKept
      BY Zenon, <1>5, <2>1 DEF Owner, Talks
    <2> QED
      BY Zenon, <1>1, <1>2, <1>3, <2>2, <1>CdOthers
  <1>6. CASE MainAnswers
    <2>1. PICK code : clients' = Told(main.cd, code)
      BY Zenon, <1>6 DEF MainAnswers
    <2>2. main.cd \in Fds /\ FdKept(main.cd)
      BY Zenon, <1>6 DEF MainAnswers, FdKept
    <2>3. ASSUME NEW e, InUse(e)' PROVE e # main.cd
      <3>1. ~MainBusy' /\ MainBusy /\ UNCHANGED <<queue, ct>> /\ (CtBusy' <=> CtBusy)
        BY Zenon, <1>6 DEF MainAnswers, MainIdle, MainBusy, CtBusy
      <3> QED
        BY Zenon, <2>3, <3>1 DEF InUse, CdInv
    <2>4. OwnersKept
      BY Zenon, <1>0, <2>1, <2>2, <2>3, <1>OwnerTold
    <2> QED
      BY Zenon, <1>1, <1>2, <1>3, <2>4, <1>CdOthers
  <1>7. CASE CtAnswers
    <2>1. PICK code : clients' = Told(ct.cd, code)
      BY Zenon, <1>7 DEF CtAnswers
    <2>2. ct.cd \in Fds /\ FdKept(ct.cd)
      BY Zenon, <1>7 DEF CtAnswers
    <2>3. ASSUME NEW e, InUse(e)' PROVE e # ct.cd
      <3>1. ~CtBusy' /\ CtBusy /\ UNCHANGED <<queue, main>> /\ (MainBusy' <=> MainBusy)
        BY Zenon, <1>7 DEF CtAnswers, MainBusy, CtBusy, CtCheckpoints, CtRestores
      <3> QED
        BY Zenon, <2>3, <3>1 DEF InUse, CdInv
    <2>4. OwnersKept
      BY Zenon, <1>0, <2>1, <2>2, <2>3, <1>OwnerTold
    <2> QED
      BY Zenon, <1>1, <1>2, <1>3, <2>4, <1>CdOthers
  <1>8. CASE CtClose
    <2>1. ct.cd \in Fds /\ Close(ct.cd)
      BY Zenon, <1>8 DEF CtClose, Inv, TypeInv, CtLocals
    <2>2. OwnersKept
      BY Zenon, <1>0, <2>1, <1>OwnerClosed
    <2> QED
      BY Zenon, <1>1, <1>2, <1>3, <2>2, <1>CdOthers
  <1> QED
    BY Zenon, <1>3, <1>4, <1>5, <1>6, <1>7, <1>8, Traffic

ClientsInv == LinkInv /\ (NoneCutOff => CdInv)

LEMMA ClientsInit == Init => ClientsInv
  <1> SUFFICES ASSUME Init PROVE ClientsInv
    BY Zenon
  <1>1. LinkInv
    BY Zenon DEF Init, LinkInv, IdleInv, FdInv
  <1>2. ~MainBusy /\ ~CtBusy /\ Len(queue) = 0
    BY Zenon DEF Init, MainBusy, MainIdle, CtBusy, CtIdle, CtCheckpoints, CtRestores, Q!Empty
  <1>3. CdInv
    BY <1>2 DEF CdInv, CtBusy
  <1> QED
    BY Zenon, <1>1, <1>3 DEF ClientsInv

LEMMA ClientsNext ==
  ASSUME Least, Inv, ClientsInv, [Next]_vars
  PROVE  ClientsInv'
  BY Zenon, LinkNext, CutOffStays, CdNext DEF ClientsInv

\* The word of the worker is true.
LEMMA OkMeans ==
  \A c \in Clients : Least /\ Inv /\ WorldInv /\ FateInv /\ ClientsInv /\ [Next]_vars /\ NoneCutOff /\ clients[c].ans = None /\ clients'[c].ans = MEMCR_OK =>
    IF clients[c].cmd = MEMCR_CHECKPOINT THEN targets[clients[c].pid] \in {"frozen", "adrift", "dead"}
    ELSE targets[clients[c].pid] \in {"running", "adrift", "dead"}
  \* MEMCR_OK is only said by the command thread, to the client whose command it
  \* executes, on the word of the worker.
  <1>OkStep.
    ASSUME Least, Inv, LinkInv, CdInv, [Next]_vars, NEW c \in Clients, clients[c].ans = None, clients'[c].ans = MEMCR_OK
    PROVE  \/ /\ ct.pc = "wait_checkpoint" /\ workers[ct.worker].resp = MEMCR_OK
              /\ clients[c].cmd = MEMCR_CHECKPOINT /\ clients[c].pid = ct.pid
           \/ /\ ct.pc = "wait_restore" /\ workers[ct.rd].resp = MEMCR_OK
              /\ clients[c].cmd = MEMCR_RESTORE /\ clients[c].pid = ct.pid
    <2> USE <1>OkStep
    <2>0. /\ None # MEMCR_OK /\ MEMCR_OK \notin {MEMCR_ERROR_GENERAL, MEMCR_INVALID_PID, "eof"}
          /\ IdleInv /\ FdInv
      BY Zenon, NoneAssumption DEF MEMCR_OK, MEMCR_ERROR_GENERAL, MEMCR_INVALID_PID, LinkInv
    <2>1. CASE UNCHANGED <<clients, fds>>
      BY Zenon, <2>0, <2>1
    <2>2. CASE \E d \in Clients : Talks(d)
      BY Zenon, <2>0, <2>2 DEF Talks
    <2>3. CASE \E d \in Clients : MainAccept(d) \/ MainAcceptSilent(d)
      BY Zenon, <2>0, <2>3, AcceptIs
    <2>4. CASE MainAnswers
      BY <2>0, <2>4, ToldIs DEF MainAnswers
    <2>5. CASE CtClose
      <3>1. ct.cd \in Fds /\ clients' = Told(ct.cd, "eof")
        BY Zenon, <2>5 DEF CtClose, Close, Inv, TypeInv, CtLocals
      <3> QED
        BY <2>0, <3>1, ToldIs
    <2>6. CASE CtAnswers
      <3>1. ct.cd \in Fds
        BY Zenon, <2>6 DEF CtAnswers
      <3>2. ASSUME NEW code, clients' = Told(ct.cd, code) PROVE fds[ct.cd] = c /\ code = MEMCR_OK
        BY Zenon, <2>0, <3>1, <3>2, ToldIs
      <3>3. clients' # Told(ct.cd, MEMCR_ERROR_GENERAL)
        BY Zenon, <2>0, <3>2
      <3>4. CASE CtCheckpointAnswered
        <4>1. ct.pc = "wait_checkpoint" /\ clients' = Told(ct.cd, workers[ct.worker].resp)
          BY Zenon, <3>4 DEF CtCheckpointAnswered, send_response_to_client
        <4>2. Owner(ct.cd, MEMCR_CHECKPOINT, ct.pid)
          BY Zenon, <4>1 DEF CdInv, CtCheckpoints
        <4> QED
          BY Zenon, <3>2, <4>1, <4>2 DEF Owner
      <3>5. CASE CtRestoreAnswered
        <4>1. ct.pc = "wait_restore" /\ clients' = Told(ct.cd, workers[ct.rd].resp)
          BY Zenon, <3>5 DEF CtRestoreAnswered, send_response_to_client
        <4>2. Owner(ct.cd, MEMCR_RESTORE, ct.pid)
          BY Zenon, <4>1 DEF CdInv, CtRestores
        <4> QED
          BY Zenon, <3>2, <4>1, <4>2 DEF Owner
      <3> QED
        BY Zenon, <2>6, <3>3, <3>4, <3>5 DEF CtAnswers
    <2> QED
      BY Zenon, <2>5, <2>1, <2>2, <2>3, <2>4, <2>6, Traffic
  <1> SUFFICES ASSUME Least, Inv, WorldInv, FateInv, ClientsInv, [Next]_vars, NEW c \in Clients, NoneCutOff,
                      clients[c].ans = None, clients'[c].ans = MEMCR_OK
               PROVE  IF clients[c].cmd = MEMCR_CHECKPOINT THEN targets[clients[c].pid] \in {"frozen", "adrift", "dead"}
                      ELSE targets[clients[c].pid] \in {"running", "adrift", "dead"}
    BY Zenon
  <1>0. LinkInv /\ CdInv /\ MEMCR_CHECKPOINT # MEMCR_RESTORE /\ MEMCR_OK # None
    BY Zenon, NoneAssumption DEF ClientsInv, MEMCR_CHECKPOINT, MEMCR_RESTORE
  <1>1. CASE /\ ct.pc = "wait_checkpoint" /\ workers[ct.worker].resp = MEMCR_OK
             /\ clients[c].cmd = MEMCR_CHECKPOINT /\ clients[c].pid = ct.pid
    <2>1. ct.worker \in Workers /\ ct.pid \in Pids /\ Of(ct.worker, ct.pid) /\ Checkpointing(ct.worker)
      BY Zenon, <1>1 DEF Inv, TypeInv, CtLocals, Of, Checkpointing
    <2>2. targets[ct.pid] \notin {"adrift", "dead"} => workers[ct.worker].pc = "accept"
      BY Zenon, <1>0, <1>1, <2>1 DEF WorldInv, PidInv, BusyInv, Answered
    <2>3. targets[ct.pid] \notin {"adrift", "dead"} => targets[ct.pid] = "frozen"
      BY Zenon, <2>1, <2>2 DEF WorldInv, PidInv, HoldInv, Holding
    <2> QED
      BY Zenon, <1>1, <2>3
  <1>2. CASE /\ ct.pc = "wait_restore" /\ workers[ct.rd].resp = MEMCR_OK
             /\ clients[c].cmd = MEMCR_RESTORE /\ clients[c].pid = ct.pid
    <2>1. ct.rd \in Workers /\ ct.pid \in Pids /\ Of(ct.rd, ct.pid) /\ Restoring(ct.rd)
      BY Zenon, <1>2 DEF Inv, TypeInv, CtLocals, WorldInv, NamesInv, Restoring
    <2>2. targets[ct.pid] \notin {"adrift", "dead"} => targets[ct.pid] = "running"
      BY Zenon, <1>2, <2>1 DEF FateInv, ReplyInv
    <2> QED
      BY Zenon, <1>0, <1>2, <2>2
  <1> QED
    BY Zenon, <1>0, <1>1, <1>2, <1>OkStep

-----------------------------------------------------------------------------
(* Where a CHECKPOINT of a process is, if its command is not repeated. *)

Taken(p) ==
  \E c \in Clients : /\ clients[c].st \in {"opened", "accepted"}
                    /\ clients[c].cmd = MEMCR_CHECKPOINT /\ clients[c].pid = p

AtMain(p) == MainBusy /\ main.cmd = MEMCR_CHECKPOINT /\ main.pid = p
Queued(i, p) == queue[i].cmd = MEMCR_CHECKPOINT /\ queue[i].pid = p
InQueue(p) == \E i \in 1 .. Len(queue) : Queued(i, p)
Forking(p) == ct.pc = "fork" /\ ct.pid = p
Clearing(p) == ct.pc = "clear" /\ ct.pid = p
Worked(p) == \E w \in Workers : Of(w, p)
Claimed(p) == AtMain(p) \/ InQueue(p) \/ Forking(p) \/ Clearing(p) \/ Worked(p)

\* It is in one place.
ExclInv(p) ==
  /\ AtMain(p) => ~InQueue(p) /\ ~Forking(p) /\ ~Clearing(p) /\ ~Worked(p)
  /\ InQueue(p) => ~Forking(p) /\ ~Clearing(p) /\ ~Worked(p)
  /\ \A i, j \in 1 .. Len(queue) : Queued(i, p) /\ Queued(j, p) => i = j
  /\ Forking(p) => ~Worked(p)
  /\ \A v, w \in Workers : Of(v, p) /\ Of(w, p) => v = w

ClaimInv ==
  /\ \A p \in Pids : Claimed(p) => Taken(p)
  /\ Once => \A p \in Pids : ExclInv(p)

LEMMA CtClaims ==
  ASSUME Inv, WorldInv, [Next]_vars, NEW p
  PROVE  /\ Forking(p)' => Forking(p) \/ CtPop
         /\ Clearing(p)' => Clearing(p) \/ Forking(p) \/ Worked(p)
  <1> USE DEF Forking, Clearing
  <1>0. ct \in CtState /\ CtLocals
    BY Zenon DEF Inv, TypeInv, TypeOK
  <1>1. ct.pc \in {"wait_checkpoint", "connect", "wait_restore"} /\ ct.pid = p => Worked(p)
    BY Zenon, <1>0 DEF CtLocals, WorldInv, NamesInv, Worked, Of
  <1>2. CASE UNCHANGED ct
    BY Zenon, <1>2
  <1>3. CASE CtPop
    <2>1. ct'.pc \in {"fork", "get_worker"}
      BY Zenon, <1>3 DEF CtPop, CtIdle
    <2> QED
      BY Zenon, <1>3, <2>1
  <1>4. CASE CtClose
    BY Zenon, <1>4 DEF CtClose, CtIdle
  <1>5. CASE CtFork
    BY Zenon, <1>0, <1>5 DEF CtFork, CtState
  <1>6. CASE CtGetWorker
    <2>1. CtTo("close") \/ \E w : ct' = [ct EXCEPT !.pc = "connect", !.worker = w]
      BY Zenon, <1>6 DEF CtGetWorker
    <2> QED
      BY Zenon, <1>0, <2>1 DEF CtTo, CtState
  <1>7. CASE CtConnect
    <2>1. \E w : ct' = [ct EXCEPT !.pc = "wait_restore", !.rd = w]
      BY Zenon, <1>7 DEF CtConnect
    <2> QED
      BY Zenon, <1>0, <2>1 DEF CtState
  <1>8. CASE \E pc \in {"done", "wait_checkpoint", "close", "set_checkpointed"} : ct' = [ct EXCEPT !.pc = pc]
    BY Zenon, <1>0, <1>8 DEF CtState
  <1>9. CASE /\ ct.pc \in {"fork", "wait_checkpoint", "connect", "wait_restore"}
             /\ ct' = [ct EXCEPT !.pc = "clear"]
    BY Zenon, <1>0, <1>1, <1>9 DEF CtState
  <1>10. CASE CommandThread
    BY Zenon, <1>3, <1>4, <1>5, <1>6, <1>7, <1>8, <1>9, <1>10
       DEF CommandThread, CtInterrupted, CtForkFails, CtSetCheckpointing, CtCheckpointAnswered, CtCheckpointLost,
           CtSetCheckpointed, CtClear, CtConnectFails, CtRestoreAnswered, CtRestoreLost, CtTo
  <1> QED
    BY Zenon, <1>2, <1>10, MainFrame, WorkerFrame, OutsideFrame DEF Next, WorkerStep

LEMMA WorkerClaims ==
  ASSUME Inv, WorldInv, [Next]_vars, NEW p, NEW w \in Workers, Of(w, p)', ~Of(w, p)
  PROVE  CtFork /\ Forking(p) /\ ct'.pc = "set_checkpointing" /\ ct'.worker = w
  <1>1. ~WorkerStep(w)
    BY Zenon, OwnStep DEF Of
  <1>2. CtFork /\ workers[w].pc = "unused" /\ workers'[w].pc = "setup"
    BY Zenon, <1>1, OthersStep DEF Of
  <1>3. PICK u \in Workers : /\ workers' = [workers EXCEPT ![u] = [NoWorker EXCEPT !.pc = "setup", !.pid = ct.pid]]
                            /\ ct' = [ct EXCEPT !.pc = "set_checkpointing", !.worker = u]
    BY Zenon, <1>2 DEF CtFork
  <1>4. workers \in [Workers -> WorkerState] /\ ct \in CtState
    BY Zenon DEF Inv, TypeInv, TypeOK
  <1>5. u = w
    BY Zenon, <1>2, <1>3, <1>4
  <1>6. workers'[w].pid = ct.pid
    BY Zenon, <1>3, <1>4, <1>5 DEF NoWorker
  <1>7. ct'.pc = "set_checkpointing" /\ ct'.worker = w
    BY Zenon, <1>3, <1>4, <1>5 DEF CtState
  <1> QED
    BY Zenon, <1>2, <1>6, <1>7 DEF CtFork, Forking, Of

\* What the queue holds.
LEMMA PushClaims ==
  ASSUME Inv, MainPush, NEW p
  PROVE  /\ ~AtMain(p)'
         /\ Len(queue') = Len(queue) + 1 /\ Len(queue) \in Nat
         /\ \A i \in 1 .. Len(queue) : Queued(i, p)' <=> Queued(i, p)
         /\ \A i \in 1 .. Len(queue') : i \in 1 .. Len(queue) \/ (i = Len(queue) + 1 /\ (Queued(i, p)' <=> AtMain(p)))
  <1>1. queue \in Seq(SvcCtx) /\ MainBusy
    BY Zenon DEF MainPush, MainBusy, Inv, TypeInv, TypeOK
  <1>2. main' = MainIdle /\ queue' = Append(queue, SvcCtxOf(main))
    BY Zenon DEF MainPush, MainDone, Q!PushBack
  <1>3. SvcCtxOf(main).cmd = main.cmd /\ SvcCtxOf(main).pid = main.pid
    BY Zenon DEF SvcCtxOf
  <1>4. /\ Len(queue') = Len(queue) + 1 /\ Len(queue) \in Nat
        /\ \A i \in 1 .. Len(queue) : queue'[i] = queue[i]
        /\ queue'[Len(queue) + 1] = SvcCtxOf(main)
    BY <1>1, <1>2
  <1>5. ~AtMain(p)'
    BY Zenon, <1>2 DEF AtMain, MainBusy, MainIdle
  <1> QED
    BY <1>1, <1>3, <1>4, <1>5 DEF Queued, AtMain

LEMMA PopClaims ==
  ASSUME Inv, CtPop, NEW p
  PROVE  /\ Len(queue) \in Nat /\ 1 \in 1 .. Len(queue) /\ Len(queue') = Len(queue) - 1
         /\ \A i \in 1 .. Len(queue') : i + 1 \in 1 .. Len(queue) /\ (Queued(i, p)' <=> Queued(i + 1, p))
         /\ Forking(p)' <=> Queued(1, p)
         /\ ~Clearing(p)'
  <1>1. queue \in Seq(SvcCtx) /\ queue # <<>> /\ queue' = Tail(queue)
    BY Zenon DEF CtPop, Q!PopFront, Inv, TypeInv, TypeOK
  <1>2. /\ ct'.pc = (IF queue[1].cmd = MEMCR_CHECKPOINT THEN "fork" ELSE "get_worker")
        /\ ct'.pid = queue[1].pid
    BY <1>1 DEF CtPop, CtIdle
  <1>3. /\ Len(queue) \in Nat /\ Len(queue) # 0 /\ Len(queue') = Len(queue) - 1
        /\ \A i \in 1 .. Len(queue') : queue'[i] = queue[i + 1]
    BY <1>1
  <1>4. \A i \in 1 .. Len(queue') : i + 1 \in 1 .. Len(queue) /\ (Queued(i, p)' <=> Queued(i + 1, p))
    BY <1>3 DEF Queued
  <1>5. 1 \in 1 .. Len(queue)
    BY <1>3
  <1> QED
    BY Zenon, <1>2, <1>3, <1>4, <1>5 DEF Queued, Forking, Clearing

\* Who takes a CHECKPOINT for p.
Takes(p) ==
  \E c \in Clients : /\ MainAccept(c) \/ MainAcceptSilent(c)
                    /\ clients[c].cmd = MEMCR_CHECKPOINT /\ clients[c].pid = p

LEMMA ClaimNext ==
  Least /\ Inv /\ WorldInv /\ LinkInv /\ ClaimInv /\ [Next]_vars => ClaimInv'
  <1>MainClaims.
    ASSUME Inv, LinkInv, [Next]_vars, NEW p, AtMain(p)'
    PROVE  \/ AtMain(p)
           \/ \E c \in Clients : /\ MainAccept(c) \/ MainAcceptSilent(c)
                                /\ clients[c].cmd = MEMCR_CHECKPOINT /\ clients[c].pid = p
    <2> USE <1>MainClaims
    <2>1. CASE UNCHANGED main
      BY Zenon, <2>1 DEF AtMain, MainBusy
    <2>2. ASSUME NEW c \in Clients, MainAccept(c) \/ MainAcceptSilent(c)
          PROVE  clients[c].cmd = MEMCR_CHECKPOINT /\ clients[c].pid = p
      <3>1. main'.cmd = clients[c].cmd /\ main'.pid = clients[c].pid
        BY <2>2 DEF MainAccept, MainAcceptSilent
      <3> QED
        BY Zenon, <3>1 DEF AtMain
    <2>3. CASE main' = MainIdle
      BY Zenon, <2>3 DEF AtMain, MainBusy, MainIdle
    <2>4. CASE main'.cmd = main.cmd /\ main'.pid = main.pid /\ (MainBusy <=> MainBusy')
      BY Zenon, <2>4 DEF AtMain
    <2> QED
      BY Zenon, <2>1, <2>2, <2>3, <2>4, MainStep
  <1>ClaimedBefore.
    ASSUME Inv, WorldInv, LinkInv, [Next]_vars, NEW p, Claimed(p)'
    PROVE  Claimed(p) \/ Takes(p)
    <2> USE <1>ClaimedBefore
    <2>1. AtMain(p)' => Claimed(p) \/ Takes(p)
      BY Zenon, <1>MainClaims DEF Claimed, Takes
    <2>2. InQueue(p)' => Claimed(p)
      <3>1. CASE UNCHANGED queue
        BY Zenon, <3>1 DEF InQueue, Queued, Claimed
      <3>2. CASE MainPush
        BY Zenon, <3>2, PushClaims DEF InQueue, Claimed
      <3>3. CASE CtPop
        BY Zenon, <3>3, PopClaims DEF InQueue, Claimed
      <3> QED
        BY Zenon, <3>1, <3>2, <3>3, QueueStep
    <2>3. Forking(p)' => Claimed(p)
      BY Zenon, CtClaims, PopClaims DEF Claimed, InQueue
    <2>4. Clearing(p)' => Claimed(p)
      BY Zenon, CtClaims DEF Claimed
    <2>5. Worked(p)' => Claimed(p)
      BY Zenon, WorkerClaims DEF Claimed, Worked
    <2> QED
      BY Zenon, <2>5, <2>1, <2>2, <2>3, <2>4 DEF Claimed
  <1>TakenNext.
    ASSUME Least, Inv, LinkInv, [Next]_vars, NEW p, Taken(p) \/ Takes(p)
    PROVE  Taken(p)'
    <2> USE <1>TakenNext
    <2>1. ASSUME NEW c \in Clients, clients'[c].st \in {"opened", "accepted"},
                 clients'[c].cmd = MEMCR_CHECKPOINT, clients'[c].pid = p
          PROVE  Taken(p)'
      BY Zenon, <2>1 DEF Taken
    <2>2. CASE Taken(p)
      <3>1. PICK c \in Clients : /\ clients[c].st \in {"opened", "accepted"}
                                /\ clients[c].cmd = MEMCR_CHECKPOINT /\ clients[c].pid = p
        BY Zenon, <2>2 DEF Taken
      <3> QED
        BY Zenon, <2>1, <3>1, ClientKept
    <2>3. CASE Takes(p)
      <3>1. PICK c \in Clients : /\ MainAccept(c) \/ MainAcceptSilent(c)
                                /\ clients[c].cmd = MEMCR_CHECKPOINT /\ clients[c].pid = p
        BY Zenon, <2>3 DEF Takes
      <3>2. /\ clients'[c].st \in {"opened", "accepted"}
            /\ clients'[c].cmd = MEMCR_CHECKPOINT /\ clients'[c].pid = p
        BY Zenon, <3>1, AcceptIs DEF LinkInv
      <3> QED
        BY Zenon, <2>1, <3>2
    <2> QED
      BY Zenon, <2>2, <2>3
  <1>TakesFirst.
    ASSUME Inv, LinkInv, Once, NEW p, Takes(p)
    PROVE  ~Taken(p) /\ UNCHANGED <<queue, ct, workers>>
    <2> USE <1>TakesFirst
    <2>1. PICK c \in Clients : /\ MainAccept(c) \/ MainAcceptSilent(c)
                              /\ clients[c].cmd = MEMCR_CHECKPOINT /\ clients[c].pid = p
      BY Zenon DEF Takes
    <2>2. clients[c].st \in {"backlog", "connected"} /\ UNCHANGED <<queue, ct, workers>>
      BY Zenon, <2>1 DEF MainAccept, MainAcceptSilent, world
    <2>3. ASSUME NEW d \in Clients, clients[d].st \in {"opened", "accepted"},
                 clients[d].cmd = MEMCR_CHECKPOINT, clients[d].pid = p
          PROVE  FALSE
      <3>1. c # d /\ clients[c].cmd \in Commands
        BY Zenon, <2>1, <2>2, <2>3 DEF Commands
      <3> QED
        BY Zenon, <2>1, <2>3, <3>1 DEF Once
    <2> QED
      BY Zenon, <2>2, <2>3 DEF Taken
  <1>ExclNext.
    ASSUME Inv, WorldInv, LinkInv, ClaimInv, [Next]_vars, Once, NEW p \in Pids
    PROVE  ExclInv(p)'
    <2> USE <1>ExclNext
    <2>0. ExclInv(p)
      BY Zenon DEF ClaimInv
    <2>1. CASE Takes(p)
      <3>1. ~Claimed(p) /\ UNCHANGED <<queue, ct, workers>>
        BY Zenon, <2>1, <1>TakesFirst DEF ClaimInv
      <3>2. /\ ~InQueue(p)' /\ ~Forking(p)' /\ ~Clearing(p)' /\ \A w \in Workers : ~Of(w, p)'
            /\ \A i \in 1 .. Len(queue') : ~Queued(i, p)'
        BY Zenon, <3>1 DEF Claimed, InQueue, Queued, Forking, Clearing, Worked, Of
      <3> QED
        BY Zenon, <3>2 DEF ExclInv, Worked
    <2>2. CASE ~Takes(p) /\ MainPush
      <3>1. /\ Forking(p)' <=> Forking(p)
            /\ Clearing(p)' <=> Clearing(p)
            /\ \A w \in Workers : Of(w, p)' <=> Of(w, p)
        BY Zenon, <2>2 DEF MainPush, world, Forking, Clearing, Of
      <3>2. Worked(p)' <=> Worked(p)
        BY Zenon, <3>1 DEF Worked
      <3>3. InQueue(p)' => InQueue(p) \/ AtMain(p)
        BY Zenon, <2>2, PushClaims DEF InQueue
      <3>4. AtMain(p) => \A i \in 1 .. Len(queue) : ~Queued(i, p)
        BY Zenon, <2>0 DEF ExclInv, InQueue
      <3>5. \A i, j \in 1 .. Len(queue') : Queued(i, p)' /\ Queued(j, p)' => i = j
        BY Zenon, <2>0, <2>2, <3>4, PushClaims DEF ExclInv
      <3>6. ~AtMain(p)'
        BY Zenon, <2>2, PushClaims
      <3> QED
        BY Zenon, <2>0, <3>1, <3>2, <3>3, <3>5, <3>6 DEF ExclInv
    <2>3. CASE ~Takes(p) /\ CtPop
      <3>1. /\ AtMain(p)' <=> AtMain(p)
            /\ \A w \in Workers : Of(w, p)' <=> Of(w, p)
        BY Zenon, <2>3 DEF CtPop, world, AtMain, MainBusy, Of
      <3>2. Worked(p)' <=> Worked(p)
        BY Zenon, <3>1 DEF Worked
      <3>3. /\ Forking(p)' <=> Queued(1, p)
            /\ ~Clearing(p)'
            /\ Queued(1, p) => InQueue(p)
            /\ InQueue(p)' => InQueue(p)
        BY Zenon, <2>3, PopClaims DEF InQueue
      <3>4. \A i, j \in 1 .. Len(queue') : Queued(i, p)' /\ Queued(j, p)' => i = j
        <4> SUFFICES ASSUME NEW i \in 1 .. Len(queue'), NEW j \in 1 .. Len(queue'), Queued(i, p)', Queued(j, p)'
                     PROVE  i = j
          BY Zenon
        <4>1. i + 1 = j + 1
          BY Zenon, <2>0, <2>3, PopClaims DEF ExclInv
        <4> QED
          BY <2>3, <4>1, PopClaims
      <3>5. Queued(1, p) => ~InQueue(p)'
        <4> SUFFICES ASSUME Queued(1, p), NEW i \in 1 .. Len(queue'), Queued(i, p)' PROVE FALSE
          BY Zenon DEF InQueue
        <4>1. i + 1 = 1
          BY Zenon, <2>0, <2>3, PopClaims DEF ExclInv
        <4> QED
          BY <2>3, <4>1, PopClaims
      <3> QED
        BY Zenon, <2>0, <3>1, <3>2, <3>3, <3>4, <3>5 DEF ExclInv
    <2>4. CASE ~Takes(p) /\ ~CtPop /\ UNCHANGED queue
      <3>1. /\ InQueue(p)' <=> InQueue(p)
            /\ \A i \in 1 .. Len(queue') : Queued(i, p)' <=> Queued(i, p)
        BY Zenon, <2>4 DEF InQueue, Queued
      <3>2. AtMain(p)' => AtMain(p)
        BY Zenon, <2>4, <1>MainClaims DEF Takes
      <3>3. Forking(p)' => Forking(p)
        BY Zenon, <2>4, CtClaims
      <3>4. Clearing(p)' => Clearing(p) \/ Forking(p) \/ Worked(p)
        BY Zenon, CtClaims
      <3>5. ASSUME NEW w \in Workers, Of(w, p)'
            PROVE  Of(w, p) \/ (Forking(p) /\ ~Forking(p)' /\ ct'.worker = w)
        BY Zenon, <3>5, WorkerClaims DEF Forking
      <3>6. Worked(p)' => Worked(p) \/ (Forking(p) /\ ~Forking(p)')
        BY Zenon, <3>5 DEF Worked
      <3>7. ASSUME NEW v \in Workers, NEW w \in Workers, Of(v, p)', Of(w, p)' PROVE v = w
        BY Zenon, <2>0, <3>5, <3>7 DEF ExclInv, Worked
      <3> QED
        BY Zenon, <2>0, <2>4, <3>1, <3>2, <3>3, <3>4, <3>6, <3>7 DEF ExclInv
    <2> QED
      BY Zenon, <2>1, <2>2, <2>3, <2>4, QueueStep
  <1> SUFFICES ASSUME Least, Inv, WorldInv, LinkInv, ClaimInv, [Next]_vars
               PROVE  ClaimInv'
    BY Zenon
  <1>1. ASSUME NEW p \in Pids, Claimed(p)' PROVE Taken(p)'
    BY Zenon, <1>1, <1>ClaimedBefore, <1>TakenNext DEF ClaimInv
  <1>2. ASSUME Once', NEW p \in Pids PROVE ExclInv(p)'
    BY Zenon, <1>2, OnceBefore, <1>ExclNext
  <1> QED
    BY Zenon, <1>1, <1>2 DEF ClaimInv

-----------------------------------------------------------------------------
(* What becomes of the rows. *)

\* No row loses its process.
Retains(s, t) == \A i \in Rows : s[i].pid \in Pids => t[i].pid = s[i].pid

LEMMA InitRetains ==
  ASSUME Least, NEW t, Sound(t), NEW p \in Pids
  PROVE  /\ Retains(t, init_pid_checkpoint_data(t, p))
         /\ RowsOf(t, PID_INVALID) # {} => RowsOf(init_pid_checkpoint_data(t, p), p) # {}
  <1>1. CASE RowsOf(t, PID_INVALID) = {}
    BY Zenon, <1>1 DEF init_pid_checkpoint_data, Retains
  <1>2. CASE RowsOf(t, PID_INVALID) # {}
    <2>1. PICK r \in Rows : r = Min(RowsOf(t, PID_INVALID)) /\ t[r].pid = PID_INVALID
      BY Zenon, <1>2, MinRow DEF RowsOf
    <2>2. PICK u : u = init_pid_checkpoint_data(t, p)
      BY Zenon
    <2>3. u = [t EXCEPT ![r] = [Cleared(t[r]) EXCEPT !.pid = p]]
      BY Zenon, <1>2, <2>1, <2>2 DEF init_pid_checkpoint_data, Sound
    <2>4. /\ \A i \in Rows : i # r => u[i] = t[i]
          /\ u[r].pid = p
      <3>1. t \in [Rows -> Row] /\ t[r] \in Row
        BY Zenon, <2>1 DEF Sound
      <3>2. u[r] = [Cleared(t[r]) EXCEPT !.pid = p]
        BY Zenon, <2>1, <2>3, <3>1
      <3> QED
        BY Zenon, <2>1, <2>3, <3>1, <3>2 DEF Cleared, Row
    <2>5. Retains(t, u)
      BY Zenon, <2>1, <2>4, InvalidAssumption DEF Retains
    <2>6. RowsOf(u, p) # {}
      BY Zenon, <2>1, <2>4 DEF RowsOf
    <2> QED
      BY Zenon, <2>2, <2>5, <2>6
  <1> QED
    BY Zenon, <1>1, <1>2

\* Writing to a row without touching its pid.
LEMMA WriteRetains ==
  ASSUME NEW t, Sound(t), NEW r \in Rows, NEW row, row.pid = t[r].pid
  PROVE  Retains(t, [t EXCEPT ![r] = row])
  BY Zenon DEF Retains, Sound

LEMMA MarkRetains ==
  ASSUME Least, NEW t, Sound(t), NEW p
  PROVE  /\ \A w : Retains(t, set_pid_checkpointing(t, p, w))
         /\ \A w : Retains(t, set_pid_checkpointed(t, p, w))
         /\ RowsOf(t, p) # {} => Retains(t, FlagAbort(t, p))
  <1>0. Retains(t, t) /\ t \in [Rows -> Row]
    BY Zenon DEF Retains, Sound
  <1>1. ASSUME NEW w PROVE Retains(t, set_pid_checkpointing(t, p, w))
    <2>1. CASE Checkpointable(t, p) = {}
      BY Zenon, <1>0, <2>1 DEF set_pid_checkpointing
    <2>2. CASE Checkpointable(t, p) # {}
      <3>1. PICK r \in Rows : r = Min(Checkpointable(t, p))
        BY Zenon, <2>2, MinRow DEF Checkpointable, RowsOf
      <3>2. PICK row : row = [t[r] EXCEPT !.state = STATE_CHECKPOINTING, !.checkpoint_cmd_sd = w]
        BY Zenon
      <3>3. t[r] \in Row
        BY Zenon, <1>0
      <3>4. row.pid = t[r].pid
        BY Zenon, <3>2, <3>3 DEF Row
      <3>5. set_pid_checkpointing(t, p, w) = [t EXCEPT ![r] = row]
        BY Zenon, <1>0, <2>2, <3>1, <3>2 DEF set_pid_checkpointing
      <3>6. Retains(t, [t EXCEPT ![r] = row])
        BY Zenon, <3>4, WriteRetains
      <3> QED
        BY Zenon, <3>5, <3>6
    <2> QED
      BY Zenon, <2>1, <2>2
  <1>2. ASSUME NEW w PROVE Retains(t, set_pid_checkpointed(t, p, w))
    <2> DEFINE rows == {i \in RowsOf(t, p) : t[i].state = STATE_CHECKPOINTING}
    <2>1. CASE rows = {}
      BY Zenon, <1>0, <2>1 DEF set_pid_checkpointed
    <2>2. CASE rows # {}
      <3>1. PICK r \in Rows : r = Min(rows)
        BY Zenon, <2>2, MinRow DEF RowsOf
      <3>2. PICK row : row = [t[r] EXCEPT !.state = STATE_CHECKPOINTED, !.checkpoint_cmd_sd = SOCKET_INVALID,
                                          !.worker = w]
        BY Zenon
      <3>3. t[r] \in Row
        BY Zenon, <1>0
      <3>4. row.pid = t[r].pid
        BY Zenon, <3>2, <3>3 DEF Row
      <3>5. set_pid_checkpointed(t, p, w) = [t EXCEPT ![r] = row]
        BY Zenon, <1>0, <2>2, <3>1, <3>2 DEF set_pid_checkpointed
      <3>6. Retains(t, [t EXCEPT ![r] = row])
        BY Zenon, <3>4, WriteRetains
      <3> QED
        BY Zenon, <3>5, <3>6
    <2> QED
      BY Zenon, <2>1, <2>2
  <1>3. ASSUME RowsOf(t, p) # {} PROVE Retains(t, FlagAbort(t, p))
    <2>1. PICK r \in Rows : r = Min(RowsOf(t, p))
      BY Zenon, <1>3, MinRow DEF RowsOf
    <2>2. PICK row : row = [t[r] EXCEPT !.checkpoint_abort = TRUE]
      BY Zenon
    <2>3. t[r] \in Row
      BY Zenon, <1>0
    <2>4. row.pid = t[r].pid
      BY Zenon, <2>2, <2>3 DEF Row
    <2>5. FlagAbort(t, p) = t \/ FlagAbort(t, p) = [t EXCEPT ![r] = row]
      BY Zenon, <1>0, <2>1, <2>2 DEF FlagAbort
    <2> QED
      BY <1>0, <2>4, <2>5, WriteRetains
  <1> QED
    BY Zenon, <1>1, <1>2, <1>3

\* Who takes a row from a process.
LEMMA RowStep ==
  ASSUME Least, Inv, [Next]_vars
  PROVE  \/ Retains(table, table')
         \/ MainUnqueue \/ MainCleanup \/ CtClear
         \/ \E w \in Workers : sigchld_handler_service(w)
  <1>0. Sound(table)
    BY Zenon, InvSound
  <1>1. CASE UNCHANGED table
    BY Zenon, <1>1 DEF Retains
  <1>2. CASE Main \/ MainStop
    <2>1. CASE MainInit
      <3>1. main.pid \in Pids /\ table' = init_pid_checkpoint_data(table, main.pid)
        BY Zenon, <2>1 DEF MainInit, Inv, TypeInv, MainLocals
      <3> QED
        BY Zenon, <1>0, <3>1, InitRetains
    <2>2. CASE MainAbort
      BY Zenon, <1>0, <1>1, <2>2, MarkRetains DEF MainAbort
    <2> QED
      BY Zenon, <1>1, <1>2, <2>1, <2>2
         DEF Main, MainStop, MainAccept, MainReject, MainAcceptSilent, MainRead, MainCanCheckpoint,
             MainCanRestore, MainPush, MainPushFull, MainJoin, daemon
  <1>3. CASE CommandThread
    <2>1. CASE CtSetCheckpointing \/ CtSetCheckpointed
      BY Zenon, <1>0, <2>1, MarkRetains DEF CtSetCheckpointing, CtSetCheckpointed
    <2> QED
      BY Zenon, <1>1, <1>3, <2>1
         DEF CommandThread, CtPop, CtInterrupted, CtFork, CtForkFails, CtCheckpointAnswered,
             CtCheckpointLost, CtClose, CtGetWorker, CtConnect, CtConnectFails, CtRestoreAnswered,
             CtRestoreLost
  <1>4. ASSUME NEW w \in Workers, Worker(w) \/ WorkerCrash(w) PROVE UNCHANGED table
    BY Zenon, <1>4
       DEF Worker, WorkerCrash, WorkerSetup, WorkerSeize, WorkerDump, WorkerWatch, WorkerRespond,
                WorkerAccept, WorkerRestore, WorkerReply, WorkerEnd, daemon
  <1> QED
    BY Zenon, <1>1, <1>2, <1>3, <1>4, OutsideFrame DEF Next

-----------------------------------------------------------------------------
(* The listener. *)

\* Where the listener is with which command.
CmdInv ==
  /\ main.pc \in {"can_checkpoint", "init", "unqueue"} => main.cmd = MEMCR_CHECKPOINT
  /\ main.pc \in {"can_restore", "abort"} => main.cmd = MEMCR_RESTORE

\* Where it comes from.
LEMMA MainEnters ==
  ASSUME Inv, CmdInv, [Next]_vars
  PROVE  /\ CmdInv'
         /\ main'.pc = "push" => UNCHANGED main \/ MainInit \/ (MainAbort /\ main'.cmd = MEMCR_RESTORE)
         /\ main'.pc = "down" => UNCHANGED main \/ MainCleanup
         /\ MainInit => main'.pid = main.pid
  <1>0. main \in MainState
    BY Zenon DEF Inv, TypeInv, TypeOK
  <1>1. CASE UNCHANGED main
    BY Zenon, <1>0, <1>1 DEF CmdInv, MainInit, MainTo, MainState
  <1>2. ASSUME NEW pc, MainTo(pc)
        PROVE  main'.pc = pc /\ main'.cmd = main.cmd /\ main'.pid = main.pid
    BY Zenon, <1>0, <1>2 DEF MainTo, MainState
  <1>3. ASSUME NEW c \in Clients, MainAccept(c) \/ MainAcceptSilent(c)
        PROVE  /\ main'.pc \in {"can_checkpoint", "can_restore", "read"}
               /\ CmdInv' /\ ~MainInit
    <2>1. CASE MainAccept(c)
      <3>1. main'.pc = Served(clients[c].cmd) /\ main'.cmd = clients[c].cmd /\ clients[c].cmd \in Commands
        BY Zenon, <2>1 DEF MainAccept
      <3> QED
        BY Zenon, <2>1, <3>1 DEF CmdInv, Served, Commands, MainAccept, MainInit
    <2>2. CASE MainAcceptSilent(c)
      <3>1. main'.pc = "read"
        BY Zenon, <2>2 DEF MainAcceptSilent
      <3> QED
        BY Zenon, <2>2, <3>1 DEF CmdInv, MainAcceptSilent, MainInit
    <2> QED
      BY Zenon, <1>3, <2>1, <2>2
  <1>4. CASE main' = MainIdle
    <2>1. main'.pc = "select"
      BY Zenon, <1>4 DEF MainIdle
    <2>2. ~MainInit
      BY <1>2, <2>1 DEF MainInit
    <2> QED
      BY Zenon, <2>1, <2>2 DEF CmdInv
  <1>5. CASE MainRead /\ main.cmd \in Commands /\ MainTo(Served(main.cmd))
    <2>1. main'.pc = Served(main.cmd) /\ main'.cmd = main.cmd
      BY Zenon, <1>2, <1>5
    <2> QED
      BY Zenon, <1>5, <2>1 DEF CmdInv, Served, Commands, MainRead, MainInit
  <1>6. CASE MainCanCheckpoint /\ MainTo("init")
    BY <1>2, <1>6 DEF CmdInv, MainCanCheckpoint, MainInit
  <1>7. CASE MainInit
    BY <1>2, <1>7 DEF CmdInv, MainInit
  <1>8. CASE MainCanRestore /\ MainTo("abort")
    BY <1>2, <1>8 DEF CmdInv, MainCanRestore, MainInit
  <1>9. CASE MainAbort
    <2>1. main.pc = "abort" /\ MainTo("push")
      BY Zenon, <1>9 DEF MainAbort
    <2> QED
      BY <1>2, <1>9, <2>1 DEF CmdInv, MainInit
  <1>10. CASE MainPushFull /\ main.cmd = MEMCR_CHECKPOINT /\ MainTo("unqueue")
    BY <1>2, <1>10 DEF CmdInv, MainPushFull, MainInit
  <1>11. CASE \E pc \in {"join", "cleanup"} : main.pc # "init" /\ MainTo(pc)
    BY Zenon, <1>2, <1>11 DEF CmdInv, MainInit
  <1>12. CASE MainCleanup
    <2>1. main.pc = "cleanup" /\ MainTo("down")
      BY Zenon, <1>12 DEF MainCleanup
    <2> QED
      BY <1>2, <1>12, <2>1 DEF CmdInv, MainInit
  <1>13. CASE Main \/ MainStop
    <2>1. CASE MainRead
      BY Zenon, <1>4, <1>5, <2>1 DEF MainRead, MainDone
    <2>2. CASE MainCanCheckpoint
      BY Zenon, <1>4, <1>6, <2>2 DEF MainCanCheckpoint, MainDone
    <2>3. CASE MainCanRestore
      BY Zenon, <1>4, <1>8, <2>3 DEF MainCanRestore, MainDone
    <2>4. CASE MainPush \/ MainUnqueue
      BY Zenon, <1>4, <2>4 DEF MainPush, MainUnqueue, MainDone
    <2>5. CASE MainPushFull
      BY Zenon, <1>4, <1>10, <2>5 DEF MainPushFull, MainDone
    <2>6. CASE MainStop \/ MainJoin
      BY Zenon, <1>11, <2>6 DEF MainStop, MainJoin
    <2>7. CASE \E c \in Clients : MainReject(c)
      BY Zenon, <1>1, <2>7 DEF MainReject, daemon
    <2> QED
      BY Zenon, <1>3, <1>7, <1>9, <1>12, <1>13, <2>5, <2>1, <2>2, <2>3, <2>4, <2>6, <2>7 DEF Main
  <1> QED
    BY Zenon, <1>1, <1>13, CtFrame, WorkerFrame, OutsideFrame DEF Next, WorkerStep

\* After the clean-up the table is empty, and stays so.
DownInv == main.pc = "down" => \A p \in Pids : RowsOf(table, p) = {}

LEMMA DownNext ==
  ASSUME Inv, CmdInv, StopInv, DownInv, [Next]_vars
  PROVE  DownInv'
  <1>1. CASE main'.pc # "down"
    BY Zenon, <1>1 DEF DownInv
  <1>2. CASE MainCleanup
    <2>1. \A i \in Rows : table'[i].pid = PID_INVALID
      <3>1. table \in [Rows -> Row]
        BY Zenon DEF Inv, TypeInv, TypeOK
      <3>2. \A i \in Rows : Cleared(table[i]).pid = PID_INVALID
        BY Zenon, <3>1 DEF Cleared, Row
      <3> QED
        BY Zenon, <1>2, <3>1, <3>2 DEF MainCleanup
    <2> QED
      BY Zenon, <2>1, InvalidAssumption DEF DownInv, RowsOf
  <1>3. CASE main.pc = "down" /\ UNCHANGED main
    <2>1. ct.pc = "done"
      BY Zenon, <1>3 DEF StopInv
    <2>2. ~CommandThread
      BY Zenon, <2>1
         DEF CommandThread, CtPop, CtInterrupted, CtFork, CtForkFails, CtSetCheckpointing,
           CtCheckpointAnswered, CtCheckpointLost, CtSetCheckpointed, CtClear, CtClose, CtGetWorker,
           CtConnect, CtConnectFails, CtRestoreAnswered, CtRestoreLost
    <2>3. ~Main /\ ~MainStop
      BY Zenon, <1>3
         DEF Main, MainStop, MainAccept, MainAcceptSilent, MainRead, MainReject, MainCanCheckpoint,
         MainInit,
             MainCanRestore, MainAbort, MainPush, MainPushFull, MainUnqueue, MainJoin, MainCleanup
    <2>4. ASSUME NEW w \in Workers, WorkerStep(w) PROVE UNCHANGED table
      BY Zenon, <1>3, <2>4
         DEF WorkerStep, Worker, WorkerCrash, WorkerSetup, WorkerSeize, WorkerDump, WorkerWatch,
             WorkerRespond, WorkerAccept, WorkerRestore, WorkerReply, WorkerEnd, sigchld_handler_service, daemon
    <2>5. UNCHANGED table
      BY Zenon, <2>2, <2>3, <2>4, OutsideFrame DEF Next, WorkerStep
    <2> QED
      BY Zenon, <1>3, <2>5 DEF DownInv, RowsOf
  <1> QED
    BY Zenon, <1>1, <1>2, <1>3, MainEnters

=============================================================================
