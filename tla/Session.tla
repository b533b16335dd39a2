------------------------------- MODULE Session -------------------------------
(* One checkpoint and one restore of a seized target: the worker, which plays *)
(* cmd_checkpoint and execute_parasite_restore, the parasite thread that runs  *)
(* inside the target and serves one connection at a time, and the thread that *)
(* watches the parasite.  The worker opens a connection per command and does  *)
(* not wait for the parasite to have handled it.  A VMA has at most one region *)
(* to dump (VmaPages says which pages those are, Dump how they are stored).   *)
(* user_interactive_mode takes the same steps in one process.                 *)
EXTENDS Integers, Sequences, FiniteSetsExt, Functions

CONSTANTS NrVmas,      \* the VMAs found by scan_target_vmas are 1 .. NrVmas
          ReadOnly,    \* those without PROT_WRITE (all of them are readable)
          Clean,       \* those without a page to dump
          SockBuf,     \* messages that fit into a socket
          Faults       \* what may go wrong, out of AllFaults

Vmas == 1 .. NrVmas

AllFaults == {"connect",    \* 100 attempts of connect() are not enough
              "write",      \* memory cannot be read or the dump not be written
              "read",       \* the dump cannot be read or has another digest
              "seize",      \* the watching thread cannot seize the parasite
              "trap",       \* a system call of the parasite fails: die()
              "kill",       \* somebody kills the target
              "stop",       \* somebody sends it SIGSTOP, which the parasite takes
              "slow",       \* the parasite is not done within a second
              "abort"}      \* the daemon aborts the checkpoint

ASSUME SessionAssumption ==
  /\ NrVmas \in Nat \ {0}
  /\ ReadOnly \subseteq Vmas
  /\ Clean \subseteq Vmas
  /\ SockBuf \in Nat \ {0}
  /\ Faults \subseteq AllFaults

VARIABLES opts,          \* how this session is run
          wpc, idx,      \* the worker, and the VMA or region its loop is at
          wret,          \* ret of parasite_status_wait
          conns,         \* connections to the parasite, the served one first
          reply,         \* what the parasite sent back on the first one
          ppc,           \* the parasite
          watch,         \* the watching thread
          status,        \* parasite_watch: "ok" until changed
          jobctl,        \* "none", or the last of "stopped" and "continued"
          target,        \* "frozen", "running" or "dead"
          mem, prot,     \* per VMA: its content, its protection
          image          \* pages-<pid>.img

vars == <<opts, wpc, idx, wret, conns, reply, ppc, watch, status, jobctl, target, mem, prot, image>>
worker == <<opts, wpc, idx, wret, image>>
parasite == <<reply, ppc, mem, prot>>
watcher == <<watch, status, jobctl>>

\* Option -m, whether /proc/pid/pagemap has to be read by the parasite, and
\* whether connections may fail although the parasite is there.
Options == [proc_mem : BOOLEAN, remote_pagemap : BOOLEAN,
            unreachable : {FALSE} \cup {b \in {TRUE} : "connect" \in Faults}]

Commands == {"MPROTECT", "GET_PAGES", "SET_PAGES", "END"}
NewConn(cmd) == [cmd |-> cmd, data |-> <<>>, closed |-> FALSE]

\* The parasite has taken the first connection.
Serving == ppc \in {"mprotect", "get", "madvise", "set", "trapped"} /\ conns # <<>>

parasite_status_ok == status = "ok"

-----------------------------------------------------------------------------
(* The worker's side of a connection. *)

\* The parasite is one of the target's threads.
Dead == IF ppc = "exited" THEN ppc ELSE "dead"

Goto(pc, i) == wpc' = pc /\ idx' = i

\* sys_listen(srvd, 1) lets two connections wait.
Waiting == IF Serving THEN Len(conns) - 1 ELSE Len(conns)
CanConnect == ppc \notin {"start", "unbound", "exited", "dead"} /\ Waiting < 2

\* parasite_connect and the command byte.
Open(cmd) == conns' = Append(conns, NewConn(cmd))

\* The last of 100 attempts fails: the parasite is gone, stopped, or not scheduled.
parasite_connect_fails ==
  /\ ~CanConnect
  /\ opts.unreachable \/ jobctl = "stopped" \/ ppc \in {"unbound", "trapped", "exited", "dead"}

\* parasite_write of one request on the newest connection; it spins while the
\* socket is full and the parasite lives.
HasRoom == Len(conns[Len(conns)].data) < SockBuf /\ ppc # "dead"
Sent(msg) == [conns EXCEPT ![Len(conns)].data = Append(@, msg)]
parasite_write_fails == ppc = "dead" \/ (~HasRoom /\ ~parasite_status_ok)
Closed == [conns EXCEPT ![Len(conns)].closed = TRUE]

\* The next VMA at or after i that target_mprotect_off and _on do not skip.
NextReadOnly(i) ==
  LET left == {v \in ReadOnly : v >= i}
  IN  IF left = {} THEN 0 ELSE Min(left)

-----------------------------------------------------------------------------
(* cmd_checkpoint: target_mprotect_off, then get_target_pages. *)

\* A failure of target_mprotect_off is ignored.
MprotectOff ==
  /\ wpc = "mprotect_off"
  /\ \/ CanConnect /\ Open("MPROTECT") /\ Goto("off_loop", 1)
     \/ parasite_connect_fails /\ UNCHANGED conns /\ Goto("get_pages", 1)
  /\ UNCHANGED <<opts, wret, image, parasite, watcher, target>>

\* One pass of the loops of target_mprotect_off and target_mprotect_on.
Mprotect(pc, p, next) ==
  /\ wpc = pc
  /\ LET v == NextReadOnly(idx) IN
       \/ v # 0 /\ HasRoom /\ conns' = Sent([vma |-> v, what |-> p]) /\ Goto(pc, v + 1)
       \/ v # 0 /\ parasite_write_fails /\ conns' = Closed /\ Goto(next, 1)
       \/ v = 0 /\ conns' = Closed /\ Goto(next, 1)
  /\ UNCHANGED <<opts, wret, image, parasite, watcher, target>>

OffLoop == Mprotect("off_loop", "open", "get_pages")

\* get_target_pages opens the dump and connects.
GetPages ==
  /\ wpc = "get_pages"
  /\ \/ CanConnect /\ Open("GET_PAGES") /\ Goto("get_loop", 1)
     \/ /\ parasite_connect_fails \/ "write" \in Faults
        /\ UNCHANGED conns /\ Goto("failed", 1)
  /\ image' = <<>>
  /\ UNCHANGED <<opts, wret, parasite, watcher, target>>

\* The region at idx goes into the dump, or cannot be written.
write_vm_region(what) ==
  \/ image' = Append(image, [vma |-> idx, what |-> what]) /\ Goto("get_loop", idx + 1)
  \/ "write" \in Faults /\ UNCHANGED image /\ Goto("get_failed", idx)

\* parasite_read gives up.
parasite_read_fails == reply = <<>> /\ (~parasite_status_ok \/ ppc = "dead")

\* get_vma_pages knows the pagemap: the VMA has a region to dump, or none.
WithPagemap == IF idx \in Clean THEN Goto("get_loop", idx + 1) ELSE Goto("get_region", idx)

\* get_vma_pages, which asks the parasite for the pagemap if it has to.
GetVma ==
  /\ wpc = "get_loop" /\ idx <= NrVmas
  /\ \/ ~opts.remote_pagemap /\ UNCHANGED conns /\ WithPagemap
     \/ opts.remote_pagemap /\ HasRoom /\ conns' = Sent([vma |-> idx, what |-> "map"]) /\ Goto("get_map", idx)
     \/ opts.remote_pagemap /\ parasite_write_fails /\ UNCHANGED conns /\ Goto("get_failed", idx)
  /\ UNCHANGED <<opts, wret, image, parasite, watcher, target>>

GetMap ==
  /\ wpc = "get_map"
  /\ \/ reply # <<>> /\ reply' = Tail(reply) /\ WithPagemap
     \/ parasite_read_fails /\ UNCHANGED reply /\ Goto("get_failed", idx)
  /\ UNCHANGED <<opts, wret, image, conns, ppc, mem, prot, watcher, target>>

\* get_vm_region: with -m the region is read from /proc/pid/mem before the
\* request to drop it; without, the parasite is asked to send it first.
GetRegion ==
  /\ wpc = "get_region"
  /\ \/ /\ HasRoom
        /\ conns' = Sent([vma |-> idx, what |-> IF opts.proc_mem THEN "drop" ELSE "tx"])
        /\ IF opts.proc_mem
           THEN write_vm_region(mem[idx])
           ELSE Goto("get_reply", idx) /\ UNCHANGED image
     \/ /\ parasite_write_fails \/ (opts.proc_mem /\ "write" \in Faults)
        /\ UNCHANGED <<conns, image>> /\ Goto("get_failed", idx)
  /\ UNCHANGED <<opts, wret, parasite, watcher, target>>

\* The region arrives and write_vm_region stores it.
GetReply ==
  /\ wpc = "get_reply"
  /\ \/ reply # <<>> /\ reply' = Tail(reply) /\ write_vm_region(Head(reply))
     \/ parasite_read_fails /\ UNCHANGED <<reply, image>> /\ Goto("get_failed", idx)
  /\ UNCHANGED <<opts, wret, conns, ppc, mem, prot, watcher, target>>

\* The daemon has written the abort command to the worker's socket, or SIGINT
\* has come in interactive mode.
is_checkpoint_aborted == "abort" \in Faults

\* close(cd) is missing.
GetDoneLeavesOpen ==
  /\ \/ wpc = "get_loop" /\ (idx > NrVmas \/ is_checkpoint_aborted) /\ Goto("checkpointed", 1)
     \/ wpc = "get_failed" /\ Goto("failed", 1)
  /\ UNCHANGED <<opts, wret, image, conns, parasite, watcher, target>>

\* The end of the loop, is_checkpoint_aborted, or an error.
GetDone ==
  /\ \/ wpc = "get_loop" /\ (idx > NrVmas \/ is_checkpoint_aborted) /\ Goto("checkpointed", 1)
     \/ wpc = "get_failed" /\ Goto("failed", 1)
  /\ conns' = Closed
  /\ UNCHANGED <<opts, wret, image, parasite, watcher, target>>

-----------------------------------------------------------------------------
(* execute_parasite_restore: target_set_pages, target_mprotect_on,           *)
(* target_cmd_end, parasite_status_wait, the blobs, unseize_target.          *)

\* RESTORE arrives, or the key is pressed.
Restore ==
  /\ wpc = "checkpointed"
  /\ Goto("restore", 1)
  /\ UNCHANGED <<opts, wret, image, conns, parasite, watcher, target>>

\* The kernel reports that the traced parasite has stopped, at its trap or for
\* SIGSTOP.
StopReported ==
  \/ watch = "wait" /\ (jobctl = "stopped" \/ ppc \in {"unbound", "trapped"})
  \/ status = "stopped"

\* sigchld_handler_worker ends a worker that waits for RESTORE.  It is installed
\* without SA_NOCLDSTOP, so a stop will do: exit() detaches the target, which
\* goes on with what it has left of its memory, or dies of the trap.  The handler
\* is not installed yet just after the checkpoint, and never in interactive mode.
WorkerSigchld ==
  /\ wpc = "checkpointed"
  /\ \/ target = "dead" /\ Goto("done", 1) /\ UNCHANGED <<target, ppc>>
     \/ /\ target = "frozen" /\ StopReported
        /\ target' = IF ppc \in {"unbound", "trapped"} THEN "dead" ELSE "running"
        /\ ppc' = IF target' = "dead" THEN "dead" ELSE ppc
        /\ Goto("crashed", 1)
  /\ UNCHANGED <<opts, wret, image, conns, reply, mem, prot, watcher>>

SetPages ==
  /\ wpc = "restore"
  /\ \/ ~parasite_status_ok /\ UNCHANGED conns /\ Goto("failed", 1)
     \/ parasite_status_ok /\ CanConnect /\ Open("SET_PAGES") /\ Goto("set_loop", 1)
     \/ parasite_status_ok /\ parasite_connect_fails /\ UNCHANGED conns /\ Goto("failed", 1)
  /\ UNCHANGED <<opts, wret, image, parasite, watcher, target>>

\* The regions of the dump, until its end or until it cannot be read; then the
\* digests are compared.
SetLoop ==
  /\ wpc = "set_loop"
  /\ \/ idx <= Len(image) /\ HasRoom /\ conns' = Sent(image[idx]) /\ Goto("set_loop", idx + 1)
     \/ idx <= Len(image) /\ parasite_write_fails /\ conns' = Closed /\ Goto("failed", 1)
     \/ "read" \in Faults /\ conns' = Closed /\ Goto("failed", 1)
     \/ idx > Len(image) /\ conns' = Closed /\ Goto("mprotect_on", 1)
  /\ UNCHANGED <<opts, wret, image, parasite, watcher, target>>

\* target_mprotect_on is left out.
MprotectOnSkipped ==
  /\ wpc = "mprotect_on"
  /\ UNCHANGED conns
  /\ Goto("cmd_end", 1)
  /\ UNCHANGED <<opts, wret, image, parasite, watcher, target>>

\* A failure of target_mprotect_on is ignored ...
MprotectOn ==
  /\ wpc = "mprotect_on"
  /\ \/ CanConnect /\ Open("MPROTECT") /\ Goto("on_loop", 1)
     \/ parasite_connect_fails /\ UNCHANGED conns /\ Goto("cmd_end", 1)
  /\ UNCHANGED <<opts, wret, image, parasite, watcher, target>>

OnLoop == Mprotect("on_loop", "orig", "cmd_end")

\* parasite_status_wait is left out.
CmdEndNoWait ==
  /\ wpc = "cmd_end"
  /\ CanConnect
  /\ conns' = Append(conns, [NewConn("END") EXCEPT !.closed = TRUE])
  /\ Goto("blobs", 1)
  /\ UNCHANGED <<opts, wret, image, parasite, watcher, target>>

\* ... and so is one of target_cmd_end.
CmdEnd ==
  /\ wpc = "cmd_end"
  /\ \/ CanConnect /\ conns' = Append(conns, [NewConn("END") EXCEPT !.closed = TRUE])
     \/ parasite_connect_fails /\ UNCHANGED conns
  /\ Goto("status_wait", 1)
  /\ UNCHANGED <<opts, wret, image, parasite, watcher, target>>

\* parasite_status_wait: pthread_cond_timedwait runs into its timeout.
StatusWaitTimeout ==
  /\ "slow" \in Faults
  /\ wpc = "status_wait"
  /\ parasite_status_ok
  /\ wret' = "ETIMEDOUT"
  /\ UNCHANGED <<opts, wpc, idx, image, conns, parasite, watcher, target>>

\* It returns only if the last pthread_cond_timedwait did not time out: ret is
\* not reset when the outer loop finds the status changed.  A parasite that
\* did not exit fails the assertion.
StatusWaitReturn ==
  /\ wpc = "status_wait"
  /\ ~parasite_status_ok
  /\ wret = "0"
  /\ Goto(CASE status = "exited" -> "blobs" [] status = "signaled" -> "failed" [] OTHER -> "assert", 1)
  /\ UNCHANGED <<opts, wret, image, conns, parasite, watcher, target>>

\* munmap, signals_unblock and ctx_restore (module Blob), then unseize_target.
\* The assertions of execute_blob fail if there is no target any more.
Unseize ==
  /\ wpc = "blobs"
  /\ IF target = "frozen" THEN target' = "running" /\ Goto("done", 1)
                          ELSE UNCHANGED target /\ Goto("assert", 1)
  /\ UNCHANGED <<opts, wret, image, conns, parasite, watcher>>

\* abort(): the kernel detaches what the worker traced, which goes on or dies
\* of the signal it was stopped at.
AssertFails ==
  /\ wpc = "assert"
  /\ target' \in IF target = "frozen" THEN {"running", "dead"} ELSE {target}
  /\ ppc' = IF target' = "dead" THEN Dead ELSE ppc
  /\ Goto("crashed", 1)
  /\ UNCHANGED <<opts, wret, image, conns, reply, mem, prot, watcher>>

\* "Checkpoint failed!" or "Restore failed! Killing the target".
KillTarget ==
  /\ wpc = "failed"
  /\ target' = "dead"
  /\ ppc' = Dead
  /\ Goto("done", 1)
  /\ UNCHANGED <<opts, wret, image, conns, reply, watcher, mem, prot>>

-----------------------------------------------------------------------------
(* The parasite. *)

Conn == Head(conns)
Msg == Head(Conn.data)
Took == [conns EXCEPT ![1].data = Tail(@)]
HasMsg(pc) == ppc = pc /\ Conn.data # <<>>

\* service: bind and listen.
Listen ==
  /\ ppc = "start"
  /\ ppc' = "accept"
  /\ UNCHANGED <<worker, conns, reply, watcher, target, mem, prot>>

\* accept, then handle_connection.  cmd_end answers at once: the loop ends and
\* the parasite exits.
Accept ==
  /\ ppc = "accept"
  /\ conns # <<>>
  /\ ppc' = CASE Conn.cmd = "MPROTECT" -> "mprotect"
              [] Conn.cmd = "GET_PAGES" -> "get"
              [] Conn.cmd = "SET_PAGES" -> "set"
              [] OTHER -> "exited"
  /\ reply' = <<>>
  /\ UNCHANGED <<worker, conns, watcher, target, mem, prot>>

cmd_mprotect ==
  /\ HasMsg("mprotect")
  /\ prot' = [prot EXCEPT ![Msg.vma] = Msg.what]
  /\ conns' = Took
  /\ UNCHANGED <<worker, reply, ppc, watcher, target, mem>>

\* cmd_get_pages: REGION_REQ_PAGEMAP.
cmd_get_pages_map ==
  /\ HasMsg("get")
  /\ Msg.what = "map"
  /\ reply' = Append(reply, "map")
  /\ conns' = Took
  /\ UNCHANGED <<worker, ppc, watcher, target, mem, prot>>

\* The region is dropped before it is sent.
cmd_get_pages_drops_first ==
  /\ HasMsg("get")
  /\ Msg.what = "tx"
  /\ mem' = [mem EXCEPT ![Msg.vma] = "zero"]
  /\ reply' = Append(reply, "zero")
  /\ ppc' = "madvise"
  /\ UNCHANGED <<worker, conns, watcher, target, prot>>

\* cmd_get_pages: with VM_REGION_TX the region is sent, then it is dropped.
cmd_get_pages_tx ==
  /\ HasMsg("get")
  /\ Msg.what = "tx"
  /\ reply' = Append(reply, mem[Msg.vma])
  /\ ppc' = "madvise"
  /\ UNCHANGED <<worker, conns, watcher, target, mem, prot>>

cmd_get_pages_madvise ==
  /\ \/ HasMsg("get") /\ Msg.what = "drop"
     \/ HasMsg("madvise")
  /\ mem' = [mem EXCEPT ![Msg.vma] = "zero"]
  /\ conns' = Took
  /\ ppc' = "get"
  /\ UNCHANGED <<worker, reply, watcher, target, prot>>

\* __builtin_trap(): a parasite that is traced stops at it, otherwise the
\* signal ends the whole target.
Trap(pc) ==
  IF watch = "wait" THEN ppc' = pc /\ UNCHANGED target
                    ELSE ppc' = "dead" /\ target' = "dead"

\* cmd_set_pages; a region that is not writable makes sys_read() fail.
cmd_set_pages ==
  /\ HasMsg("set")
  /\ IF Msg.vma \in ReadOnly /\ prot[Msg.vma] # "open"
     THEN Trap("trapped") /\ UNCHANGED <<mem, conns>>
     ELSE mem' = [mem EXCEPT ![Msg.vma] = Msg.what] /\ conns' = Took /\ UNCHANGED <<ppc, target>>
  /\ UNCHANGED <<worker, reply, watcher, prot>>

\* read() returns 0: close the connection and accept the next.
Eof ==
  /\ ppc \in {"mprotect", "get", "set"}
  /\ Conn.data = <<>>
  /\ Conn.closed
  /\ conns' = Tail(conns)
  /\ ppc' = "accept"
  /\ UNCHANGED <<worker, reply, watcher, target, mem, prot>>

\* die(); before the parasite listens nobody can connect to it.
Die ==
  /\ "trap" \in Faults
  /\ jobctl # "stopped"
  /\ ppc \in {"start", "mprotect", "get", "madvise", "set"}
  /\ Trap(IF ppc = "start" THEN "unbound" ELSE "trapped")
  /\ UNCHANGED <<worker, conns, reply, watcher, mem, prot>>

\* Somebody kills the target; or the watching thread has ended, which detaches
\* a parasite that stopped at its trap, and it dies of the signal.
TargetKilled ==
  /\ "kill" \in Faults \/ (ppc \in {"unbound", "trapped"} /\ watch = "over")
  /\ target # "dead"
  /\ target' = "dead"
  /\ ppc' = Dead
  /\ UNCHANGED <<worker, conns, reply, watcher, mem, prot>>

\* SIGSTOP: signals_block cannot block it, and the parasite is the one thread of
\* the target that can take it.  At most one is sent in a session.
TargetStopped ==
  /\ "stop" \in Faults
  /\ target = "frozen" /\ jobctl = "none"
  /\ ppc \notin {"unbound", "trapped", "exited", "dead"}
  /\ jobctl' = "stopped"
  /\ UNCHANGED <<worker, conns, parasite, watch, status, target>>

\* SIGCONT; a parasite that is traced stays where it is until the thread that
\* traces it has ended.
TargetContinued ==
  /\ jobctl = "stopped" /\ watch # "wait"
  /\ jobctl' = "continued"
  /\ UNCHANGED <<worker, conns, parasite, watch, status, target>>

-----------------------------------------------------------------------------
(* The watching thread. *)

\* parasite_watch_thread seizes the parasite, or returns without a word.
WatchSeize ==
  /\ watch = "start"
  /\ \/ ppc \notin {"exited", "dead"} /\ watch' = "wait"
     \/ (ppc \in {"exited", "dead"} \/ "seize" \in Faults) /\ watch' = "over"
  /\ UNCHANGED <<worker, conns, parasite, status, jobctl, target>>

\* A signal that finds the worker in a pthread_cond_timedwait whose time is
\* over may still make that call return 0.
parasite_status_signal(s) ==
  /\ status' = s
  /\ wret' \in {wret} \cup (IF wpc = "status_wait" THEN {"0"} ELSE {})

\* wait4() returns.
Watch ==
  /\ watch = "wait"
  /\ jobctl = "stopped" \/ ppc \in {"exited", "unbound", "trapped", "dead"}
  /\ parasite_status_signal(CASE ppc = "exited" -> "exited" [] ppc = "dead" -> "signaled" [] OTHER -> "stopped")
  /\ watch' = "over"
  /\ UNCHANGED <<opts, wpc, idx, image, conns, parasite, jobctl, target>>

-----------------------------------------------------------------------------

Init ==
  /\ opts \in Options
  /\ wpc = "mprotect_off" /\ idx = 1 /\ wret = "0"
  /\ conns = <<>> /\ reply = <<>>
  /\ ppc = "start"
  /\ watch = "start"
  /\ status = "ok" /\ jobctl = "none"
  /\ target = "frozen"
  /\ mem = [v \in Vmas |-> "orig"]
  /\ prot = [v \in Vmas |-> "orig"]
  /\ image = <<>>

Worker ==
  \/ MprotectOff \/ OffLoop \/ GetPages \/ GetVma \/ GetMap \/ GetRegion \/ GetReply \/ GetDone
  \/ SetPages \/ SetLoop \/ MprotectOn \/ OnLoop \/ CmdEnd
  \/ StatusWaitReturn \/ Unseize \/ AssertFails \/ KillTarget

Parasite ==
  /\ jobctl # "stopped"
  /\ \/ Listen \/ Accept \/ cmd_mprotect \/ cmd_get_pages_map \/ cmd_get_pages_tx
     \/ cmd_get_pages_madvise \/ cmd_set_pages \/ Eof

Watcher == WatchSeize \/ Watch

Next ==
  \/ Worker \/ Restore \/ WorkerSigchld \/ StatusWaitTimeout
  \/ Parasite \/ Die \/ TargetKilled \/ TargetStopped \/ TargetContinued
  \/ Watcher

Spec == Init /\ [][Next]_vars

\* The worker, the parasite and the watching thread are scheduled; no fault has
\* to happen and nobody has to ask for the restore.
FairSpec == Spec /\ WF_vars(Worker) /\ WF_vars(Parasite) /\ WF_vars(Watcher)

-----------------------------------------------------------------------------
(* Properties. *)

Message == [vma : Vmas, what : {"open", "orig", "map", "tx", "drop", "zero"}]

\* Every variable stays in its range, and of the connections only the newest
\* can be open.
TypeOK ==
  /\ opts \in Options
  /\ wpc \in {"mprotect_off", "off_loop", "get_pages", "get_loop", "get_map", "get_region",
              "get_reply", "get_failed", "checkpointed", "restore", "set_loop", "mprotect_on", "on_loop", "cmd_end", "status_wait",
              "blobs", "failed", "assert", "crashed", "done"}
  /\ idx \in 1 .. NrVmas + 1
  /\ wret \in {"0", "ETIMEDOUT"}
  /\ conns \in Seq([cmd : Commands, data : Seq(Message), closed : BOOLEAN])
  /\ \A i \in 1 .. Len(conns) - 1 : conns[i].closed
  /\ ppc # "dead" => Waiting <= 2
  /\ reply \in Seq({"map", "orig", "zero"})
  /\ ppc \in {"start", "accept", "mprotect", "get", "madvise", "set",
              "unbound", "trapped", "exited", "dead"}
  /\ watch \in {"start", "wait", "over"}
  /\ status \in {"ok", "exited", "stopped", "signaled"}
  /\ jobctl \in {"none", "stopped", "continued"}
  /\ target \in {"frozen", "running", "dead"}
  /\ mem \in [Vmas -> {"orig", "zero"}]
  /\ prot \in [Vmas -> {"orig", "open"}]
  /\ image \in Seq([vma : Vmas, what : {"orig", "zero"}])

Saved(v) == [vma |-> v, what |-> "orig"] \in Range(image)

\* The types hold, and while a checkpoint is still going well, what has been dropped from the
\* target's memory is in the dump, or is the region the worker is just
\* receiving (get_vm_region); the parasite drops a region without waiting for
\* the worker to store it.
DroppedIsSaved ==
  /\ TypeOK
  /\ \A v \in Vmas :
       mem[v] = "zero" /\ target = "frozen" =>
          \/ Saved(v)
          \/ wpc = "get_reply" /\ v = idx /\ reply = <<"orig">>
          \/ wpc \in {"get_failed", "failed"}

Released == wpc = "done" /\ target = "running"

\* A target that is released has its memory back and is rid of the parasite,
\* though the worker never waits for an answer of the parasite after SET_PAGES
\* and goes on after target_cmd_end whatever that returns (the end of
\* execute_parasite_restore, parasite_status_wait).
MemoryIntact == Released => ppc = "exited" /\ \A v \in Vmas : mem[v] = "orig"

\* README: "VM mappings are not changed": its protections are back too.  This
\* needs every connection to succeed as long as the parasite is there, and that it
\* was not stopped, because a failure of target_mprotect_on is ignored.
MappingsUnchanged == Released /\ ~opts.unreachable /\ jobctl = "none" => \A v \in Vmas : prot[v] = "orig"

\* The worker has finished, or waits for somebody to ask for the restore.
AtRest == wpc \in {"checkpointed", "done", "crashed"}

\* parasite_watch_thread has returned without an answer from wait4().
Unwatched == watch = "over" /\ parasite_status_ok

\* The worker does not hang as long as the parasite is watched: a checkpoint is
\* completed or the target killed, a restored target runs again, or is killed,
\* or the worker crashes (parasite_connect, __read and __write give up when the
\* parasite is gone, parasite_status_wait returns).
SessionEnds == ~AtRest ~> AtRest \/ Unwatched

\* This is so, watched or not, but for parasite_status_wait: it hangs if it has
\* timed out, if nobody watches the parasite, or if target_cmd_end failed
\* unnoticed; and but for a parasite that is stopped while nobody watches it.
SessionEndsInTime ==
  ~AtRest ~> \/ AtRest
             \/ wpc = "status_wait" /\ (wret = "ETIMEDOUT" \/ Unwatched \/ opts.unreachable \/ jobctl = "continued")
             \/ jobctl = "stopped" /\ Unwatched
=============================================================================
