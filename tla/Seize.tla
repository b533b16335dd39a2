------------------------------- MODULE Seize --------------------------------
(* seize_target, update_parasite_pid and unseize_target: the worker walks      *)
(* /proc/<pid>/task and stops one thread after the other while those it has   *)
(* not reached yet go on creating threads and exiting.  The directory is      *)
(* external: the first read lists all threads in the order of their creation, *)
(* a later one goes on at the position of the first, and ends when that is    *)
(* not below the number of threads.                                           *)
EXTENDS Naturals, FiniteSets, Sequences, Functions

CONSTANTS NrStart,       \* threads of the target in the beginning
          MaxTid         \* bound: threads ever created are 1 .. MaxTid

ASSUME SeizeAssumption ==
  /\ NrStart \in Nat \ {0}
  /\ MaxTid \in Nat /\ MaxTid > NrStart

Tids == 1 .. MaxTid
Leader == 1

VARIABLES wpc,
          list,           \* the live threads, oldest first
          state,          \* per thread
          dir, pos,       \* entries readdir() has still to return; its position
          tid,            \* the thread seize_pid is at
          tids,           \* with nr_threads: the seized ones
          parasite,       \* the thread clone_blob created, 0 before
          parasite_pid    \* what the worker takes it for

seize_vars == <<wpc, list, state, dir, pos, tid, tids, parasite, parasite_pid>>
threads == <<list, state, parasite>>

Live == Range(list)
Without(s, i) == SubSeq(s, 1, i - 1) \o SubSeq(s, i + 1, Len(s))
Created == Cardinality({t \in Tids : state[t] # "new"})
Fresh == Created + 1

-----------------------------------------------------------------------------
(* iterate_pstree, whose own counter of threads stays 0. *)

\* getdents: what readdir() returns next; the end is where it returns nothing.
Entries == IF pos = 0 THEN list ELSE SubSeq(list, pos + 1, Len(list))

\* readdir() has to ask the kernel again.
Getdents(pc, next) ==
  /\ wpc = pc
  /\ dir = <<>>
  /\ IF Entries = <<>>
     THEN wpc' = next /\ pos' = 0 /\ UNCHANGED dir
     ELSE dir' = Entries /\ pos' = pos + Len(Entries) /\ UNCHANGED wpc
  /\ UNCHANGED <<threads, tid, tids, parasite_pid>>

ReadSeize == Getdents("seize", "seized")

\* seize_pid: PTRACE_SEIZE; a thread that is gone is ignored.
SeizePid ==
  /\ wpc = "seize"
  /\ dir # <<>>
  /\ dir' = Tail(dir)
  /\ IF Head(dir) \in Live
     THEN /\ tid' = Head(dir)
          /\ state' = [state EXCEPT ![tid'] = "attached"]
          /\ wpc' = "wait"
     ELSE UNCHANGED <<tid, state, wpc>>
  /\ UNCHANGED <<list, parasite, pos, tids, parasite_pid>>

\* PTRACE_SEIZE and PTRACE_INTERRUPT without wait4.
WaitStoppedAtOnce ==
  /\ wpc = "wait"
  /\ tids' = Append(tids, tid)
  /\ wpc' = "seize"
  /\ UNCHANGED <<threads, dir, pos, tid, parasite_pid>>

\* PTRACE_INTERRUPT and wait4; signals that come first are passed on and the
\* call repeated.  A thread that exits instead makes seize_target fail, and
\* checkpoint_worker kill the target.
WaitStopped ==
  /\ wpc = "wait"
  /\ \/ /\ tid \in Live
        /\ state' = [state EXCEPT ![tid] = "stopped"]
        /\ tids' = Append(tids, tid)
        /\ wpc' = "seize"
     \/ /\ tid \notin Live
        /\ wpc' = "killed"
        /\ UNCHANGED <<state, tids>>
  /\ UNCHANGED <<list, parasite, dir, pos, tid, parasite_pid>>

\* clone_blob, run by the leader.
Clone ==
  /\ wpc = "seized"
  /\ Fresh <= MaxTid
  /\ parasite' = Fresh
  /\ list' = Append(list, Fresh)
  /\ state' = [state EXCEPT ![Fresh] = "running"]
  /\ wpc' = "translate"
  /\ UNCHANGED <<dir, pos, tid, tids, parasite_pid>>

ReadTranslate == Getdents("translate", "session")

\* The first thread is taken for the parasite.
update_parasite_pid_first ==
  /\ wpc = "translate"
  /\ dir # <<>>
  /\ dir' = Tail(dir)
  /\ parasite_pid' = IF parasite_pid = 0 THEN Head(dir) ELSE parasite_pid
  /\ UNCHANGED <<wpc, threads, pos, tid, tids>>

\* update_parasite_pid: the thread that is not among the seized ones.
update_parasite_pid ==
  /\ wpc = "translate"
  /\ dir # <<>>
  /\ dir' = Tail(dir)
  /\ parasite_pid' = IF Head(dir) \in Range(tids) THEN parasite_pid ELSE Head(dir)
  /\ UNCHANGED <<wpc, threads, pos, tid, tids>>

\* The parasite exits when the restore is done (module Session).
ParasiteExits ==
  /\ wpc = "session"
  /\ \E i \in DOMAIN list : list[i] = parasite /\ list' = Without(list, i)
  /\ state' = [state EXCEPT ![parasite] = "exited"]
  /\ wpc' = "unseize"
  /\ UNCHANGED <<parasite, dir, pos, tid, tids, parasite_pid>>

\* The loop ends one thread early.
unseize_target_but_last ==
  /\ wpc = "unseize"
  /\ state' = [t \in DOMAIN state |-> IF t \in Range(SubSeq(tids, 1, Len(tids) - 1)) THEN "running" ELSE state[t]]
  /\ tids' = <<>>
  /\ wpc' = "done"
  /\ UNCHANGED <<list, parasite, dir, pos, tid, parasite_pid>>

\* PTRACE_DETACH of every seized thread.
unseize_target ==
  /\ wpc = "unseize"
  /\ state' = [t \in DOMAIN state |-> IF t \in Range(tids) THEN "running" ELSE state[t]]
  /\ tids' = <<>>
  /\ wpc' = "done"
  /\ UNCHANGED <<list, parasite, dir, pos, tid, parasite_pid>>

-----------------------------------------------------------------------------
(* The target's threads, as long as they are not stopped. *)

Runs(t) == t \in Live /\ t # parasite /\ state[t] \in {"running", "attached"}
Busy == wpc \in {"seize", "wait", "seized", "translate", "session"}

ThreadCreates ==
  /\ Busy
  /\ \E t \in Live : Runs(t)
  /\ Fresh < MaxTid
  /\ list' = Append(list, Fresh)
  /\ state' = [state EXCEPT ![Fresh] = "running"]
  /\ UNCHANGED <<wpc, dir, pos, tid, tids, parasite, parasite_pid>>

ThreadExits ==
  /\ Busy
  /\ \E i \in DOMAIN list :
       /\ list[i] # Leader /\ Runs(list[i])
       /\ list' = Without(list, i)
       /\ state' = [state EXCEPT ![list[i]] = "exited"]
  /\ UNCHANGED <<wpc, dir, pos, tid, tids, parasite, parasite_pid>>

SeizeInit ==
  /\ wpc = "seize"
  /\ list = [i \in 1 .. NrStart |-> i]
  /\ state = [t \in Tids |-> IF t <= NrStart THEN "running" ELSE "new"]
  /\ dir = <<>> /\ pos = 0 /\ tid = 0
  /\ tids = <<>>
  /\ parasite = 0 /\ parasite_pid = 0

SeizeNext ==
  \/ ReadSeize \/ SeizePid \/ WaitStopped
  \/ Clone \/ ReadTranslate \/ update_parasite_pid \/ ParasiteExits \/ unseize_target
  \/ ThreadCreates \/ ThreadExits

SeizeSpec == SeizeInit /\ [][SeizeNext]_seize_vars

-----------------------------------------------------------------------------
(* Properties. *)

\* Every variable stays in its range and no thread is listed twice.
SeizeTypeOK ==
  /\ wpc \in {"seize", "wait", "seized", "translate", "session", "unseize", "done", "killed"}
  /\ list \in Seq(Tids) /\ IsInjective(list)
  /\ dir \in Seq(Tids)
  /\ tids \in Seq(Tids) /\ IsInjective(tids)
  /\ state \in [Tids -> {"new", "running", "attached", "stopped", "exited"}]
  /\ pos \in 0 .. MaxTid /\ tid \in 0 .. MaxTid
  /\ parasite \in 0 .. MaxTid /\ parasite_pid \in 0 .. MaxTid

\* None of the target's own threads has exited since the walk began.
NoneExited == \A t \in DOMAIN state : state[t] = "exited" => t = parasite

\* README: "This is achieved by freezing the process": once seize_target has
\* returned no thread of the target runs but the parasite, however many threads
\* are created during the walk.  If one exits meanwhile the position of
\* readdir() moves past a thread that was not listed yet, hence NoneExited.
AllSeized ==
  NoneExited /\ wpc \in {"seized", "translate", "session", "unseize"} =>
     \A t \in Live \ {parasite} : state[t] = "stopped"

\* The thread parasite_watch_thread is going to watch is the parasite
\* (update_parasite_pid finds it only by elimination).
ParasiteFound == NoneExited /\ wpc = "session" => parasite_pid = parasite

\* The types hold, and unseize_target lets every thread go: there is no other left
\* stopped.
AllReleased == SeizeTypeOK /\ (wpc = "done" => \A t \in Live : state[t] = "running")
=============================================================================
