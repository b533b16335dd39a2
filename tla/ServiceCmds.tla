----------------------------- MODULE ServiceCmds -----------------------------
(* The ring buffer service_cmds_ctx between the listener thread of the memcr *)
(* daemon, which pushes, and its command thread, which waits and pops.  Each *)
(* function body runs under service_cmds_ctx.lock, so it is one action; only *)
(* pthread_cond_wait splits service_cmds_wait_and_pop_front, and popper says *)
(* where in it the command thread is.                                        *)
EXTENDS Integers, Sequences

CONSTANTS MAX_CLIENT_CONNECTIONS,   \* number of ring slots
          Cmds,                     \* service_command_ctx values
          NoCmd                     \* content of a slot never written

ASSUME CapacityAssumption == MAX_CLIENT_CONNECTIONS \in Nat \ {0}
ASSUME NoCmdAssumption == NoCmd \notin Cmds

VARIABLES svc_ctxs, front_idx, back_idx, size, interrupt,
          popper,   \* "busy" with a command, at "call", "blocked" in cond_wait, "stopped"
          svc_ctx   \* the command service_cmds_wait_and_pop_front returned last

ring == <<svc_ctxs, front_idx, back_idx, size>>
vars == <<svc_ctxs, front_idx, back_idx, size, interrupt, popper, svc_ctx>>

Idx == 0 .. (MAX_CLIENT_CONNECTIONS - 1)

\* The indices stay inside the ring and its size within its capacity, whatever
\* the listener pushes and the command thread pops.
TypeOK ==
  /\ svc_ctxs \in [Idx -> Cmds \cup {NoCmd}]
  /\ front_idx \in Idx
  /\ back_idx \in Idx
  /\ size \in 0 .. MAX_CLIENT_CONNECTIONS
  /\ interrupt \in BOOLEAN
  /\ popper \in {"busy", "call", "blocked", "stopped"}
  /\ svc_ctx \in Cmds \cup {NoCmd}

Init ==
  /\ svc_ctxs = [i \in Idx |-> NoCmd]
  /\ front_idx = 0
  /\ back_idx = 0
  /\ size = 0
  /\ interrupt = FALSE
  /\ popper = "call"
  /\ svc_ctx = NoCmd

\* The index after i, as push and pop wrap it.
Step(i) == IF i + 1 >= MAX_CLIENT_CONNECTIONS THEN 0 ELSE i + 1

\* pthread_cond_signal: a thread in pthread_cond_wait goes on to recheck.
Signalled == IF popper = "blocked" THEN "call" ELSE popper

\* pthread_cond_signal is left out.
push_back_no_signal(c) ==
  /\ size < MAX_CLIENT_CONNECTIONS
  /\ svc_ctxs' = [svc_ctxs EXCEPT ![back_idx] = c]
  /\ back_idx' = Step(back_idx)
  /\ size' = size + 1
  /\ UNCHANGED <<front_idx, interrupt, popper, svc_ctx>>

\* A push into a full ring returns -1 and changes nothing, so it is no step.
service_cmds_push_back(c) ==
  /\ size < MAX_CLIENT_CONNECTIONS
  /\ svc_ctxs' = [svc_ctxs EXCEPT ![back_idx] = c]
  /\ back_idx' = Step(back_idx)
  /\ size' = size + 1
  /\ popper' = Signalled
  /\ UNCHANGED <<front_idx, interrupt, svc_ctx>>

\* service_command_thread comes back for the next command.
Call ==
  /\ popper = "busy"
  /\ popper' = "call"
  /\ UNCHANGED <<ring, interrupt, svc_ctx>>

\* The loop condition holds: release the lock and block, in one step.
CondWait ==
  /\ popper = "call"
  /\ size = 0
  /\ ~interrupt
  /\ popper' = "blocked"
  /\ UNCHANGED <<ring, interrupt, svc_ctx>>

\* pthread_cond_wait may return although nobody signalled.
SpuriousWakeup ==
  /\ popper = "blocked"
  /\ popper' = "call"
  /\ UNCHANGED <<ring, interrupt, svc_ctx>>

\* What is queued is still popped after an interrupt.
pop_front_ignores_interrupt ==
  /\ popper = "call"
  /\ size > 0
  /\ svc_ctx' = svc_ctxs[front_idx]
  /\ front_idx' = Step(front_idx)
  /\ size' = size - 1
  /\ popper' = "busy"
  /\ UNCHANGED <<svc_ctxs, back_idx, interrupt>>

\* The wait is over and the oldest command is taken.
service_cmds_wait_and_pop_front ==
  /\ popper = "call"
  /\ size > 0
  /\ ~interrupt
  /\ svc_ctx' = svc_ctxs[front_idx]
  /\ front_idx' = Step(front_idx)
  /\ size' = size - 1
  /\ popper' = "busy"
  /\ UNCHANGED <<svc_ctxs, back_idx, interrupt>>

\* The interrupted call returns 1 and the command thread leaves its loop.
PopInterrupted ==
  /\ popper = "call"
  /\ interrupt
  /\ popper' = "stopped"
  /\ UNCHANGED <<ring, interrupt, svc_ctx>>

\* The blocked thread is not woken.
interrupt_no_signal ==
  /\ ~interrupt
  /\ interrupt' = TRUE
  /\ UNCHANGED <<ring, popper, svc_ctx>>

service_cmds_interrupt ==
  /\ ~interrupt   \* called once, at shutdown
  /\ interrupt' = TRUE
  /\ popper' = Signalled
  /\ UNCHANGED <<ring, svc_ctx>>

Popper == Call \/ CondWait \/ service_cmds_wait_and_pop_front \/ PopInterrupted

Next ==
  \/ \E c \in Cmds : service_cmds_push_back(c)
  \/ Popper
  \/ SpuriousWakeup
  \/ service_cmds_interrupt

Spec == Init /\ [][Next]_vars

\* The command thread always gets to run; nobody has to push or interrupt.
FairSpec == Spec /\ WF_vars(Popper)

-----------------------------------------------------------------------------

\* The index of the k-th oldest command, k = 0, 1, ...
At(k) == IF front_idx + k >= MAX_CLIENT_CONNECTIONS
         THEN front_idx + k - MAX_CLIENT_CONNECTIONS
         ELSE front_idx + k

\* The queue a ring stands for: the size commands from front_idx on.
Contents == [k \in 1 .. size |-> svc_ctxs[At(k - 1)]]

Abstract == INSTANCE BoundedQueue
              WITH Capacity <- MAX_CLIENT_CONNECTIONS, queue <- Contents

\* The ring with its wrapping indices behaves as a bounded FIFO: no push
\* overwrites a waiting command, every pop returns the oldest one, and nothing
\* is popped once service_cmds_interrupt has run.
RingIsQueue == Abstract!Spec

\* The front and back indices and the size never disagree: back_idx is where
\* the next command goes exactly because it is size places after front_idx, and
\* those size places hold commands that were pushed.
RingShape ==
  /\ back_idx = At(size)
  /\ \A k \in 0 .. (size - 1) : svc_ctxs[At(k)] \in Cmds

\* No wakeup is lost: while the command thread sleeps in pthread_cond_wait
\* there is neither a command to handle nor an interrupt to obey.
NoLostWakeup == popper = "blocked" => size = 0 /\ ~interrupt

\* A pop hands over what was at the front: the command thread never gets a
\* slot that was not pushed (or was popped before).
PopsOldest ==
  [][popper = "call" /\ popper' = "busy"
       => size > 0 /\ svc_ctx' = Head(Contents) /\ Contents' = Tail(Contents)]_vars

\* Every command that is queued is handed to the command thread, unless the
\* daemon is interrupted.
QueuedIsHandled ==
  \A c \in Cmds : (\E k \in 1 .. size : Contents[k] = c) ~> (svc_ctx = c \/ interrupt)

\* An interrupted queue stops the command thread, also when it was blocked, so
\* that service_mode's pthread_join returns.
InterruptStops == interrupt ~> popper = "stopped"
=============================================================================
