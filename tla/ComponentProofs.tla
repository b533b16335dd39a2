--------------------------- MODULE ComponentProofs ---------------------------
(* Proofs about components that stand by themselves: the command ring is a    *)
(* bounded FIFO (ServiceCmds), the blobs give back what they borrow (Blob),   *)
(* and all threads are stopped and released (Seize).                          *)
EXTENDS ServiceCmds, Blob, Seize, FiniteSetTheorems, TLAPS

-----------------------------------------------------------------------------
(* Proofs about module ServiceCmds, for every capacity and every set of       *)
(* commands: the ring's type invariant, the agreement of its indices, the     *)
(* absence of lost wakeups, and the refinement of BoundedQueue.               *)

\* What the ring's correctness rests on: the indices and the size agree, only
\* pushed slots are between them, and the popper sleeps only on an empty ring.
Inv == TypeOK /\ RingShape /\ NoLostWakeup

\* Step(At(k)) is the next place after At(k), and no two waiting commands share
\* a slot: the arithmetic of the wrapping indices.
LEMMA AtStep ==
  ASSUME front_idx \in Idx, NEW k \in 0 .. (MAX_CLIENT_CONNECTIONS - 1)
  PROVE  /\ At(k) \in Idx
         /\ Step(At(k)) = At(k + 1)
         /\ At(0) = front_idx
         /\ \A j \in 0 .. (MAX_CLIENT_CONNECTIONS - 1) : At(j) = At(k) => j = k
  BY CapacityAssumption DEF At, Step, Idx

LEMMA InitInv == Init => Inv
  <1> USE CapacityAssumption DEF Init
  <1>0. 0 \in Idx /\ 0 \in 0 .. MAX_CLIENT_CONNECTIONS BY DEF Idx
  <1>1. Init => TypeOK BY <1>0, Zenon DEF TypeOK
  <1>2. Init => RingShape BY DEF RingShape, At
  <1>3. Init => NoLostWakeup BY Zenon DEF NoLostWakeup
  <1> QED BY Zenon, <1>1, <1>2, <1>3 DEF Inv

\* A push fills the slot after the last command and leaves the others alone.
LEMMA PushInv ==
  ASSUME Inv, NEW c \in Cmds, service_cmds_push_back(c)
  PROVE  Inv' /\ \A k \in 0 .. (size - 1) : svc_ctxs'[At(k)'] = svc_ctxs[At(k)]
  <1> USE CapacityAssumption, NoCmdAssumption DEF Inv, TypeOK
  <1>1. size \in 0 .. (MAX_CLIENT_CONNECTIONS - 1) BY DEF service_cmds_push_back
  <1>2. back_idx = At(size) BY Zenon DEF RingShape
  <1>3. At(size) \in Idx /\ Step(At(size)) = At(size + 1) BY Zenon, <1>1, AtStep
  <1>4. \A k \in 0 .. MAX_CLIENT_CONNECTIONS : At(k)' = At(k)
    BY Zenon DEF At, service_cmds_push_back
  <1>5. \A k \in 0 .. (size - 1) : At(k) \in Idx /\ At(k) # back_idx
    BY <1>1, <1>2, AtStep
  <1>6. \A k \in 0 .. (size - 1) : svc_ctxs'[At(k)'] = svc_ctxs[At(k)]
    BY <1>1, <1>4, <1>5 DEF service_cmds_push_back
  <1>7. svc_ctxs'[At(size)] = c
    BY Zenon, <1>1, <1>2, <1>3 DEF service_cmds_push_back
  <1>8. TypeOK'
    BY <1>1, <1>2, <1>3 DEF service_cmds_push_back, Step, Idx, Signalled
  <1>9. RingShape'
    <2>1. back_idx' = At(size)'
      BY Zenon, <1>1, <1>2, <1>3 DEF service_cmds_push_back, At
    <2>2. ASSUME NEW k \in 0 .. (size' - 1) PROVE svc_ctxs'[At(k)'] \in Cmds
      <3>1. CASE k = size BY Zenon, <1>1, <1>4, <1>7, <3>1
      <3>2. CASE k # size
        <4>1. k \in 0 .. (size - 1) BY <1>1, <3>2, <2>2 DEF service_cmds_push_back
        <4> QED BY Zenon, <4>1, <1>6 DEF RingShape
      <3> QED BY Zenon, <3>1, <3>2
    <2> QED BY Zenon, <2>1, <2>2 DEF RingShape, At
  <1>10. NoLostWakeup' BY Zenon DEF NoLostWakeup, service_cmds_push_back, Signalled
  <1> QED BY Zenon, <1>6, <1>8, <1>9, <1>10

\* A pop takes the command at front_idx and moves every other one forward.
LEMMA PopInv ==
  ASSUME Inv, service_cmds_wait_and_pop_front
  PROVE  Inv' /\ \A k \in 0 .. (size' - 1) : svc_ctxs'[At(k)'] = svc_ctxs[At(k + 1)]
  <1> USE CapacityAssumption, NoCmdAssumption DEF Inv, TypeOK
  <1>1. size \in 1 .. MAX_CLIENT_CONNECTIONS /\ size' = size - 1
    BY DEF service_cmds_wait_and_pop_front
  <1>2. \A k \in 0 .. (MAX_CLIENT_CONNECTIONS - 1) : At(k)' = At(k + 1)
    BY DEF At, Step, Idx, service_cmds_wait_and_pop_front
  <1>3. svc_ctxs[front_idx] \in Cmds
    BY <1>1, AtStep DEF RingShape
  <1>4. TypeOK'
    BY <1>1, <1>3 DEF service_cmds_wait_and_pop_front, Step, Idx
  <1>5. \A k \in 0 .. (size' - 1) : svc_ctxs'[At(k)'] = svc_ctxs[At(k + 1)]
    BY <1>1, <1>2 DEF service_cmds_wait_and_pop_front
  <1>6. RingShape'
    <2>1. back_idx' = At(size)'
      BY <1>1 DEF RingShape, At, Step, Idx, service_cmds_wait_and_pop_front
    <2>2. \A k \in 0 .. (size' - 1) : svc_ctxs'[At(k)'] \in Cmds
      BY <1>1, <1>5 DEF RingShape
    <2> QED BY Zenon, <2>1, <2>2 DEF RingShape
  <1>7. NoLostWakeup' BY Zenon DEF NoLostWakeup, service_cmds_wait_and_pop_front
  <1> QED BY Zenon, <1>4, <1>5, <1>6, <1>7

\* The steps that touch neither the indices nor the slots.
LEMMA OtherInv ==
  ASSUME Inv,
         Call \/ CondWait \/ SpuriousWakeup \/ PopInterrupted \/ service_cmds_interrupt
           \/ UNCHANGED vars
  PROVE  Inv' /\ UNCHANGED ring
  <1> USE DEF Call, CondWait, SpuriousWakeup, PopInterrupted, service_cmds_interrupt,
              Signalled, ring, vars
  <1>1. UNCHANGED ring BY Zenon
  <1>2. TypeOK' BY Zenon DEF Inv, TypeOK
  <1>3. RingShape' BY Zenon, <1>1 DEF Inv, RingShape, At
  <1>4. NoLostWakeup' BY Zenon DEF Inv, NoLostWakeup
  <1> QED BY Zenon, <1>1, <1>2, <1>3, <1>4 DEF Inv

LEMMA NextInv == Inv /\ [Next]_vars => Inv'
  BY Zenon, PushInv, PopInv, OtherInv DEF Next, Popper

\* The indices, the slots and the size of the ring agree in every reachable
\* state of push, pop and interrupt.
THEOREM RingShapeHolds == Spec => [](TypeOK /\ RingShape)
  <1>1. Inv => TypeOK /\ RingShape BY Zenon DEF Inv
  <1> QED BY <1>1, InitInv, NextInv, PTL DEF Spec

\* The command thread never sleeps in pthread_cond_wait on a queue that holds a
\* command or has been interrupted.
THEOREM NoWakeupLost == Spec => []NoLostWakeup
  <1>1. Inv => NoLostWakeup BY Zenon DEF Inv
  <1> QED BY <1>1, InitInv, NextInv, PTL DEF Spec

-----------------------------------------------------------------------------

\* A push appends to the queue the ring stands for.
LEMMA PushAppends ==
  ASSUME Inv, NEW c \in Cmds, service_cmds_push_back(c)
  PROVE  Abstract!PushBack(c)
  <1> USE CapacityAssumption DEF Inv, TypeOK
  <1>1. size \in 0 .. (MAX_CLIENT_CONNECTIONS - 1) /\ size' = size + 1
    BY DEF service_cmds_push_back
  <1>2. Len(Contents) = size BY <1>1 DEF Contents
  <1>3. \A k \in 1 .. size : Contents'[k] = Contents[k]
    <2> SUFFICES ASSUME NEW k \in 1 .. size PROVE svc_ctxs'[At(k - 1)'] = svc_ctxs[At(k - 1)]
      BY <1>1 DEF Contents
    <2> QED BY <1>1, PushInv
  <1>4. Contents'[size + 1] = c
    <2>1. back_idx = At(size) /\ At(size) \in Idx BY Zenon, <1>1, AtStep DEF RingShape
    <2>2. Contents'[size + 1] = svc_ctxs'[At(size)]
      BY <1>1 DEF Contents, At, service_cmds_push_back
    <2> QED BY Zenon, <2>1, <2>2 DEF service_cmds_push_back
  <1>5. Contents' = Append(Contents, c)
    <2>1. Contents \in Seq(Cmds) /\ Contents' \in Seq(Cmds) /\ Len(Contents') = size + 1
      BY <1>1, PushInv DEF Contents, RingShape
    <2> QED BY <1>1, <1>2, <1>3, <1>4, <2>1
  <1> QED BY <1>1, <1>2, <1>5 DEF Abstract!PushBack, Abstract!Full, service_cmds_push_back

\* A pop removes the head of that queue.
LEMMA PopTakesHead ==
  ASSUME Inv, service_cmds_wait_and_pop_front
  PROVE  Abstract!PopFront /\ svc_ctx' = Head(Contents)
  <1> USE CapacityAssumption DEF Inv, TypeOK
  <1>1. size \in 1 .. MAX_CLIENT_CONNECTIONS /\ size' = size - 1
    BY DEF service_cmds_wait_and_pop_front
  <1>2. Contents \in Seq(Cmds) /\ Len(Contents) = size
    BY <1>1 DEF Contents, RingShape
  <1>3. Contents' = Tail(Contents)
    <2>1. \A k \in 1 .. (size - 1) : Contents'[k] = Contents[k + 1]
      <3> SUFFICES ASSUME NEW k \in 1 .. (size - 1)
                   PROVE  svc_ctxs'[At(k - 1)'] = svc_ctxs[At(k)]
        BY <1>1 DEF Contents
      <3> QED BY <1>1, PopInv
    <2> QED BY <1>1, <1>2, <2>1 DEF Contents
  <1>4. svc_ctx' = Head(Contents)
    BY <1>1, <1>2 DEF Contents, At, Idx, service_cmds_wait_and_pop_front
  <1> QED BY <1>1, <1>2, <1>3, <1>4 DEF Abstract!PopFront, service_cmds_wait_and_pop_front

\* The steps that leave the ring alone interrupt the queue or stutter.
LEMMA OtherStutters ==
  ASSUME Inv,
         Call \/ CondWait \/ SpuriousWakeup \/ PopInterrupted \/ service_cmds_interrupt
           \/ UNCHANGED vars
  PROVE  Abstract!Interrupt \/ UNCHANGED <<Contents, interrupt>>
  <1>1. UNCHANGED Contents BY Zenon, OtherInv DEF Contents, At, ring
  <1> QED BY Zenon, <1>1 DEF Abstract!Interrupt, Call, CondWait, SpuriousWakeup, PopInterrupted,
                      service_cmds_interrupt, ring, vars

\* The ring of service_cmds_push_back and service_cmds_wait_and_pop_front, with
\* its wrapping indices, implements a FIFO of MAX_CLIENT_CONNECTIONS commands.
THEOREM RingImplementsQueue == Spec => RingIsQueue
  <1>1. Init => Abstract!Empty
    BY DEF Init, Contents, Abstract!Empty
  <1>2. Inv /\ [Next]_vars => [Abstract!Next]_<<Contents, interrupt>>
    BY Zenon, PushAppends, PopTakesHead, OtherStutters DEF Next, Popper, Abstract!Next
  <1> QED BY <1>1, <1>2, InitInv, NextInv, PTL DEF Spec, RingIsQueue, Abstract!Spec

\* What service_cmds_wait_and_pop_front returns is the oldest queued command,
\* which then is no longer queued.
THEOREM PopsOldestHolds == Spec => PopsOldest
  <1>1. Inv /\ [Next]_vars =>
          [popper = "call" /\ popper' = "busy"
             => size > 0 /\ svc_ctx' = Head(Contents) /\ Contents' = Tail(Contents)]_vars
    BY Zenon, PopTakesHead
       DEF Next, Popper, Abstract!PopFront, service_cmds_push_back, Signalled, Call, CondWait,
           SpuriousWakeup, PopInterrupted, service_cmds_interrupt, service_cmds_wait_and_pop_front
  <1> QED BY <1>1, InitInv, NextInv, PTL DEF Spec, PopsOldest

-----------------------------------------------------------------------------
(* Proofs about module Blob, for every set of signals, every disposition of   *)
(* them and every number of them: what execute_blob borrows is given back.    *)

\* Only a blob makes the thread leave the jobctl trap, the registers execute_blob
\* saved are never the blob's, and what ctx_save put aside is the target's own
\* until ctx_restore puts it back.
ContextInv ==
  /\ BlobTypeOK
  /\ tpc # "parked" => step \in Blobs
  /\ tpc = "signal" => cur \in Signals
  /\ ~saved_regs.blob
  /\ tpc = "parked" => ~regs.blob
  /\ step = "ctx_save" => code = "orig" /\ scratch = Words
  /\ step # "ctx_save" => ctx.code = "orig" /\ ctx.stack = Words
  /\ step = "running" => code = "orig" /\ scratch = Words
  /\ step = "signals_block" =>
       /\ tpc # "parked" => stack = Signals
       /\ tpc = "before" => scratch = Signals
       /\ tpc \in {"after", "trapped"} => scratch \subseteq Signals
  /\ step \in {"ctx_save", "signals_block", "mmap"} => ~failed
  /\ IsFiniteSet(areas)

\* The steps between signals_block and signals_unblock, and the mask they run with.
Shielded == {"mmap", "clone", "session", "munmap"}
AllBlocked == Signals \ Stop

Unhandled == taken \cap (Handled \cup Stop) = {}

\* Where the target's own mask is, as long as no handler was scheduled and no
\* blob was repeated for SIGSTOP: in force until the system call of
\* signals_block, then in the stack words, in ctx.sigset, in the stack words
\* again, and in force after the system call of signals_unblock.
MaskInv ==
  Unhandled =>
    /\ step = "ctx_save" => mask = Blocked
    /\ step = "signals_block" =>
         /\ tpc \in {"parked", "before", "back"} => mask = Blocked
         /\ tpc \in {"after", "trapped"} =>
              IF ret THEN mask = AllBlocked /\ scratch = Blocked ELSE mask = Blocked
         /\ tpc = "signal" => mask = Blocked \/ cur \in Stop
    /\ step \in Shielded =>
         /\ mask = AllBlocked /\ ctx.sigset = Blocked
         /\ tpc # "back"
         /\ tpc = "signal" => cur \in Stop
    /\ step = "signals_unblock" =>
         /\ ctx.sigset = Blocked
         /\ mask \in {AllBlocked, Blocked}
         /\ tpc # "parked" => stack = Blocked
         /\ tpc = "before" => scratch = Blocked
         /\ tpc = "back" \/ (tpc \in {"after", "trapped"} /\ ret) => mask = Blocked
         /\ tpc = "signal" => mask = Blocked \/ cur \in Stop
    /\ step = "running" \/ (step = "ctx_restore" /\ ~failed) => mask = Blocked

Unstopped == taken \cap Stop = {}

\* As long as SIGSTOP was not taken, no blob between signals_block and
\* signals_unblock is repeated; the area exists from the system call of mmap to
\* that of munmap, and the parasite is cloned once.
OnceInv ==
  Unstopped =>
    /\ step = "signals_block" =>
         /\ tpc \in {"after", "trapped"} /\ ret => mask = AllBlocked
    /\ step \in Shielded =>
         /\ mask = AllBlocked
         /\ tpc # "back"
         /\ tpc = "signal" => cur \in Stop
    /\ step \in {"ctx_save", "signals_block"} => areas = {} /\ parasites = 0
    /\ step = "mmap" =>
         /\ parasites = 0
         /\ tpc \in {"parked", "before"} => areas = {}
         /\ tpc \in {"after", "trapped"} => areas = IF ret THEN {1} ELSE {}
    /\ step \in {"clone", "session"} => areas = {1} /\ ctx.blob = 1
    /\ step = "clone" /\ tpc \in {"parked", "before"} => parasites = 0
    /\ step = "munmap" =>
         /\ tpc \in {"parked", "before"} => areas = {1} /\ ctx.blob = 1
         /\ tpc \in {"after", "trapped"} => areas = IF ret THEN {} ELSE {1}
    /\ step \in {"signals_unblock", "ctx_restore", "running"} => areas = {}
    /\ areas \in {{}, {1}} /\ parasites <= 1
-----------------------------------------------------------------------------

LEMMA ContextInit == BlobInit => ContextInv
  <1> SUFFICES ASSUME BlobInit PROVE ContextInv
    BY Zenon
  <1>1. IsFiniteSet(areas)
    BY Zenon, FS_EmptySet DEF BlobInit
  <1>2. regs \in [blob : BOOLEAN, frames : SUBSET Signals] /\ ~regs.blob /\ saved_regs = regs
    BY Zenon DEF BlobInit, Original
  <1>3. ctx \in [code : {"none", "orig"}, stack : {Words}, sigset : SUBSET Signals, blob : Nat]
    BY Zenon DEF BlobInit
  <1>4. BlobTypeOK
    <2>1. mask \subseteq Signals \ Stop /\ sent \in 0 .. MaxSent
      BY BlobAssumption DEF BlobInit
    <2> QED
      BY Zenon, <1>2, <1>3, <2>1 DEF BlobInit, BlobTypeOK
  <1> QED
    BY Zenon, <1>1, <1>2, <1>4 DEF BlobInit, ContextInv

\* Each action of the worker, of the thread and of the sender keeps ContextInv.
LEMMA ContextNext == ContextInv /\ [BlobNext]_blob_vars => ContextInv'
  <1> SUFFICES ASSUME ContextInv, [BlobNext]_blob_vars PROVE ContextInv'
    BY Zenon
  <1> USE DEF ContextInv, BlobTypeOK, Blobs, Words
  <1>1. CASE ctx_save
    BY Zenon, <1>1 DEF ctx_save, After, kernel
  <1>2. CASE execute_blob
    BY Zenon, <1>2 DEF execute_blob, Scratch, AtBlob, kernel
  <1>3. CASE retry_signal
    BY <1>3, BlobAssumption DEF retry_signal, borrowed
  <1>4. CASE retry
    BY Zenon, <1>4 DEF retry, AtBlob, kernel
  <1>5. CASE finish
    <2>1. Cardinality(areas) \in Nat
      BY Zenon, FS_CardinalityType
    <2>2. ctx' \in [code : {"orig"}, stack : {Words}, sigset : SUBSET Signals, blob : Nat]
      BY Zenon, <1>5, <2>1 DEF finish, Result
    <2> QED
      BY <1>5, <2>2 DEF finish, After, kernel
  <1>6. CASE session
    BY Zenon, <1>6 DEF session, After, borrowed, kernel
  <1>7. CASE ctx_restore
    BY Zenon, <1>7 DEF ctx_restore, After, kernel
  <1>8. CASE Syscall
    <2>1. areas' \subseteq Nat /\ IsFiniteSet(areas')
      <3>1. Cardinality(areas) \in Nat
        BY Zenon, FS_CardinalityType
      <3>2. IsFiniteSet(areas \cup {Cardinality(areas) + 1}) /\ IsFiniteSet(areas \ {ctx.blob})
        BY Zenon, FS_AddElement, FS_RemoveElement
      <3>3. areas' \in {areas, areas \cup {Cardinality(areas) + 1}, areas \ {ctx.blob}}
        BY Zenon, <1>8 DEF Syscall, SyscallDone
      <3>4. areas \subseteq Nat /\ IsFiniteSet(areas) /\ Cardinality(areas) + 1 \in Nat
        BY SMTT(30), <3>1
      <3> QED
        BY Zenon, <3>2, <3>3, <3>4
    <2>2. mask' \subseteq Signals \ Stop /\ scratch' \subseteq Signals \cup Words
      BY <1>8 DEF Syscall, SyscallDone
    <2>3. ret' \in BOOLEAN
      BY <1>8, Zenon DEF Syscall, SyscallDone
    <2>4. parasites' \in Nat
      BY <1>8 DEF Syscall, SyscallDone
    <2>5. step = "signals_block" => scratch' \subseteq Signals
      BY Zenon, <1>8 DEF Syscall, SyscallDone
    <2> QED
      BY Zenon, <1>8, <2>5, <2>1, <2>2, <2>3, <2>4 DEF Syscall, SyscallDone
  <1>9. CASE Trap
    BY Zenon, <1>9 DEF Trap, borrowed, kernel
  <1>10. CASE Report
    BY Zenon, <1>10 DEF Report, borrowed, kernel
  <1>11. CASE Send
    BY <1>11, BlobAssumption DEF Send, borrowed
  <1>12. CASE UNCHANGED blob_vars
    BY <1>12 DEF blob_vars
  <1> QED
    BY Zenon, <1>1, <1>2, <1>3, <1>4, <1>5, <1>6, <1>7, <1>8, <1>9, <1>10, <1>11, <1>12
    DEF BlobNext, Worker, Thread
-----------------------------------------------------------------------------

LEMMA MaskInit == BlobInit => MaskInv
  BY Zenon DEF BlobInit, MaskInv, Shielded

\* The target's own mask is where MaskInv says after every step.
LEMMA MaskNext == ContextInv /\ MaskInv /\ [BlobNext]_blob_vars => MaskInv'
  <1> SUFFICES ASSUME ContextInv, MaskInv, [BlobNext]_blob_vars, Unhandled' PROVE MaskInv'
    BY Zenon DEF MaskInv
  <1> USE BlobAssumption DEF ContextInv, BlobTypeOK, MaskInv, Unhandled, Shielded, AllBlocked, Blobs
  <1>1. CASE ctx_save
    BY Zenon, <1>1 DEF ctx_save, After, kernel
  <1>2. CASE execute_blob
    BY Zenon, <1>2 DEF execute_blob, Scratch, kernel
  <1>3. CASE retry_signal
    BY Zenon, <1>3 DEF retry_signal, borrowed
  <1>4. CASE retry
    BY Zenon, <1>4 DEF retry, kernel
  <1>5. CASE finish
    BY Zenon, <1>5 DEF finish, Result, After, kernel
  <1>6. CASE session
    BY Zenon, <1>6 DEF session, After, borrowed, kernel
  <1>7. CASE ctx_restore
    BY Zenon, <1>7 DEF ctx_restore, After, kernel
  <1>8. CASE Syscall
    BY ZenonT(40), <1>8 DEF Syscall, SyscallDone
  <1>9. CASE Trap
    BY Zenon, <1>9 DEF Trap, borrowed, kernel
  <1>10. CASE Report
    BY Zenon, <1>10 DEF Report, borrowed, kernel
  <1>11. CASE Send
    BY Zenon, <1>11 DEF Send, borrowed
  <1>12. CASE UNCHANGED blob_vars
    BY Zenon, <1>12 DEF blob_vars
  <1> QED
    BY Zenon, <1>1, <1>2, <1>3, <1>4, <1>5, <1>6, <1>7, <1>8, <1>9, <1>10, <1>11, <1>12
    DEF BlobNext, Worker, Thread

-----------------------------------------------------------------------------

LEMMA OnceInit == BlobInit => OnceInv
  BY DEF BlobInit, OnceInv, Shielded

\* No system call with a side effect is made twice.
LEMMA OnceNext == ContextInv /\ OnceInv /\ [BlobNext]_blob_vars => OnceInv'
  <1> SUFFICES ASSUME ContextInv, OnceInv, [BlobNext]_blob_vars, Unstopped' PROVE OnceInv'
    BY Zenon DEF OnceInv
  <1>0. Cardinality({}) = 0 /\ Cardinality({1}) = 1
    BY Zenon, FS_EmptySet, FS_Singleton
  <1> USE DEF ContextInv, BlobTypeOK, OnceInv, Unstopped, Shielded, AllBlocked, Blobs
  <1>1. CASE ctx_save
    BY Zenon, <1>1 DEF ctx_save, After, kernel
  <1>2. CASE execute_blob
    BY Zenon, <1>2 DEF execute_blob, Scratch, kernel
  <1>3. CASE retry_signal
    BY Zenon, <1>3 DEF retry_signal, borrowed
  <1>4. CASE retry
    BY Zenon, <1>4 DEF retry, kernel
  <1>5. CASE finish
    <2>1. CASE step = "mmap"
      <3>1. CASE ret
        BY Zenon, <1>0, <1>5, <2>1, <3>1 DEF finish, Result, After, kernel
      <3>2. CASE ~ret
        BY Zenon, <1>5, <2>1, <3>2 DEF finish, Result, After, kernel
      <3> QED
        BY Zenon, <3>1, <3>2
    <2>2. CASE step # "mmap"
      BY Zenon, <1>5, <2>2 DEF finish, Result, After, kernel
    <2> QED
      BY Zenon, <2>1, <2>2
  <1>6. CASE session
    BY Zenon, <1>6 DEF session, After, borrowed, kernel
  <1>7. CASE ctx_restore
    BY Zenon, <1>7 DEF ctx_restore, After, kernel
  <1>8. CASE Syscall
    <2>1. /\ UNCHANGED <<step, taken, ctx, cur>> /\ tpc = "before" /\ tpc' = "after"
          /\ ret' \in BOOLEAN
      BY Zenon, <1>8 DEF Syscall
    <2>2. CASE ret' = FALSE /\ UNCHANGED <<mask, areas, parasites>>
      BY Zenon, <2>1, <2>2
    <2>3. CASE ret' = TRUE /\ SyscallDone
      <3>1. step = "signals_block" => mask' = AllBlocked
        BY Zenon, <2>1, <2>3 DEF SyscallDone
      <3>2. step \notin {"signals_block", "signals_unblock"} => mask' = mask
        BY Zenon, <2>3 DEF SyscallDone
      <3>3. parasites' = IF step = "clone" THEN parasites + 1 ELSE parasites
        BY Zenon, <2>3 DEF SyscallDone
      <3>4. step \notin {"mmap", "munmap"} => areas' = areas
        BY Zenon, <2>3 DEF SyscallDone
      <3>5. step = "mmap" => areas' = {1}
        <4>1. step = "mmap" => areas = {} /\ areas' = areas \cup {Cardinality(areas) + 1}
          BY Zenon, <2>1, <2>3 DEF SyscallDone
        <4>2. {} \cup {Cardinality({}) + 1} = {1}
          <5>1. Cardinality({}) + 1 = 1
            BY <1>0
          <5> QED
            BY Zenon, <5>1
        <4> QED
          BY Zenon, <4>1, <4>2
      <3>6. step = "munmap" => areas' = {}
        BY Zenon, <2>1, <2>3 DEF SyscallDone
      <3>7. parasites' <= 1
        <4>1. parasites <= 1 /\ (step = "clone" => parasites = 0)
          BY Zenon, <2>1
        <4> QED
          BY <3>3, <4>1
      <3> QED
        BY Zenon, <2>1, <2>3, <3>1, <3>2, <3>3, <3>4, <3>5, <3>6, <3>7
    <2> QED
      BY Zenon, <1>8, <2>1, <2>2, <2>3 DEF Syscall
  <1>9. CASE Trap
    BY Zenon, <1>9 DEF Trap, borrowed, kernel
  <1>10. CASE Report
    BY Zenon, <1>10 DEF Report, borrowed, kernel
  <1>11. CASE Send
    BY Zenon, <1>11 DEF Send, borrowed
  <1>12. CASE UNCHANGED blob_vars
    BY Zenon, <1>12 DEF blob_vars
  <1> QED
    BY Zenon, <1>1, <1>2, <1>3, <1>4, <1>5, <1>6, <1>7, <1>8, <1>9, <1>10, <1>11, <1>12
    DEF BlobNext, Worker, Thread

-----------------------------------------------------------------------------

\* Whatever signals arrive while blobs run, a thread that execute_blob and
\* ctx_restore release has its registers, code and stack words back.
THEOREM ContextRestoredHolds == BlobSpec => []ContextRestored
  <1>1. ContextInv => ContextRestored
    <2> SUFFICES ASSUME ContextInv, Released PROVE tpc = "parked"
      BY Zenon DEF ContextInv, ContextRestored, Released
    <2> QED
      BY Zenon DEF ContextInv, Released, Blobs
  <1> QED
    BY ContextInit, ContextNext, <1>1, PTL DEF BlobSpec

\* A released thread has the signal mask it had before signals_block, unless a
\* handler was scheduled before its signals were blocked or SIGSTOP made
\* execute_blob repeat a blob.
THEOREM MaskRestoredHolds == BlobSpec => []MaskRestored
  <1>1. MaskInv => MaskRestored
    BY Zenon DEF MaskInv, MaskRestored, Released, Unhandled
  <1> QED
    BY ContextInit, ContextNext, MaskInit, MaskNext, <1>1, PTL DEF BlobSpec

\* As long as no SIGSTOP was taken, mmap and clone take effect once and the area
\* is gone when the target is released, whatever other signals made execute_blob
\* retry.
THEOREM SideEffectsOnceHolds == BlobSpec => []SideEffectsOnce
  <1>1. ContextInv /\ OnceInv => SideEffectsOnce
    <2> SUFFICES ASSUME ContextInv, OnceInv, Unstopped
                 PROVE  /\ parasites <= 1 /\ Cardinality(areas) <= 1
                        /\ Released => areas = {}
      BY Zenon DEF SideEffectsOnce, Unstopped
    <2>1. Cardinality({}) = 0 /\ Cardinality({1}) = 1
      BY Zenon, FS_EmptySet, FS_Singleton
    <2>2. areas \in {{}, {1}}
      BY Zenon DEF ContextInv, BlobTypeOK, OnceInv, Blobs
    <2> QED
      BY <2>1, <2>2 DEF OnceInv, Released
  <1> QED
    BY ContextInit, ContextNext, OnceInit, OnceNext, <1>1, PTL DEF BlobSpec

-----------------------------------------------------------------------------
(* Proofs about module Seize, for any number of threads the target starts     *)
(* with and creates during the walk.                                          *)

\* The thread seize_pid is at, if it is at one.
Attended == IF wpc = "wait" THEN {tid} ELSE {}

\* Threads are numbered in the order of their creation, those alive are listed,
\* and the seized ones are exactly those that are stopped.
ThreadsInv ==
  /\ \E c \in NrStart .. MaxTid : \A t \in Tids : state[t] # "new" <=> t <= c
  /\ Live = {t \in Tids : state[t] \in {"running", "attached", "stopped"}}
  /\ Leader \in Live
  /\ Range(tids) = {t \in Tids : state[t] = "stopped"}
  /\ \A t \in Tids : state[t] = "attached" => t \in Attended
  /\ \A t \in Attended : t \in Tids /\ state[t] \in {"attached", "exited"}
  /\ wpc = "done" => tids = <<>>

\* The parasite is there from clone_blob to its exit.
ParasiteInv ==
  /\ wpc \in {"seize", "wait", "seized", "killed"} => parasite = 0
  /\ wpc \in {"translate", "session"} =>
       parasite \in Tids \ {Leader} /\ state[parasite] = "running"
  /\ wpc \in {"unseize", "done"} => parasite \in Tids /\ state[parasite] = "exited"

\* readdir() returns no thread twice: what it has still to return, from dir or
\* from the list behind pos, was not seized yet.
WalkInv ==
  wpc \in {"seize", "wait"} =>
    /\ IsInjective(dir)
    /\ \A t \in Range(dir) : state[t] # "new" /\ t \notin Range(tids) \cup Attended
    /\ \A i \in 1 .. Len(list) : i > pos => list[i] \notin Range(dir) \cup Range(tids) \cup Attended

SeizeInv == SeizeTypeOK /\ ThreadsInv /\ ParasiteInv /\ WalkInv

\* As long as no thread exits the walk misses none.
CompleteInv ==
  NoneExited =>
    /\ wpc \in {"seize", "wait"} =>
         /\ pos <= Len(list)
         /\ \A i \in 1 .. Len(list) : i <= pos => list[i] \in Range(dir) \cup Range(tids) \cup Attended
    /\ wpc = "seized" => dir = <<>> /\ pos = 0
    /\ wpc \in {"seized", "translate", "session", "unseize"} =>
         \A t \in Live \ {parasite} : state[t] = "stopped"
    /\ wpc = "translate" =>
         /\ Range(dir) \subseteq Range(tids) \cup {parasite}
         /\ pos # 0 => parasite \in Range(dir) \/ parasite_pid = parasite
    /\ wpc = "session" => parasite_pid = parasite
-----------------------------------------------------------------------------
(* Lists of threads. *)

LEMMA RangeIs ==
  ASSUME NEW s \in Seq(Tids)
  PROVE  /\ \A i \in 1 .. Len(s) : s[i] \in Range(s)
         /\ Range(s) \subseteq Tids
         /\ s = <<>> <=> Range(s) = {}
  <1>1. DOMAIN s = 1 .. Len(s) /\ Len(s) \in Nat /\ (s = <<>> <=> Len(s) = 0)
    OBVIOUS
  <1>2. Range(s) = {s[i] : i \in 1 .. Len(s)}
    BY Zenon, <1>1 DEF Range
  <1>3. \A i \in 1 .. Len(s) : s[i] \in Range(s)
    BY Zenon, <1>2
  <1>5. Range(s) \subseteq Tids
    BY <1>1, <1>2
  <1>6. s = <<>> <=> Range(s) = {}
    <2>1. CASE Len(s) = 0
      BY <1>1, <1>2, <2>1
    <2>2. CASE Len(s) # 0
      <3>1. 1 \in 1 .. Len(s)
        BY <1>1, <2>2
      <3> QED
        BY Zenon, <1>1, <1>3, <2>2, <3>1
    <2> QED
      BY Zenon, <2>1, <2>2
  <1> QED
    BY Zenon, <1>3, <1>5, <1>6

LEMMA AppendRange ==
  ASSUME NEW s \in Seq(Tids), NEW e \in Tids
  PROVE  Range(Append(s, e)) = Range(s) \cup {e}
  <1>1. /\ Append(s, e) \in Seq(Tids)
        /\ Len(Append(s, e)) = Len(s) + 1
        /\ \A i \in 1 .. Len(s) : Append(s, e)[i] = s[i]
        /\ Append(s, e)[Len(s) + 1] = e
    OBVIOUS
  <1>2. DOMAIN Append(s, e) = 1 .. Len(s) + 1 /\ DOMAIN s = 1 .. Len(s) /\ Len(s) \in Nat
    BY <1>1
  <1>3. \A x : x \in Range(Append(s, e)) => x \in Range(s) \cup {e}
    BY <1>1, <1>2 DEF Range
  <1>4. \A x : x \in Range(s) \cup {e} => x \in Range(Append(s, e))
    BY <1>1, <1>2 DEF Range
  <1> QED
    BY Zenon, <1>3, <1>4

LEMMA AppendInjects ==
  ASSUME NEW s \in Seq(Tids), NEW e \in Tids, IsInjective(s), e \notin Range(s)
  PROVE  IsInjective(Append(s, e))
  <1>1. /\ Append(s, e) \in Seq(Tids)
        /\ Len(Append(s, e)) = Len(s) + 1
        /\ \A i \in 1 .. Len(s) : Append(s, e)[i] = s[i]
        /\ Append(s, e)[Len(s) + 1] = e
    OBVIOUS
  <1>2. DOMAIN Append(s, e) = 1 .. Len(s) + 1 /\ DOMAIN s = 1 .. Len(s) /\ Len(s) \in Nat
    BY <1>1
  <1> QED
    BY <1>1, <1>2 DEF Range, IsInjective

LEMMA TailIs ==
  ASSUME NEW s \in Seq(Tids), s # <<>>
  PROVE  /\ Tail(s) \in Seq(Tids) /\ Head(s) \in Tids
         /\ Range(s) = {Head(s)} \cup Range(Tail(s))
         /\ IsInjective(s) => IsInjective(Tail(s)) /\ Head(s) \notin Range(Tail(s))
  <1>1. /\ Tail(s) \in Seq(Tids) /\ Head(s) = s[1] /\ Len(Tail(s)) = Len(s) - 1
        /\ \A i \in 1 .. Len(Tail(s)) : Tail(s)[i] = s[i + 1]
    OBVIOUS
  <1>2. DOMAIN Tail(s) = 1 .. Len(s) - 1 /\ DOMAIN s = 1 .. Len(s) /\ Len(s) \in Nat \ {0}
    BY <1>1
  <1>3. Range(s) = {Head(s)} \cup Range(Tail(s))
    <2>1. \A x : x \in {Head(s)} \cup Range(Tail(s)) => x \in Range(s)
      BY <1>1, <1>2 DEF Range
    <2>2. ASSUME NEW i \in DOMAIN s, i # 1 PROVE s[i] = Tail(s)[i - 1] /\ i - 1 \in DOMAIN Tail(s)
      BY <1>1, <1>2, <2>2
    <2>3. ASSUME NEW i \in DOMAIN s PROVE s[i] \in {Head(s)} \cup Range(Tail(s))
      BY Zenon, <1>1, <2>2 DEF Range
    <2>4. \A x : x \in Range(s) => x \in {Head(s)} \cup Range(Tail(s))
      BY Zenon, <2>3 DEF Range
    <2> QED
      BY Zenon, <2>1, <2>4
  <1>4. IsInjective(s) => IsInjective(Tail(s)) /\ Head(s) \notin Range(Tail(s))
    BY <1>1, <1>2 DEF Range, IsInjective
  <1> QED
    BY <1>1, <1>3, <1>4

LEMMA SuffixIs ==
  ASSUME NEW s \in Seq(Tids), NEW n \in Nat, NEW u, u = SubSeq(s, n + 1, Len(s))
  PROVE  /\ u \in Seq(Tids)
         /\ Len(u) = IF n < Len(s) THEN Len(s) - n ELSE 0
         /\ \A i \in 1 .. Len(u) : u[i] = s[n + i]
  <1>1. CASE n < Len(s)
    BY <1>1
  <1>2. CASE ~(n < Len(s))
    BY <1>2
  <1> QED
    BY Zenon, <1>1, <1>2

LEMMA SuffixRange ==
  ASSUME NEW s \in Seq(Tids), NEW n \in Nat, NEW u, u = SubSeq(s, n + 1, Len(s))
  PROVE  Range(u) = {s[i] : i \in n + 1 .. Len(s)}
  <1>1. /\ u \in Seq(Tids)
        /\ Len(u) = IF n < Len(s) THEN Len(s) - n ELSE 0
        /\ \A i \in 1 .. Len(u) : u[i] = s[n + i]
    BY Zenon, SuffixIs
  <1>2. DOMAIN u = 1 .. Len(u) /\ DOMAIN s = 1 .. Len(s) /\ Len(s) \in Nat
    BY <1>1
  <1>3. Range(u) = {s[i] : i \in n + 1 .. Len(s)}
    <2>1. ASSUME NEW i \in n + 1 .. Len(s) PROVE i - n \in 1 .. Len(u) /\ u[i - n] = s[i]
      <3>1. i - n \in 1 .. Len(u) /\ n + (i - n) = i
        BY <1>1
      <3> QED
        BY Zenon, <1>1, <3>1
    <2>2. ASSUME NEW i \in 1 .. Len(u) PROVE n + i \in n + 1 .. Len(s) /\ u[i] = s[n + i]
      BY <1>1
    <2>3. Range(u) = {u[i] : i \in 1 .. Len(u)}
      BY Zenon, <1>2 DEF Range
    <2>4. \A e : e \in {s[i] : i \in n + 1 .. Len(s)} => e \in Range(u)
      BY Zenon, <2>1, <2>3
    <2>5. \A e : e \in Range(u) => e \in {s[i] : i \in n + 1 .. Len(s)}
      BY <2>2, <2>3
    <2> QED
      BY Zenon, <2>4, <2>5
  <1> QED
    BY Zenon, <1>3

LEMMA SuffixInjective ==
  ASSUME NEW s \in Seq(Tids), NEW n \in Nat, NEW u, u = SubSeq(s, n + 1, Len(s)),
         IsInjective(s)
  PROVE  IsInjective(u)
  <1>1. /\ u \in Seq(Tids)
        /\ Len(u) = IF n < Len(s) THEN Len(s) - n ELSE 0
        /\ \A i \in 1 .. Len(u) : u[i] = s[n + i]
    BY SuffixIs
  <1>2. DOMAIN u = 1 .. Len(u) /\ DOMAIN s = 1 .. Len(s) /\ Len(s) \in Nat
    BY <1>1
  <1>3. ASSUME NEW i \in 1 .. Len(u), NEW j \in 1 .. Len(u), u[i] = u[j]
        PROVE  i = j
    <2>1. n + i \in 1 .. Len(s) /\ n + j \in 1 .. Len(s) /\ s[n + i] = s[n + j]
      BY <1>1, <1>3
    <2>2. n + i = n + j
      BY Zenon, <1>2, <2>1 DEF IsInjective
    <2> QED
      BY <2>2
  <1> QED
    BY Zenon, <1>2, <1>3 DEF IsInjective

LEMMA WithoutIs ==
  ASSUME NEW s \in Seq(Tids), NEW k \in 1 .. Len(s), NEW u, u = Without(s, k)
  PROVE  /\ u \in Seq(Tids)
         /\ Len(u) = Len(s) - 1
         /\ \A i \in 1 .. Len(u) : u[i] = IF i < k THEN s[i] ELSE s[i + 1]
         /\ IsInjective(s) => IsInjective(u) /\ Range(u) = Range(s) \ {s[k]}
  <1>0. DOMAIN s = 1 .. Len(s) /\ Len(s) \in Nat
    OBVIOUS
  <1>1. PICK a : a = SubSeq(s, 1, k - 1)
    BY Zenon
  <1>2. PICK b : b = SubSeq(s, k + 1, Len(s))
    BY Zenon
  <1>3. /\ a \in Seq(Tids) /\ Len(a) = k - 1 /\ \A i \in 1 .. Len(a) : a[i] = s[i]
    BY <1>0, <1>1
  <1>4. /\ b \in Seq(Tids) /\ Len(b) = Len(s) - k /\ \A i \in 1 .. Len(b) : b[i] = s[k + i]
    <2>1. k \in Nat /\ k <= Len(s)
      BY <1>0
    <2>2. b \in Seq(Tids)
      BY <1>2, <2>1, SuffixIs, Zenon
    <2>3. Len(b) = IF k < Len(s) THEN Len(s) - k ELSE 0
      BY <1>2, <2>1, SuffixIs, Zenon
    <2>4. \A i \in 1 .. Len(b) : b[i] = s[k + i]
      BY Zenon, <1>2, <2>1, SuffixIs
    <2>5. Len(b) = Len(s) - k
      BY <2>1, <2>2, <2>3
    <2> QED
      BY Zenon, <2>2, <2>4, <2>5
  <1>5. /\ u \in Seq(Tids) /\ Len(u) = Len(s) - 1
        /\ \A i \in 1 .. Len(u) : u[i] = IF i <= Len(a) THEN a[i] ELSE b[i - Len(a)]
    <2>1. u = a \o b
      BY Zenon, <1>1, <1>2 DEF Without
    <2>2. a \in Seq(Tids) /\ b \in Seq(Tids)
      BY Zenon, <1>3, <1>4
    <2>3. a \o b \in Seq(Tids) /\ Len(a \o b) = Len(a) + Len(b)
      BY <2>2
    <2>4. \A i \in 1 .. Len(a) + Len(b) :
            (a \o b)[i] = IF i <= Len(a) THEN a[i] ELSE b[i - Len(a)]
      BY <2>2
    <2> QED
      BY <1>0, <1>3, <1>4, <2>1, <2>3, <2>4
  <1>6. ASSUME NEW i \in 1 .. Len(u) PROVE u[i] = IF i < k THEN s[i] ELSE s[i + 1]
    <2>1. CASE i < k
      BY <1>0, <1>3, <1>5, <2>1
    <2>2. CASE i >= k
      <3>1. i - Len(a) \in 1 .. Len(b) /\ k + (i - Len(a)) = i + 1 /\ ~(i <= Len(a))
        BY <1>0, <1>3, <1>4, <1>5, <2>2
      <3>2. u[i] = b[i - Len(a)]
        BY Zenon, <1>5, <3>1
      <3>3. b[i - Len(a)] = s[k + (i - Len(a))]
        BY Zenon, <1>4, <3>1
      <3> QED
        BY <1>0, <2>2, <3>1, <3>2, <3>3
    <2> QED
      BY <1>0, <2>1, <2>2
  <1>7. DOMAIN u = 1 .. Len(s) - 1
    BY <1>5
  <1>8. ASSUME NEW i \in 1 .. Len(u)
        PROVE  LET j == IF i < k THEN i ELSE i + 1 IN j \in 1 .. Len(s) /\ j # k /\ u[i] = s[j]
    BY <1>0, <1>5, <1>6
  <1>9. ASSUME NEW j \in 1 .. Len(s), j # k
         PROVE  LET i == IF j < k THEN j ELSE j - 1 IN i \in 1 .. Len(u) /\ u[i] = s[j]
    <2>1. CASE j < k
      BY <1>0, <1>5, <1>6, <2>1
    <2>2. CASE j > k
      <3>1. j - 1 \in 1 .. Len(u) /\ ~(j - 1 < k) /\ (j - 1) + 1 = j
        BY <1>0, <1>5, <2>2
      <3> QED
        BY <1>6, <2>2, <3>1
    <2> QED
      BY <1>0, <1>9, <2>1, <2>2
  <1>10. ASSUME IsInjective(s) PROVE IsInjective(u) /\ Range(u) = Range(s) \ {s[k]}
    <2>1. ASSUME NEW i \in 1 .. Len(u), NEW j \in 1 .. Len(u), u[i] = u[j] PROVE i = j
      <3>1. (IF i < k THEN i ELSE i + 1) = (IF j < k THEN j ELSE j + 1)
        BY ZenonT(40), <1>0, <1>8, <1>10, <2>1 DEF IsInjective
      <3> QED
        BY <1>0, <1>5, <3>1
    <2>2. ASSUME NEW i \in 1 .. Len(u) PROVE u[i] \in Range(s) \ {s[k]}
      BY <1>0, <1>8, <1>10 DEF IsInjective, Range
    <2>3. ASSUME NEW j \in 1 .. Len(s), s[j] # s[k] PROVE s[j] \in Range(u)
      BY Zenon, <1>5, <1>7, <1>9, <2>3 DEF Range
    <2>4. DOMAIN u = 1 .. Len(u)
      BY <1>5
    <2>5. IsInjective(u)
      BY Zenon, <2>1, <2>4 DEF IsInjective
    <2>6. Range(u) = Range(s) \ {s[k]}
      BY <1>0, <2>2, <2>3, <2>4 DEF Range
    <2> QED
      BY Zenon, <2>5, <2>6
  <1> QED
    BY Zenon, <1>5, <1>6, <1>10

\* No element moves to the back.
LEMMA WithoutMoves ==
  ASSUME NEW s \in Seq(Tids), NEW k \in 1 .. Len(s), NEW u, u = Without(s, k),
         NEW i \in 1 .. Len(u)
  PROVE  \E j \in 1 .. Len(s) : u[i] = s[j] /\ j >= i
  <1>1. u \in Seq(Tids) /\ Len(u) = Len(s) - 1
    BY WithoutIs, Zenon
  <1>2. u[i] = IF i < k THEN s[i] ELSE s[i + 1]
    BY WithoutIs
  <1>3. i \in 1 .. Len(s) /\ i + 1 \in 1 .. Len(s) /\ i >= i /\ i + 1 >= i
    BY <1>1
  <1> QED
    BY Zenon, <1>2, <1>3

LEMMA IntervalSize ==
  ASSUME NEW n \in Nat
  PROVE  IsFiniteSet(1 .. n) /\ Cardinality(1 .. n) = n
  <1>1. 1 \in Int /\ n \in Int
    OBVIOUS
  <1>2. /\ IsFiniteSet(1 .. n)
        /\ Cardinality(1 .. n) = IF 1 > n THEN 0 ELSE n - 1 + 1
    BY Zenon, <1>1, FS_Interval
  <1> QED
    BY <1>2

\* A list without repetitions is no longer than its elements are many.
LEMMA InjectiveLen ==
  ASSUME NEW s \in Seq(Tids), IsInjective(s)
  PROVE  Len(s) <= MaxTid
  <1>1. Len(s) \in Nat /\ s \in Injection(1 .. Len(s), Tids)
    BY DEF Injection
  <1>2. IsFiniteSet(Tids) /\ Cardinality(Tids) = MaxTid
    BY Zenon, IntervalSize, SeizeAssumption DEF Tids
  <1>3. Cardinality(1 .. Len(s)) = Len(s)
    BY Zenon, <1>1, IntervalSize
  <1> QED
    BY <1>1, <1>2, <1>3, FS_Injection

\* The next thread gets the number after the last one created.
LEMMA FreshIs ==
  ASSUME SeizeTypeOK, ThreadsInv
  PROVE  /\ Fresh \in NrStart + 1 .. MaxTid + 1
         /\ \A t \in Tids : state[t] = "new" <=> t >= Fresh
  <1>1. PICK c \in NrStart .. MaxTid : \A t \in Tids : state[t] # "new" <=> t <= c
    BY Zenon DEF ThreadsInv
  <1>2. {t \in Tids : state[t] # "new"} = 1 .. c
    BY <1>1, SeizeAssumption DEF Tids
  <1>3. Created = c
    <2>1. c \in Nat
      BY SeizeAssumption
    <2> QED
      BY Zenon, <1>2, <2>1, IntervalSize DEF Created
  <1> QED
    BY <1>1, <1>3, SeizeAssumption DEF Fresh, Tids

\* What getdents returns is the part of the list behind pos.
LEMMA EntriesAre ==
  ASSUME SeizeTypeOK
  PROVE  /\ Entries \in Seq(Tids)
         /\ IsInjective(Entries)
         /\ Entries # <<>> => pos + Len(Entries) = Len(list)
         /\ Entries = <<>> => list = <<>> \/ pos >= Len(list)
         /\ Range(Entries) = {list[i] : i \in pos + 1 .. Len(list)}
  <1>1. CASE pos = 0
    BY <1>1 DEF SeizeTypeOK, Entries, Range
  <1>2. CASE pos # 0
    <2>1. pos \in Nat
      BY DEF SeizeTypeOK
    <2>2. Entries = SubSeq(list, pos + 1, Len(list)) /\ list \in Seq(Tids)
      BY Zenon, <1>2 DEF Entries, SeizeTypeOK
    <2>3. Entries \in Seq(Tids)
      BY Zenon, <2>1, <2>2, SuffixIs
    <2>4. Len(Entries) = IF pos < Len(list) THEN Len(list) - pos ELSE 0
      BY Zenon, <2>1, <2>2, SuffixIs
    <2>5. Range(Entries) = {list[i] : i \in pos + 1 .. Len(list)}
      BY Zenon, <2>1, <2>2, SuffixRange
    <2>8. IsInjective(Entries)
      <3>1. IsInjective(list)
        BY Zenon DEF SeizeTypeOK
      <3> QED
        BY ZenonT(40), <2>1, <2>2, <3>1, SuffixInjective
    <2>6. Entries # <<>> <=> Len(Entries) # 0
      BY <2>3
    <2>7. /\ Entries # <<>> => pos + Len(Entries) = Len(list)
          /\ Entries = <<>> => pos >= Len(list)
      BY <2>1, <2>2, <2>3, <2>4, <2>6
    <2> QED
      BY Zenon, <2>3, <2>5, <2>7, <2>8
  <1> QED
    BY Zenon, <1>1, <1>2
-----------------------------------------------------------------------------
(* SeizeInv is inductive. *)

LEMMA EmptyRange == Range(<<>>) = {} /\ IsInjective(<<>>)
  BY DEF Range, IsInjective

LEMMA SeizeInvInit == SeizeInit => SeizeInv
  <1> SUFFICES ASSUME SeizeInit PROVE SeizeInv
    BY Zenon
  <1> USE SeizeAssumption DEF SeizeInit
  <1>1. list \in Seq(Tids) /\ Len(list) = NrStart
    BY DEF Tids
  <1>2. IsInjective(list) /\ Live = 1 .. NrStart
    BY Zenon DEF IsInjective, Live, Range
  <1>3. SeizeTypeOK
    BY <1>1, <1>2, EmptyRange DEF SeizeTypeOK
  <1>4. ThreadsInv
    BY <1>2, EmptyRange DEF ThreadsInv, Leader, Attended, Tids
  <1> QED
    BY Zenon, <1>3, <1>4, EmptyRange DEF SeizeInv, ParasiteInv, WalkInv, Attended

\* Nothing that ThreadsInv and ParasiteInv speak of changes.
LEMMA ReadKeeps ==
  ASSUME NEW at, NEW next, SeizeInv, Getdents(at, next),
         \/ at = "seize" /\ next = "seized"
         \/ at = "translate" /\ next = "session"
  PROVE  SeizeInv'
  <1>1. /\ Entries \in Seq(Tids) /\ IsInjective(Entries)
        /\ Entries # <<>> => pos + Len(Entries) = Len(list)
        /\ Range(Entries) = {list[i] : i \in pos + 1 .. Len(list)}
    BY Zenon, EntriesAre DEF SeizeInv
  <1>2. Len(list) <= MaxTid
    BY Zenon, InjectiveLen DEF SeizeInv, SeizeTypeOK
  <1>3. /\ UNCHANGED <<list, state, tid, tids, parasite, parasite_pid>> /\ wpc = at
        /\ \/ wpc' = next /\ pos' = 0 /\ dir' = dir
           \/ dir' = Entries /\ Entries # <<>> /\ pos' = Len(list) /\ wpc' = wpc
    BY Zenon, <1>1 DEF Getdents, threads
  <1>4. SeizeTypeOK'
    <2>1. pos' \in 0 .. MaxTid
      BY <1>2, <1>3, SeizeAssumption DEF SeizeInv, SeizeTypeOK
    <2>2. dir' \in Seq(Tids)
      BY Zenon, <1>1, <1>3 DEF SeizeInv, SeizeTypeOK
    <2> QED
      BY Zenon, <1>3, <2>1, <2>2 DEF SeizeInv, SeizeTypeOK
  <1>5. Live' = Live /\ Attended' = Attended /\ Attended = {}
    BY Zenon, <1>3 DEF Live, Attended
  <1>6. ThreadsInv' /\ ParasiteInv'
    BY Zenon, <1>3, <1>5 DEF SeizeInv, ThreadsInv, ParasiteInv
  <1>7. WalkInv'
    <2>1. CASE wpc' = next
      BY Zenon, <1>3, <2>1 DEF WalkInv
    <2>2. CASE wpc' = wpc /\ wpc = "seize" /\ dir' = Entries /\ pos' = Len(list)
      <3>1. ASSUME NEW t \in Range(dir') PROVE state[t] # "new" /\ t \notin Range(tids)
        <4>1. PICK i \in pos + 1 .. Len(list) : t = list[i]
          BY Zenon, <1>1, <2>2
        <4>2. i \in 1 .. Len(list) /\ i > pos /\ t \in Live
          BY <4>1, RangeIs DEF SeizeInv, SeizeTypeOK, Live
        <4> QED
          BY Zenon, <2>2, <4>1, <4>2 DEF SeizeInv, WalkInv, ThreadsInv
      <3>2. \A i \in 1 .. Len(list') : ~(i > pos')
        BY <1>3, <2>2 DEF SeizeInv, SeizeTypeOK
      <3> QED
        BY Zenon, <1>1, <1>3, <1>5, <2>2, <3>1, <3>2 DEF WalkInv
    <2> QED
      BY Zenon, <1>3, <2>1, <2>2 DEF WalkInv
  <1> QED
    BY Zenon, <1>4, <1>6, <1>7 DEF SeizeInv

LEMMA SeizePidKeeps ==
  ASSUME SeizeInv, SeizePid
  PROVE  SeizeInv'
  <1>1. /\ dir \in Seq(Tids) /\ dir # <<>> /\ dir' = Tail(dir) /\ wpc = "seize"
        /\ UNCHANGED <<list, parasite, pos, tids, parasite_pid>>
        /\ state \in [Tids -> {"new", "running", "attached", "stopped", "exited"}]
    BY Zenon DEF SeizeInv, SeizeTypeOK, SeizePid
  <1>2. /\ dir' \in Seq(Tids) /\ Head(dir) \in Tids
        /\ Range(dir) = {Head(dir)} \cup Range(dir')
        /\ IsInjective(dir) => IsInjective(dir') /\ Head(dir) \notin Range(dir')
    BY <1>1, TailIs, Zenon
  <1>3. /\ IsInjective(dir') /\ Head(dir) \notin Range(dir')
        /\ Attended = {} /\ Live' = Live /\ Head(dir) \notin Range(tids)
        /\ \A t \in Range(dir') : state[t] # "new" /\ t \notin Range(tids)
        /\ \A j \in 1 .. Len(list) : j > pos =>
             list[j] # Head(dir) /\ list[j] \notin Range(dir') \cup Range(tids)
    BY Zenon, <1>1, <1>2 DEF SeizeInv, WalkInv, Attended, Live
  <1>4. CASE Head(dir) \in Live
    <2>1. /\ tid' = Head(dir) /\ wpc' = "wait"
          /\ state' = [state EXCEPT ![Head(dir)] = "attached"]
      BY Zenon, <1>4 DEF SeizePid
    <2>2. Attended' = {Head(dir)}
      BY Zenon, <2>1 DEF Attended
    <2>3. SeizeTypeOK'
      BY <1>1, <1>2, <2>1 DEF SeizeInv, SeizeTypeOK, Tids
    <2>4. state[Head(dir)] \in {"running", "attached"}
      BY Zenon, <1>3, <1>4 DEF SeizeInv, ThreadsInv
    <2>5. ThreadsInv'
      BY <1>1, <1>2, <1>3, <2>1, <2>2, <2>4 DEF SeizeInv, ThreadsInv
    <2>6. ParasiteInv'
      BY Zenon, <1>1, <2>1 DEF SeizeInv, ParasiteInv
    <2>7. WalkInv'
      <3>1. Range(dir') \subseteq Tids
        BY <1>2, RangeIs, Zenon
      <3> QED
        BY Zenon, <1>1, <1>2, <1>3, <2>1, <2>2, <3>1 DEF WalkInv
    <2> QED
      BY Zenon, <2>3, <2>5, <2>6, <2>7 DEF SeizeInv
  <1>5. CASE Head(dir) \notin Live
    <2>1. UNCHANGED <<tid, wpc, state>>
      BY Zenon, <1>5 DEF SeizePid
    <2>2. Attended' = Attended
      BY Zenon, <2>1 DEF Attended
    <2>3. SeizeTypeOK' /\ ThreadsInv' /\ ParasiteInv'
      BY Zenon, <1>1, <1>2, <1>3, <2>1, <2>2 DEF SeizeInv, SeizeTypeOK, ThreadsInv, ParasiteInv
    <2>4. WalkInv'
      BY Zenon, <1>1, <1>3, <2>1, <2>2 DEF WalkInv
    <2> QED
      BY Zenon, <2>3, <2>4 DEF SeizeInv
  <1> QED
    BY Zenon, <1>4, <1>5

LEMMA WaitStoppedKeeps ==
  ASSUME SeizeInv, WaitStopped
  PROVE  SeizeInv'
  <1>1. /\ wpc = "wait" /\ Attended = {tid} /\ Attended' = {} /\ Live' = Live
        /\ UNCHANGED <<list, parasite, dir, pos, tid, parasite_pid>>
        /\ state \in [Tids -> {"new", "running", "attached", "stopped", "exited"}]
    BY Zenon DEF SeizeInv, SeizeTypeOK, WaitStopped, Attended, Live
  <1>2. tid \in Tids /\ state[tid] \in {"attached", "exited"}
    BY Zenon, <1>1 DEF SeizeInv, ThreadsInv
  <1>3. CASE tid \in Live
    <2>1. /\ state' = [state EXCEPT ![tid] = "stopped"]
          /\ tids' = Append(tids, tid) /\ wpc' = "seize"
      BY Zenon, <1>3 DEF WaitStopped
    <2>2. tids \in Seq(Tids) /\ tid \notin Range(tids) /\ IsInjective(tids)
      BY Zenon, <1>2 DEF SeizeInv, SeizeTypeOK, ThreadsInv
    <2>3. /\ tids' \in Seq(Tids) /\ Range(tids') = Range(tids) \cup {tid}
          /\ IsInjective(tids')
      <3>1. tids' \in Seq(Tids)
        BY <1>2, <2>1, <2>2
      <3>2. Range(tids') = Range(tids) \cup {tid}
        <4>1. Range(Append(tids, tid)) = Range(tids) \cup {tid}
          <5>1. tid \in Tids /\ tids \in Seq(Tids)
            BY Zenon, <1>2, <2>2
          <5> QED
            BY <5>1, AppendRange, Zenon
        <4> QED
          BY Zenon, <2>1, <4>1
      <3>3. IsInjective(tids')
        BY <1>2, <2>1, <2>2, AppendInjects, Zenon
      <3> QED
        BY Zenon, <3>1, <3>2, <3>3
    <2>4. SeizeTypeOK'
      BY Zenon, <1>1, <1>2, <2>1, <2>3 DEF SeizeInv, SeizeTypeOK
    <2>5. ThreadsInv'
      BY Zenon, <1>1, <1>2, <1>3, <2>1, <2>3 DEF SeizeInv, ThreadsInv
    <2>6. ParasiteInv'
      BY Zenon, <1>1, <2>1 DEF SeizeInv, ParasiteInv
    <2>7. WalkInv'
      BY <1>1, <2>1, <2>3 DEF SeizeInv, WalkInv
    <2> QED
      BY Zenon, <2>4, <2>5, <2>6, <2>7 DEF SeizeInv
  <1>4. CASE tid \notin Live
    <2>1. UNCHANGED <<state, tids>> /\ wpc' = "killed"
      BY Zenon, <1>4 DEF WaitStopped
    <2>2. state[tid] = "exited"
      BY Zenon, <1>2, <1>4 DEF SeizeInv, ThreadsInv
    <2> QED
      BY Zenon, <1>1, <1>2, <2>1, <2>2 DEF SeizeInv, SeizeTypeOK, ThreadsInv, ParasiteInv, WalkInv
  <1> QED
    BY Zenon, <1>3, <1>4

\* A thread more, at the end of the list.
LEMMA CreateKeeps ==
  ASSUME SeizeInv, Fresh <= MaxTid,
         list' = Append(list, Fresh),
         state' = [state EXCEPT ![Fresh] = "running"],
         wpc' # "done",
         UNCHANGED <<dir, pos, tid, tids, parasite_pid>>,
         Attended' = Attended
  PROVE  /\ Fresh \in Tids /\ Fresh > 1 /\ state[Fresh] = "new" /\ Fresh \notin Live
         /\ list' \in Seq(Tids) /\ IsInjective(list')
         /\ Live' = Live \cup {Fresh}
         /\ Len(list') = Len(list) + 1
         /\ \A i \in 1 .. Len(list) : list'[i] = list[i]
         /\ list'[Len(list) + 1] = Fresh
         /\ state' \in [Tids -> {"new", "running", "attached", "stopped", "exited"}]
         /\ ThreadsInv'
  <1>1. /\ Fresh \in Tids /\ Fresh > 1
        /\ \A t \in Tids : state[t] = "new" <=> t >= Fresh
    BY FreshIs, SeizeAssumption DEF SeizeInv, Tids
  <1>2. /\ list \in Seq(Tids) /\ IsInjective(list)
        /\ state \in [Tids -> {"new", "running", "attached", "stopped", "exited"}]
    BY Zenon DEF SeizeInv, SeizeTypeOK
  <1>3. state[Fresh] = "new" /\ Fresh \notin Live
    BY <1>1, SeizeAssumption DEF SeizeInv, ThreadsInv, Tids
  <1>4. /\ list' \in Seq(Tids) /\ IsInjective(list')
        /\ Live' = Live \cup {Fresh}
        /\ Len(list') = Len(list) + 1
        /\ \A i \in 1 .. Len(list) : list'[i] = list[i]
        /\ list'[Len(list) + 1] = Fresh
    <2>1. IsInjective(list') /\ Live' = Live \cup {Fresh}
      <3>1. Live' = Live \cup {Fresh}
        <4>1. Range(Append(list, Fresh)) = Range(list) \cup {Fresh}
          <5>1. Fresh \in Tids /\ list \in Seq(Tids)
            BY Zenon, <1>1, <1>2
          <5> QED
            BY <5>1, AppendRange, Zenon
        <4> QED
          BY Zenon, <4>1 DEF Live
      <3>2. IsInjective(list')
        BY <1>1, <1>2, <1>3, AppendInjects, Zenon DEF Live
      <3> QED
        BY Zenon, <3>1, <3>2
    <2>2. /\ list' \in Seq(Tids)
          /\ Len(list') = Len(list) + 1
          /\ \A i \in 1 .. Len(list) : list'[i] = list[i]
          /\ list'[Len(list) + 1] = Fresh
      BY <1>1, <1>2
    <2> QED
      BY Zenon, <2>1, <2>2
  <1>5. ThreadsInv'
    <2>1. \A t \in Tids : state'[t] # "new" <=> t <= Fresh
      <3>1. \A t \in Tids : t # Fresh => (t >= Fresh <=> ~(t <= Fresh))
        BY <1>1, SeizeAssumption DEF Tids
      <3>2. Fresh <= Fresh
        BY <1>1, SeizeAssumption DEF Tids
      <3> QED
        BY Zenon, <1>1, <1>2, <3>1, <3>2
    <2>2. Fresh \in NrStart .. MaxTid
      BY FreshIs, SeizeAssumption DEF SeizeInv
    <2>3. \E c \in NrStart .. MaxTid : \A t \in Tids : state'[t] # "new" <=> t <= c
      BY Zenon, <2>1, <2>2
    <2>4. Fresh \notin Attended
      BY Zenon, <1>3 DEF SeizeInv, ThreadsInv
    <2> QED
      BY <1>1, <1>2, <1>3, <1>4, <2>3, <2>4 DEF SeizeInv, ThreadsInv
  <1> QED
    BY Zenon, <1>1, <1>2, <1>3, <1>4, <1>5

LEMMA CloneKeeps ==
  ASSUME SeizeInv, Clone
  PROVE  SeizeInv'
  <1>1. /\ wpc = "seized" /\ wpc' = "translate" /\ parasite' = Fresh
        /\ Attended = {} /\ Attended' = {}
        /\ Fresh <= MaxTid
        /\ list' = Append(list, Fresh)
        /\ state' = [state EXCEPT ![Fresh] = "running"]
        /\ UNCHANGED <<dir, pos, tid, tids, parasite_pid>>
    BY Zenon DEF Clone, Attended
  <1>2. /\ Fresh \in Tids /\ Fresh > 1
        /\ list' \in Seq(Tids) /\ IsInjective(list')
        /\ state' \in [Tids -> {"new", "running", "attached", "stopped", "exited"}]
        /\ ThreadsInv'
    BY Zenon, <1>1, CreateKeeps
  <1>3. parasite' \in Tids \ {Leader} /\ parasite' \in 0 .. MaxTid /\ state'[parasite'] = "running"
    BY <1>1, <1>2, SeizeAssumption DEF Leader, Tids, SeizeInv, SeizeTypeOK
  <1>4. SeizeTypeOK'
    BY Zenon, <1>1, <1>2, <1>3 DEF SeizeInv, SeizeTypeOK
  <1>5. ParasiteInv' /\ WalkInv'
    BY Zenon, <1>1, <1>3 DEF ParasiteInv, WalkInv
  <1> QED
    BY Zenon, <1>2, <1>4, <1>5 DEF SeizeInv

LEMMA ThreadCreatesKeeps ==
  ASSUME SeizeInv, ThreadCreates
  PROVE  SeizeInv'
  <1>1. /\ Fresh < MaxTid
        /\ list' = Append(list, Fresh)
        /\ state' = [state EXCEPT ![Fresh] = "running"]
        /\ UNCHANGED <<wpc, dir, pos, tid, tids, parasite, parasite_pid>>
        /\ Attended' = Attended /\ wpc # "done"
    BY Zenon DEF ThreadCreates, Attended, Busy
  <1>2. Fresh <= MaxTid
    BY <1>1, FreshIs, SeizeAssumption DEF SeizeInv
  <1>3. /\ Fresh \in Tids /\ state[Fresh] = "new"
        /\ list' \in Seq(Tids) /\ IsInjective(list')
        /\ Len(list') = Len(list) + 1
        /\ \A i \in 1 .. Len(list) : list'[i] = list[i]
        /\ list'[Len(list) + 1] = Fresh
        /\ state' \in [Tids -> {"new", "running", "attached", "stopped", "exited"}]
        /\ ThreadsInv'
    BY Zenon, <1>1, <1>2, CreateKeeps
  <1>4. SeizeTypeOK'
    BY Zenon, <1>1, <1>3 DEF SeizeInv, SeizeTypeOK
  <1>5. ParasiteInv'
    BY Zenon, <1>1, <1>3 DEF SeizeInv, SeizeTypeOK, ParasiteInv
  <1>6. WalkInv'
    <2>1. SUFFICES ASSUME wpc \in {"seize", "wait"} PROVE WalkInv'
      BY Zenon, <1>1 DEF WalkInv
    <2>2. Fresh \notin Range(dir) \cup Range(tids) \cup Attended
      BY Zenon, <1>3, <2>1 DEF SeizeInv, ThreadsInv, WalkInv
    <2>3. ASSUME NEW i \in 1 .. Len(list'), i > pos
          PROVE  list'[i] \notin Range(dir) \cup Range(tids) \cup Attended
      <3>0. Len(list) \in Nat
        BY DEF SeizeInv, SeizeTypeOK
      <3>1. CASE i = Len(list) + 1
        BY Zenon, <1>3, <2>2, <3>1
      <3>2. CASE i \in 1 .. Len(list)
        BY Zenon, <1>3, <2>1, <2>3, <3>2 DEF SeizeInv, WalkInv
      <3> QED
        BY <1>3, <3>0, <3>1, <3>2
    <2>4. ASSUME NEW t \in Range(dir) PROVE state'[t] # "new" /\ t \notin Range(tids) \cup Attended
      <3>1. state[t] # "new" /\ t \notin Range(tids) \cup Attended /\ t \in Tids
        BY Zenon, <2>1, RangeIs DEF SeizeInv, SeizeTypeOK, WalkInv
      <3> QED
        BY Zenon, <1>1, <1>3, <3>1 DEF SeizeInv, SeizeTypeOK
    <2> QED
      BY Zenon, <1>1, <2>1, <2>3, <2>4 DEF SeizeInv, WalkInv
  <1> QED
    BY Zenon, <1>3, <1>4, <1>5, <1>6 DEF SeizeInv

LEMMA UpdateKeeps ==
  ASSUME SeizeInv, update_parasite_pid
  PROVE  SeizeInv'
  <1>1. /\ wpc = "translate" /\ dir \in Seq(Tids) /\ dir # <<>> /\ dir' = Tail(dir)
        /\ UNCHANGED <<wpc, list, state, parasite, pos, tid, tids>>
        /\ parasite_pid' \in {parasite_pid, Head(dir)}
        /\ Attended' = Attended /\ Live' = Live
    BY Zenon DEF update_parasite_pid, threads, SeizeInv, SeizeTypeOK, Attended, Live
  <1>2. dir' \in Seq(Tids) /\ Head(dir) \in Tids
    BY <1>1, TailIs, Zenon
  <1>3. SeizeTypeOK'
    BY <1>1, <1>2, SeizeAssumption DEF SeizeInv, SeizeTypeOK, Tids
  <1> QED
    BY Zenon, <1>1, <1>3 DEF SeizeInv, ThreadsInv, ParasiteInv, WalkInv

\* The thread at place k leaves the list.
LEMMA ExitKeeps ==
  ASSUME SeizeInv, NEW k \in 1 .. Len(list),
         list[k] # Leader, state[list[k]] \in {"running", "attached"},
         list' = Without(list, k),
         state' = [state EXCEPT ![list[k]] = "exited"],
         wpc' # "done",
         UNCHANGED <<dir, pos, tid, tids, parasite, parasite_pid>>,
         Attended' = Attended
  PROVE  /\ list[k] \in Tids /\ Live' = Live \ {list[k]}
         /\ list' \in Seq(Tids) /\ IsInjective(list')
         /\ state' \in [Tids -> {"new", "running", "attached", "stopped", "exited"}]
         /\ ThreadsInv'
  <1>1. /\ list \in Seq(Tids) /\ IsInjective(list) /\ list[k] \in Tids
        /\ state \in [Tids -> {"new", "running", "attached", "stopped", "exited"}]
    BY DEF SeizeInv, SeizeTypeOK
  <1>2. list' \in Seq(Tids)
    BY <1>1, WithoutIs, Zenon
  <1>3. IsInjective(list') /\ Live' = Live \ {list[k]}
    BY <1>1, WithoutIs, Zenon DEF Live
  <1>4. state' \in [Tids -> {"new", "running", "attached", "stopped", "exited"}]
    BY Zenon, <1>1
  <1>5. ThreadsInv'
    BY Zenon, <1>1, <1>3 DEF SeizeInv, ThreadsInv
  <1> QED
    BY Zenon, <1>1, <1>2, <1>3, <1>4, <1>5

LEMMA ParasiteExitsKeeps ==
  ASSUME SeizeInv, ParasiteExits
  PROVE  SeizeInv' /\ Live' = Live \ {parasite}
  <1>1. list \in Seq(Tids) /\ DOMAIN list = 1 .. Len(list)
    BY DEF SeizeInv, SeizeTypeOK
  <1>2. PICK k \in 1 .. Len(list) : list[k] = parasite /\ list' = Without(list, k)
    BY Zenon, <1>1 DEF ParasiteExits
  <1>3. /\ wpc = "session" /\ wpc' = "unseize" /\ Attended' = Attended
        /\ state' = [state EXCEPT ![list[k]] = "exited"]
        /\ UNCHANGED <<dir, pos, tid, tids, parasite, parasite_pid>>
    BY Zenon, <1>2 DEF ParasiteExits, Attended
  <1>4. list[k] # Leader /\ state[list[k]] = "running"
    BY Zenon, <1>2, <1>3 DEF SeizeInv, ParasiteInv
  <1>5. /\ list[k] \in Tids /\ Live' = Live \ {list[k]}
        /\ list' \in Seq(Tids) /\ IsInjective(list')
        /\ state' \in [Tids -> {"new", "running", "attached", "stopped", "exited"}]
        /\ ThreadsInv'
    BY Zenon, <1>2, <1>3, <1>4, ExitKeeps
  <1>6. SeizeTypeOK'
    BY Zenon, <1>3, <1>5 DEF SeizeInv, SeizeTypeOK
  <1>7. ParasiteInv' /\ WalkInv'
    BY Zenon, <1>2, <1>3, <1>5 DEF ParasiteInv, WalkInv, SeizeInv, SeizeTypeOK
  <1> QED
    BY Zenon, <1>2, <1>5, <1>6, <1>7 DEF SeizeInv

LEMMA ThreadExitsKeeps ==
  ASSUME SeizeInv, ThreadExits
  PROVE  SeizeInv' /\ ~NoneExited'
  <1>1. list \in Seq(Tids) /\ DOMAIN list = 1 .. Len(list)
    BY DEF SeizeInv, SeizeTypeOK
  <1>2. PICK k \in 1 .. Len(list) :
          /\ list[k] # Leader /\ Runs(list[k])
          /\ list' = Without(list, k)
          /\ state' = [state EXCEPT ![list[k]] = "exited"]
    BY Zenon, <1>1 DEF ThreadExits
  <1>3. /\ wpc \in {"seize", "wait", "seized", "translate", "session"} /\ Attended' = Attended
        /\ UNCHANGED <<wpc, dir, pos, tid, tids, parasite, parasite_pid>>
    BY Zenon DEF ThreadExits, Attended, Busy
  <1>4. list[k] # parasite /\ state[list[k]] \in {"running", "attached"}
    BY Zenon, <1>2 DEF Runs
  <1>5. /\ list[k] \in Tids /\ Live' = Live \ {list[k]}
        /\ list' \in Seq(Tids) /\ IsInjective(list')
        /\ state' \in [Tids -> {"new", "running", "attached", "stopped", "exited"}]
        /\ ThreadsInv'
    BY Zenon, <1>2, <1>3, <1>4, ExitKeeps
  <1>6. SeizeTypeOK'
    BY Zenon, <1>3, <1>5 DEF SeizeInv, SeizeTypeOK
  <1>7. ParasiteInv'
    BY Zenon, <1>2, <1>3, <1>4 DEF ParasiteInv, SeizeInv, SeizeTypeOK
  <1>8. WalkInv'
    <2>1. SUFFICES ASSUME wpc \in {"seize", "wait"} PROVE WalkInv'
      BY Zenon, <1>3 DEF WalkInv
    <2>2. ASSUME NEW i \in 1 .. Len(list'), i > pos
          PROVE  list'[i] \notin Range(dir) \cup Range(tids) \cup Attended
      <3>1. PICK j \in 1 .. Len(list) : list'[i] = list[j] /\ j >= i
        BY <1>1, <1>2, WithoutMoves, Zenon
      <3>2. j > pos
        BY <1>5, <2>2, <3>1 DEF SeizeInv, SeizeTypeOK
      <3> QED
        BY Zenon, <2>1, <3>1, <3>2 DEF SeizeInv, WalkInv
    <2>3. ASSUME NEW t \in Range(dir) PROVE state'[t] # "new"
      <3>1. state[t] # "new" /\ t \in Tids
        BY Zenon, <2>1, RangeIs DEF SeizeInv, SeizeTypeOK, WalkInv
      <3> QED
        BY Zenon, <1>2, <3>1 DEF SeizeInv, SeizeTypeOK
    <2> QED
      BY Zenon, <1>3, <2>1, <2>2, <2>3 DEF SeizeInv, WalkInv
  <1>9. ~NoneExited'
    BY Zenon, <1>2, <1>3, <1>4, <1>5 DEF NoneExited, SeizeInv, SeizeTypeOK
  <1> QED
    BY Zenon, <1>5, <1>6, <1>7, <1>8, <1>9 DEF SeizeInv

LEMMA UnseizeKeeps ==
  ASSUME SeizeInv, unseize_target
  PROVE  SeizeInv'
  <1>1. /\ wpc = "unseize" /\ wpc' = "done" /\ tids' = <<>>
        /\ UNCHANGED <<list, parasite, dir, pos, tid, parasite_pid>>
        /\ Attended = {} /\ Attended' = {} /\ Live' = Live
        /\ state \in [Tids -> {"new", "running", "attached", "stopped", "exited"}]
    BY Zenon DEF unseize_target, Attended, Live, SeizeInv, SeizeTypeOK
  <1>3. /\ state' \in [Tids -> {"new", "running", "attached", "stopped", "exited"}]
        /\ \A t \in Tids : state'[t] = IF state[t] = "stopped" THEN "running" ELSE state[t]
    BY Zenon, <1>1 DEF unseize_target, SeizeInv, ThreadsInv
  <1>4. SeizeTypeOK'
    BY <1>1, <1>3, EmptyRange DEF SeizeInv, SeizeTypeOK
  <1>5. ThreadsInv'
    BY Zenon, <1>1, <1>3, EmptyRange DEF SeizeInv, ThreadsInv
  <1>6. ParasiteInv' /\ WalkInv'
    BY Zenon, <1>1, <1>3 DEF SeizeInv, ParasiteInv, WalkInv
  <1> QED
    BY Zenon, <1>4, <1>5, <1>6 DEF SeizeInv

LEMMA SeizeInvNext == SeizeInv /\ [SeizeNext]_seize_vars => SeizeInv'
  <1> SUFFICES ASSUME SeizeInv, [SeizeNext]_seize_vars PROVE SeizeInv'
    BY Zenon
  <1>1. CASE ReadSeize
    BY Zenon, <1>1, ReadKeeps DEF ReadSeize
  <1>2. CASE SeizePid
    BY Zenon, <1>2, SeizePidKeeps
  <1>3. CASE WaitStopped
    BY Zenon, <1>3, WaitStoppedKeeps
  <1>4. CASE Clone
    BY Zenon, <1>4, CloneKeeps
  <1>5. CASE ReadTranslate
    BY Zenon, <1>5, ReadKeeps DEF ReadTranslate
  <1>6. CASE update_parasite_pid
    BY Zenon, <1>6, UpdateKeeps
  <1>7. CASE ParasiteExits
    BY Zenon, <1>7, ParasiteExitsKeeps
  <1>8. CASE unseize_target
    BY Zenon, <1>8, UnseizeKeeps
  <1>9. CASE ThreadCreates
    BY Zenon, <1>9, ThreadCreatesKeeps
  <1>10. CASE ThreadExits
    BY Zenon, <1>10, ThreadExitsKeeps
  <1>11. CASE UNCHANGED seize_vars
    BY Zenon, <1>11
       DEF seize_vars, SeizeInv, SeizeTypeOK, ThreadsInv, ParasiteInv, WalkInv, Attended, Live
  <1> QED
    BY Zenon, <1>1, <1>2, <1>3, <1>4, <1>5, <1>6, <1>7, <1>8, <1>9, <1>10, <1>11 DEF SeizeNext

\* No thread comes back.
LEMMA ExitedStays ==
  ASSUME SeizeInv, SeizeNext, NoneExited'
  PROVE  NoneExited
  <1>1. ASSUME NEW t \in Tids, state[t] = "exited" PROVE state'[t] = "exited" /\ t = parasite
    <2>1. \A u \in Live : state[u] # "exited"
      BY Zenon DEF SeizeInv, ThreadsInv
    <2>2. CASE Clone \/ ThreadCreates
      <3>1. state[Fresh] = "new"
        <4>1. Fresh \in Tids
          BY <2>2, FreshIs, SeizeAssumption DEF SeizeInv, Clone, ThreadCreates, Tids
        <4>2. Fresh >= Fresh
          BY <4>1 DEF Tids
        <4> QED
          BY Zenon, <4>1, <4>2, FreshIs DEF SeizeInv
      <3>2. state'[t] = "exited" /\ t # Fresh
        BY Zenon, <1>1, <2>2, <3>1 DEF Clone, ThreadCreates, SeizeInv, SeizeTypeOK
      <3>3. t \in DOMAIN state' /\ parasite' \in {parasite, Fresh}
        BY Zenon, <2>2 DEF Clone, ThreadCreates, SeizeInv, SeizeTypeOK
      <3> QED
        BY Zenon, <3>2, <3>3 DEF NoneExited
    <2>3. CASE ReadSeize \/ ReadTranslate \/ update_parasite_pid
      BY Zenon, <1>1, <2>3
         DEF ReadSeize, ReadTranslate, Getdents, update_parasite_pid, threads, NoneExited,
                        SeizeInv, SeizeTypeOK
    <2>4. CASE SeizePid \/ WaitStopped
      BY Zenon, <1>1, <2>1, <2>4 DEF SeizePid, WaitStopped, NoneExited, SeizeInv, SeizeTypeOK
    <2>5. CASE ParasiteExits
      BY Zenon, <1>1, <2>5 DEF ParasiteExits, NoneExited, SeizeInv, SeizeTypeOK
    <2>6. CASE unseize_target
      <3>1. t \notin Range(tids)
        BY Zenon, <1>1, RangeIs DEF SeizeInv, SeizeTypeOK, ThreadsInv
      <3> QED
        BY Zenon, <1>1, <2>6, <3>1 DEF unseize_target, NoneExited, SeizeInv, SeizeTypeOK
    <2>7. CASE ThreadExits
      BY Zenon, <2>7, ThreadExitsKeeps
    <2> QED
      BY Zenon, <2>2, <2>3, <2>4, <2>5, <2>6, <2>7 DEF SeizeNext
  <1> QED
    BY Zenon, <1>1 DEF NoneExited, SeizeInv, SeizeTypeOK

LEMMA CompleteInit == SeizeInit => CompleteInv
  BY SeizeAssumption DEF SeizeInit, CompleteInv

LEMMA CompleteNext == SeizeInv /\ CompleteInv /\ [SeizeNext]_seize_vars => CompleteInv'
  <1>1. CASE UNCHANGED seize_vars
    BY Zenon, <1>1 DEF seize_vars, CompleteInv, NoneExited, Live, Attended
  <1> SUFFICES ASSUME SeizeInv, CompleteInv, SeizeNext, NoneExited' PROVE CompleteInv'
    BY Zenon, <1>1 DEF CompleteInv
  <1>2. NoneExited
    BY Zenon, ExitedStays
  <1>3. list \in Seq(Tids) /\ Len(list) \in Nat /\ pos \in Nat
    BY DEF SeizeInv, SeizeTypeOK
  <1>4. CASE ReadSeize
    <2>1. /\ wpc = "seize" /\ dir = <<>> /\ Attended = {} /\ Attended' = {}
          /\ UNCHANGED <<list, state, tid, tids, parasite, parasite_pid>>
          /\ \/ Entries = <<>> /\ wpc' = "seized" /\ pos' = 0 /\ dir' = dir
             \/ Entries # <<>> /\ dir' = Entries /\ pos' = pos + Len(Entries) /\ wpc' = wpc
      BY Zenon, <1>4 DEF ReadSeize, Getdents, threads, Attended
    <2>2. \A i \in 1 .. Len(list) : i <= pos => list[i] \in Range(tids)
      BY Zenon, <1>2, <2>1, EmptyRange DEF CompleteInv
    <2>3. CASE Entries = <<>>
      <3>1. \A i \in 1 .. Len(list) : i <= pos
        BY <1>3, <2>3, EntriesAre DEF SeizeInv
      <3>2. Live = {list[i] : i \in 1 .. Len(list)}
        BY <1>3 DEF Live, Range
      <3>3. \A t \in Live : state[t] = "stopped"
        BY Zenon, <2>2, <3>1, <3>2 DEF SeizeInv, ThreadsInv
      <3>4. Live' = Live
        BY Zenon, <2>1 DEF Live
      <3> QED
        BY Zenon, <2>1, <2>3, <3>3, <3>4 DEF CompleteInv
    <2>4. CASE Entries # <<>>
      <3>1. pos' = Len(list) /\ Range(dir') = {list[i] : i \in pos + 1 .. Len(list)}
        BY Zenon, <2>1, <2>4, EntriesAre DEF SeizeInv
      <3>2. \A i \in 1 .. Len(list) : i <= pos \/ i \in pos + 1 .. Len(list)
        BY <1>3
      <3>3. \A i \in 1 .. Len(list) : list[i] \in Range(dir') \cup Range(tids)
        BY Zenon, <2>2, <3>1, <3>2
      <3> QED
        BY <1>3, <2>1, <2>4, <3>1, <3>3 DEF CompleteInv
    <2> QED
      BY Zenon, <2>3, <2>4
  <1>5. CASE SeizePid
    <2>1. /\ dir \in Seq(Tids) /\ dir # <<>> /\ dir' = Tail(dir) /\ wpc = "seize" /\ Attended = {}
          /\ UNCHANGED <<list, parasite, pos, tids, parasite_pid>>
      BY Zenon, <1>5 DEF SeizePid, SeizeInv, SeizeTypeOK, Attended
    <2>2. Range(dir) = {Head(dir)} \cup Range(dir')
      BY <2>1, TailIs, Zenon
    <2>3. /\ pos <= Len(list)
          /\ \A i \in 1 .. Len(list) : i <= pos => list[i] \in {Head(dir)} \cup Range(dir') \cup Range(tids)
      BY Zenon, <1>2, <2>1, <2>2 DEF CompleteInv
    <2>4. CASE Head(dir) \in Live
      <3>1. wpc' = "wait" /\ Attended' = {Head(dir)}
        BY Zenon, <1>5, <2>4 DEF SeizePid, Attended
      <3> QED
        BY Zenon, <2>1, <2>3, <3>1 DEF CompleteInv
    <2>5. CASE Head(dir) \notin Live
      <3>1. wpc' = "seize" /\ Attended' = {}
        BY Zenon, <1>5, <2>1, <2>5 DEF SeizePid, Attended
      <3>2. \A i \in 1 .. Len(list) : list[i] # Head(dir)
        BY Zenon, <1>3, <2>5, RangeIs DEF Live
      <3> QED
        BY Zenon, <2>1, <2>3, <3>1, <3>2 DEF CompleteInv
    <2> QED
      BY Zenon, <2>4, <2>5
  <1>6. CASE WaitStopped
    <2>1. /\ wpc = "wait" /\ Attended = {tid} /\ Attended' = {}
          /\ UNCHANGED <<list, parasite, dir, pos, tid, parasite_pid>>
          /\ tid \in Tids /\ tids \in Seq(Tids)
      <3>1. wpc = "wait" /\ Attended = {tid} /\ Attended' = {}
        BY Zenon, <1>6 DEF WaitStopped, Attended
      <3> QED
        BY Zenon, <1>6, <3>1 DEF WaitStopped, SeizeInv, SeizeTypeOK, ThreadsInv
    <2>2. CASE wpc' = "killed"
      BY Zenon, <2>2 DEF CompleteInv
    <2>3. CASE wpc' = "seize" /\ tids' = Append(tids, tid)
      <3>1. Range(tids') = Range(tids) \cup {tid}
        BY <2>1, <2>3, AppendRange, Zenon
      <3> QED
        BY Zenon, <1>2, <2>1, <2>3, <3>1 DEF CompleteInv
    <2> QED
      BY Zenon, <1>6, <2>2, <2>3 DEF WaitStopped
  <1>7. CASE Clone
    <2>1. /\ wpc = "seized" /\ wpc' = "translate" /\ parasite' = Fresh
          /\ Attended = {} /\ Attended' = {}
          /\ Fresh <= MaxTid
          /\ list' = Append(list, Fresh)
          /\ state' = [state EXCEPT ![Fresh] = "running"]
          /\ UNCHANGED <<dir, pos, tid, tids, parasite_pid>>
      BY Zenon, <1>7 DEF Clone, Attended
    <2>2. Fresh \notin Live /\ Live' = Live \cup {Fresh}
      BY Zenon, <2>1, CreateKeeps
    <2>3. /\ \A t \in Live \ {parasite} : state[t] = "stopped"
          /\ dir = <<>> /\ pos = 0
      BY Zenon, <1>2, <2>1 DEF CompleteInv
    <2>4. parasite = 0 /\ Live \subseteq Tids /\ 0 \notin Tids
      <3>1. 0 \notin Tids
        BY SeizeAssumption DEF Tids
      <3> QED
        BY Zenon, <2>1, <3>1 DEF SeizeInv, ParasiteInv, ThreadsInv
    <2>5. \A t \in Live' \ {parasite'} : state'[t] = "stopped"
      BY Zenon, <2>1, <2>2, <2>3, <2>4 DEF SeizeInv, SeizeTypeOK
    <2> QED
      BY Zenon, <2>1, <2>3, <2>5, EmptyRange DEF CompleteInv
  <1>8. CASE ReadTranslate
    <2>1. /\ wpc = "translate" /\ dir = <<>>
          /\ UNCHANGED <<list, state, tid, tids, parasite, parasite_pid>>
          /\ \/ Entries = <<>> /\ wpc' = "session" /\ pos' = 0 /\ dir' = dir
             \/ Entries # <<>> /\ dir' = Entries /\ pos' = pos + Len(Entries) /\ wpc' = wpc
      BY Zenon, <1>8 DEF ReadTranslate, Getdents, threads
    <2>2. /\ \A t \in Live \ {parasite} : state[t] = "stopped"
          /\ pos # 0 => parasite_pid = parasite
      BY Zenon, <1>2, <2>1, EmptyRange DEF CompleteInv
    <2>3. Live' = Live /\ parasite \in Live /\ Live \subseteq Range(tids) \cup {parasite}
      BY Zenon, <2>1, <2>2 DEF Live, SeizeInv, ThreadsInv, ParasiteInv
    <2>4. CASE Entries = <<>>
      <3>1. pos # 0
        <4>1. Range(list) # {}
          BY Zenon, <2>3 DEF Live
        <4> QED
          BY Zenon, <2>4, <4>1, EmptyRange DEF Entries
      <3> QED
        BY Zenon, <2>1, <2>2, <2>3, <2>4, <3>1 DEF CompleteInv
    <2>5. CASE Entries # <<>>
      <3>1. Range(dir') = {list[i] : i \in pos + 1 .. Len(list)}
        BY Zenon, <2>1, <2>5, EntriesAre DEF SeizeInv
      <3>2. Range(dir') \subseteq Live
        <4>1. \A i \in pos + 1 .. Len(list) : i \in 1 .. Len(list)
          BY <1>3
        <4> QED
          BY Zenon, <1>3, <3>1, <4>1, RangeIs DEF Live
      <3>3. parasite \in Range(dir') \/ parasite_pid = parasite
        BY Zenon, <2>1, <2>2, <2>3, <2>5 DEF Entries, Live
      <3> QED
        BY Zenon, <2>1, <2>2, <2>3, <2>5, <3>2, <3>3 DEF CompleteInv
    <2> QED
      BY Zenon, <2>4, <2>5
  <1>9. CASE update_parasite_pid
    <2>1. /\ wpc = "translate" /\ dir \in Seq(Tids) /\ dir # <<>> /\ dir' = Tail(dir)
          /\ UNCHANGED <<wpc, list, state, parasite, pos, tid, tids>>
          /\ Live' = Live
      BY Zenon, <1>9 DEF update_parasite_pid, threads, SeizeInv, SeizeTypeOK, Live
    <2>2. Range(dir) = {Head(dir)} \cup Range(dir')
      BY <2>1, TailIs, Zenon
    <2>3. /\ \A t \in Live \ {parasite} : state[t] = "stopped"
          /\ Range(dir) \subseteq Range(tids) \cup {parasite}
          /\ pos # 0 => parasite \in Range(dir) \/ parasite_pid = parasite
      BY Zenon, <1>2, <2>1 DEF CompleteInv
    <2>4. parasite \notin Range(tids)
      BY Zenon, <2>1 DEF SeizeInv, ThreadsInv, ParasiteInv
    <2>5. parasite_pid' = IF Head(dir) \in Range(tids) THEN parasite_pid ELSE Head(dir)
      BY Zenon, <1>9, RangeIs DEF update_parasite_pid, SeizeInv, SeizeTypeOK
    <2> QED
      BY Zenon, <2>5, <2>1, <2>2, <2>3, <2>4 DEF CompleteInv
  <1>10. CASE ParasiteExits
    <2>1. /\ wpc = "session" /\ wpc' = "unseize" /\ parasite' = parasite
          /\ state' = [state EXCEPT ![parasite] = "exited"]
      BY Zenon, <1>10 DEF ParasiteExits
    <2>2. Live' = Live \ {parasite} /\ Live \subseteq Tids
      BY Zenon, <1>10, ParasiteExitsKeeps DEF SeizeInv, ThreadsInv
    <2>3. \A t \in Live \ {parasite} : state[t] = "stopped"
      BY Zenon, <1>2, <2>1 DEF CompleteInv
    <2> QED
      BY Zenon, <2>1, <2>2, <2>3 DEF CompleteInv, SeizeInv, SeizeTypeOK
  <1>11. CASE unseize_target
    BY Zenon, <1>11 DEF unseize_target, CompleteInv
  <1>12. CASE ThreadCreates
    <2>1. /\ wpc \in {"seize", "wait", "seized", "translate", "session"}
          /\ list' = Append(list, Fresh)
          /\ UNCHANGED <<wpc, dir, pos, tid, tids, parasite, parasite_pid>>
          /\ Attended' = Attended
      BY Zenon, <1>12 DEF ThreadCreates, Attended, Busy
    <2>2. wpc \in {"seize", "wait"}
      <3>1. PICK t \in Live : Runs(t)
        BY Zenon, <1>12 DEF ThreadCreates
      <3> QED
        BY Zenon, <1>2, <2>1, <3>1 DEF CompleteInv, Runs
    <2>3. /\ pos <= Len(list)
          /\ \A i \in 1 .. Len(list) : i <= pos => list[i] \in Range(dir) \cup Range(tids) \cup Attended
      BY ZenonT(40), <1>2, <2>2 DEF CompleteInv
    <2>4. /\ Len(list') = Len(list) + 1
          /\ \A i \in 1 .. Len(list) : list'[i] = list[i]
      <3>1. Fresh \in Tids
        BY <1>12, FreshIs, SeizeAssumption DEF SeizeInv, ThreadCreates, Tids
      <3> QED
        BY <1>3, <2>1, <3>1
    <2>5. pos <= Len(list') /\ \A i \in 1 .. Len(list') : i <= pos => i \in 1 .. Len(list)
      BY <1>3, <2>3, <2>4
    <2> QED
      BY Zenon, <2>5, <2>1, <2>2, <2>3, <2>4 DEF CompleteInv
  <1>13. CASE ThreadExits
    BY Zenon, <1>13, ThreadExitsKeeps
  <1> QED
    BY Zenon, <1>4, <1>5, <1>6, <1>7, <1>8, <1>9, <1>10, <1>11, <1>12, <1>13 DEF SeizeNext
-----------------------------------------------------------------------------
(* The theorems. *)

\* unseize_target leaves no thread stopped, whatever threads were created or went
\* away during the walk; the types of the state are kept.
THEOREM AllReleasedHolds == SeizeSpec => []AllReleased
  <1>1. SeizeInv => AllReleased
    <2> SUFFICES ASSUME SeizeInv PROVE AllReleased
      BY Zenon
    <2>1. SeizeTypeOK
      BY Zenon DEF SeizeInv
    <2>2. ASSUME wpc = "done" PROVE \A t \in Live : state[t] = "running"
      <3>1. Attended = {} /\ Range(tids) = {}
        BY Zenon, <2>2, EmptyRange DEF SeizeInv, ThreadsInv, Attended
      <3> QED
        BY Zenon, <3>1 DEF SeizeInv, ThreadsInv
    <2> QED
      BY Zenon, <2>1, <2>2 DEF AllReleased
  <1> QED
    BY <1>1, SeizeInvInit, SeizeInvNext, PTL DEF SeizeSpec

LEMMA CompleteAlways == SeizeSpec => [](SeizeInv /\ CompleteInv)
  BY SeizeInvInit, SeizeInvNext, CompleteInit, CompleteNext, PTL DEF SeizeSpec

\* When seize_target returns every thread is stopped but the parasite, for any
\* number of threads created meanwhile, provided none exited.
THEOREM AllSeizedHolds == SeizeSpec => []AllSeized
  <1>1. CompleteInv => AllSeized
    BY Zenon DEF CompleteInv, AllSeized
  <1> QED
    BY <1>1, CompleteAlways, PTL

\* update_parasite_pid ends with the parasite's number, found as the one thread
\* that was not seized.
THEOREM ParasiteFoundHolds == SeizeSpec => []ParasiteFound
  <1>1. CompleteInv => ParasiteFound
    BY Zenon DEF CompleteInv, ParasiteFound
  <1> QED
    BY <1>1, CompleteAlways, PTL
=============================================================================
