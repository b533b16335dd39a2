-------------------------------- MODULE Blob --------------------------------
(* How memcr makes a seized thread run a few instructions: execute_blob, and  *)
(* the sequence of blobs around a checkpoint and a restore.  The thread is    *)
(* the target's leader; signals arrive for it while it runs a blob, and its   *)
(* signal mask, registers, code and the scratch words below its stack pointer *)
(* are borrowed; a system call may fail.  What the kernel does with a traced  *)
(* thread is external.                                                        *)
EXTENDS Naturals, FiniteSets

CONSTANTS Handled, Ignored, Fatal,   \* signals by their disposition
          Stop,                      \* the signals that cannot be blocked, {} or {SIGSTOP}
          Blocked,                   \* those the target itself blocks
          MaxSent,                   \* bound: signals sent during the session
          Fails                      \* the blobs whose system call may fail

Blobs == {"signals_block", "mmap", "clone", "munmap", "signals_unblock"}
Signals == Handled \cup Ignored \cup Fatal \cup Stop

ASSUME BlobAssumption ==
  /\ IsFiniteSet(Signals)
  /\ Handled \cap Stop = {}     \* sigaction refuses a handler for SIGSTOP
  /\ Blocked \subseteq Signals \ Stop
  /\ MaxSent \in Nat
  /\ Fails \subseteq Blobs

VARIABLES step,       \* what execute_parasite_checkpoint / _restore is at
          failed,     \* mmap failed, the target will be killed once it is restored
          tpc,        \* the thread; it is "parked" in the jobctl trap
          regs,       \* [blob, frames]: at the blob or not, signal frames set up
          mask, pending,
          code, scratch,
          stack, saved_regs,   \* locals of execute_blob
          ctx,                 \* ctx.code, ctx.stack, ctx.sigset, ctx.blob
          cur,                 \* the signal reported to the worker
          sent, taken,         \* signals sent so far; signals the thread took
          ret,                 \* whether the last system call succeeded
          areas, parasites     \* areas mmapped for the parasite, cloned parasites

blob_vars == <<step, failed, tpc, regs, mask, pending, code, scratch, stack, saved_regs, ctx, cur,
          sent, taken, ret, areas, parasites>>
kernel == <<mask, sent, taken, ret, areas, parasites>>
borrowed == <<code, scratch, stack, saved_regs, ctx>>

Original == [blob |-> FALSE, frames |-> {}]
Words == {"words"}     \* what is below the stack pointer: this, or a signal mask
AtBlob(r) == [r EXCEPT !.blob = TRUE]

\* The step that follows, by what the last system call returned: signals_block
\* asserts that it succeeded, the way back is cut short if mmap failed, a session
\* without a parasite fails (its assertion on clone's result, an unsigned long,
\* always holds), and munmap or signals_unblock end the restore if they fail.
After(s) ==
  CASE s = "ctx_save" -> "signals_block"
    [] s = "signals_block" -> IF ret THEN "mmap" ELSE "crashed"
    [] s = "mmap" -> IF ret THEN "clone" ELSE "signals_unblock"
    [] s = "clone" -> "session"
    [] s = "session" -> IF ret THEN "munmap" ELSE "killed"
    [] s = "munmap" -> IF ret THEN "signals_unblock" ELSE "killed"
    [] s = "signals_unblock" -> IF ret \/ failed THEN "ctx_restore" ELSE "killed"
    [] s = "ctx_restore" -> IF failed THEN "killed" ELSE "running"

-----------------------------------------------------------------------------
(* The worker. *)

ctx_save ==
  /\ step = "ctx_save"
  /\ ctx' = [code |-> code, stack |-> scratch, sigset |-> {}, blob |-> 0]
  /\ UNCHANGED failed
  /\ step' = After(step)
  /\ UNCHANGED <<tpc, regs, pending, code, scratch, stack, saved_regs, cur, kernel>>

\* signals_block blocks nothing.
ScratchBlocksNone ==
  CASE step = "signals_block" -> mask
    [] step = "signals_unblock" -> ctx.sigset
    [] OTHER -> scratch

\* signals_block and signals_unblock put the new mask where the blob finds it.
Scratch ==
  CASE step = "signals_block" -> Signals
    [] step = "signals_unblock" -> ctx.sigset
    [] OTHER -> scratch

\* execute_blob up to PTRACE_CONT.
execute_blob ==
  /\ step \in Blobs
  /\ tpc = "parked"
  /\ code' = "blob"
  /\ scratch' = Scratch
  /\ stack' = Scratch
  /\ saved_regs' = regs
  /\ regs' = AtBlob(regs)
  /\ tpc' = "before"
  /\ UNCHANGED <<step, failed, pending, ctx, cur, kernel>>

\* The signal stays pending although it was delivered.
retry_signal_twice ==
  /\ tpc = "signal"
  /\ regs' = [saved_regs EXCEPT !.frames = @ \cup ({cur} \cap Handled)]
  /\ mask' = mask \cup ({cur} \cap Handled)
  /\ taken' = taken \cup {cur}
  /\ tpc' = IF cur \in Fatal THEN "dead" ELSE "back"
  /\ pending' = pending \cup ({cur} \ Fatal)
  /\ UNCHANGED <<step, failed, borrowed, cur, sent, ret, areas, parasites>>

\* The stop was not for the blob's trap: put the registers back, schedule
\* INTERRUPT and let the signal be delivered; then either the thread is back in
\* the jobctl trap or another signal is reported.
retry_signal ==
  /\ tpc = "signal"
  /\ regs' = [saved_regs EXCEPT !.frames = @ \cup ({cur} \cap Handled)]
  /\ mask' = mask \cup ({cur} \cap Handled)
  /\ taken' = taken \cup {cur}
  /\ \/ cur \in Fatal /\ tpc' = "dead" /\ UNCHANGED <<cur, pending>>
     \/ cur \notin Fatal /\ tpc' = "back" /\ UNCHANGED <<cur, pending>>
     \/ /\ cur \notin Fatal
        /\ cur' \in pending \ mask'
        /\ pending' = pending \ {cur'}
        /\ UNCHANGED tpc
  /\ UNCHANGED <<step, failed, borrowed, sent, ret, areas, parasites>>

\* The stack words are not restored.
retry_keeps_stack ==
  /\ tpc = "back"
  /\ regs' = AtBlob(saved_regs)
  /\ tpc' = "before"
  /\ UNCHANGED <<step, failed, pending, borrowed, cur, kernel>>

\* "otherwise, retry": the stack words and the registers of before.
retry ==
  /\ tpc = "back"
  /\ scratch' = stack
  /\ regs' = AtBlob(saved_regs)
  /\ tpc' = "before"
  /\ UNCHANGED <<step, failed, pending, code, stack, saved_regs, ctx, cur, kernel>>

\* What the callers keep: the old mask, the address of the area.
Result ==
  CASE step = "signals_block" -> [ctx EXCEPT !.sigset = scratch]
    [] step = "mmap" -> [ctx EXCEPT !.blob = Cardinality(areas)]
    [] OTHER -> ctx

\* The registers are not restored.
finish_keeps_regs ==
  /\ tpc = "trapped"
  /\ tpc' = "parked"
  /\ failed' = (failed \/ (step = "mmap" /\ ~ret))
  /\ ctx' = Result
  /\ step' = After(step)
  /\ UNCHANGED <<regs, pending, code, scratch, stack, saved_regs, cur, kernel>>

\* The blob's own trap: squash it, fetch the result, restore the registers.
finish ==
  /\ tpc = "trapped"
  /\ tpc' = "parked"
  /\ regs' = saved_regs
  /\ failed' = (failed \/ (step = "mmap" /\ ~ret))
  /\ ctx' = Result
  /\ step' = After(step)
  /\ UNCHANGED <<pending, code, scratch, stack, saved_regs, cur, kernel>>

\* The parasite works and exits (module Session), or there is none.
session ==
  /\ step = "session"
  /\ UNCHANGED failed
  /\ step' = After(step)
  /\ UNCHANGED <<tpc, regs, pending, borrowed, cur, kernel>>

\* ctx_restore; then the target is released, or killed if mmap failed.
ctx_restore ==
  /\ step = "ctx_restore"
  /\ code' = ctx.code
  /\ scratch' = ctx.stack
  /\ UNCHANGED failed
  /\ step' = After(step)
  /\ UNCHANGED <<tpc, regs, pending, stack, saved_regs, ctx, cur, kernel>>

-----------------------------------------------------------------------------
(* The thread and the kernel. *)

\* rt_sigprocmask(SIG_SETMASK) with one word for both masks, mmap, clone, munmap.
SyscallDone ==
  /\ IF step \in {"signals_block", "signals_unblock"}
     THEN mask' = (scratch \cap Signals) \ Stop /\ scratch' = mask
     ELSE UNCHANGED <<mask, scratch>>
  /\ areas' = CASE step = "mmap" -> areas \cup {Cardinality(areas) + 1}
                [] step = "munmap" -> areas \ {ctx.blob}
                [] OTHER -> areas
  /\ parasites' = IF step = "clone" THEN parasites + 1 ELSE parasites

Syscall ==
  /\ tpc = "before"
  /\ tpc' = "after"
  /\ \/ ret' = TRUE /\ SyscallDone
     \/ ret' = FALSE /\ step \in Fails /\ UNCHANGED <<mask, scratch, areas, parasites>>
  /\ UNCHANGED <<step, failed, regs, pending, code, stack, saved_regs, ctx, cur, sent, taken>>

\* The debug trap that ends the blob.
Trap ==
  /\ tpc = "after"
  /\ tpc' = "trapped"
  /\ UNCHANGED <<step, failed, regs, pending, borrowed, cur, kernel>>

\* A signal that is not blocked is reported before the next instruction.
Report ==
  /\ tpc \in {"before", "after"}
  /\ cur' \in pending \ mask
  /\ pending' = pending \ {cur'}
  /\ tpc' = "signal"
  /\ UNCHANGED <<step, failed, regs, borrowed, kernel>>

\* Somebody sends the target a signal.
Send ==
  /\ step \notin {"running", "killed", "crashed"} /\ tpc # "dead"
  /\ sent < MaxSent
  /\ \E s \in Signals : pending' = pending \cup {s}
  /\ sent' = sent + 1
  /\ UNCHANGED <<step, failed, tpc, regs, mask, borrowed, cur, taken, ret, areas, parasites>>

BlobInit ==
  /\ step = "ctx_save" /\ failed = FALSE
  /\ tpc = "parked"
  /\ regs = Original /\ saved_regs = Original
  /\ mask = Blocked
  /\ pending = {}
  /\ code = "orig" /\ scratch = Words /\ stack = Words
  /\ ctx = [code |-> "none", stack |-> Words, sigset |-> {}, blob |-> 0]
  /\ cur = "none" /\ sent = 0 /\ taken = {}
  /\ ret = TRUE /\ areas = {} /\ parasites = 0

Worker == ctx_save \/ execute_blob \/ retry_signal \/ retry \/ finish \/ session \/ ctx_restore
Thread == Syscall \/ Trap \/ Report

BlobNext == Worker \/ Thread \/ Send

BlobSpec == BlobInit /\ [][BlobNext]_blob_vars
BlobFairSpec == BlobSpec /\ WF_blob_vars(Worker) /\ WF_blob_vars(Thread)
-----------------------------------------------------------------------------
(* Properties. *)

\* Every variable stays in its range.
BlobTypeOK ==
  /\ step \in Blobs \cup {"ctx_save", "session", "ctx_restore", "running", "killed", "crashed"}
  /\ failed \in BOOLEAN
  /\ tpc \in {"parked", "before", "after", "signal", "back", "trapped", "dead"}
  /\ {regs, saved_regs} \subseteq [blob : BOOLEAN, frames : SUBSET Signals]
  /\ mask \subseteq Signals \ Stop
  /\ pending \cup taken \subseteq Signals
  /\ code \in {"orig", "blob"}
  /\ scratch \cup stack \subseteq Signals \cup Words
  /\ ctx \in [code : {"none", "orig"}, stack : {Words}, sigset : SUBSET Signals, blob : Nat]
  /\ sent \in 0 .. MaxSent
  /\ ret \in BOOLEAN
  /\ areas \subseteq Nat /\ parasites \in Nat

Released == step = "running"

\* The types hold, and whatever signals came while blobs ran, a released thread has its registers,
\* its code and the words below its stack pointer back (execute_blob and
\* ctx_restore), though every blob overwrites them.
ContextRestored ==
  /\ BlobTypeOK
  /\ Released => ~regs.blob /\ code = "orig" /\ scratch = Words

\* A released thread has its own signal mask again (signals_block,
\* signals_unblock).  This needs that no handler was scheduled for it before its
\* signals were blocked and that SIGSTOP, which cannot be, did not make
\* execute_blob repeat the blob: it would read back the mask it has just set.
MaskRestored == Released /\ taken \cap (Handled \cup Stop) = {} => mask = Blocked

\* A signal taken while a blob ran is not lost: the handler is about to run
\* (the comment in execute_blob: "signal code will schedule handler").
HandlersRun == Released => taken \cap Handled \subseteq regs.frames

\* A blob with side effects runs its system call once (the comment in
\* execute_blob: "Block signals first before doing any operation with side
\* effects"), and nothing of it is left in the end; SIGSTOP, which cannot be
\* blocked, is excepted.
SideEffectsOnce ==
  taken \cap Stop = {} =>
    /\ parasites <= 1 /\ Cardinality(areas) <= 1
    /\ Released => areas = {}

\* The retries of execute_blob come to an end once no more signals are sent.
BlobsEnd == <>(step \in {"running", "killed", "crashed"} \/ tpc = "dead")
=============================================================================
