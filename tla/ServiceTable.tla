---------------------------- MODULE ServiceTable ----------------------------
(* The daemon as an implementation of AtomicTable.                            *)
EXTENDS Service

Atomic == INSTANCE AtomicTable

\* The threads and the SIGCHLD handler do nothing to the table but what its
\* functions promise: in particular the listener, which asks can_checkpoint_pid
\* and takes a row in two critical sections, still gives a row only to a process
\* that has none, and every clear, flag and state change is a whole function.
TableIsAtomic == Atomic!Spec
=============================================================================
