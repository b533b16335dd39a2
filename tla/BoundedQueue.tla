---------------------------- MODULE BoundedQueue ----------------------------
(* What the command queue of the memcr daemon promises its two users: a FIFO *)
(* of at most Capacity commands.  The listener pushes and is told at once    *)
(* when the queue is full; the command thread pops in order until somebody   *)
(* interrupts the queue, after which nothing is popped any more, whatever is *)
(* still queued.  ServiceCmds implements this module and Service uses it.    *)
EXTENDS Naturals, Sequences

CONSTANTS Capacity,   \* MAX_CLIENT_CONNECTIONS
          Cmds        \* the service_command_ctx values

VARIABLES queue,      \* the queued commands, oldest first
          interrupt   \* the popper has been told to stop

Empty == queue = <<>> /\ interrupt = FALSE

Full == Len(queue) >= Capacity

PushBack(c) ==
  /\ ~Full
  /\ queue' = Append(queue, c)
  /\ UNCHANGED interrupt

PopFront ==
  /\ ~interrupt
  /\ queue # <<>>
  /\ queue' = Tail(queue)
  /\ UNCHANGED interrupt

Interrupt ==
  /\ interrupt' = TRUE
  /\ UNCHANGED queue

Next == (\E c \in Cmds : PushBack(c)) \/ PopFront \/ Interrupt

Spec == Empty /\ [][Next]_<<queue, interrupt>>
=============================================================================
