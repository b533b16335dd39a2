---- MODULE MCServiceCmds ----
(* The command ring on a ring of three slots and three distinct commands. *)
EXTENDS ServiceCmds
====
