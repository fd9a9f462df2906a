---------------------------- MODULE MCRWMonitor ----------------------------
(* Small instances of RWMonitor.  With M = 3 the writers 0 and 2 run and the
   writer 1 cancels itself. *)
EXTENDS RWMonitor

(* The same system when pthread_cond_wait returns for a signal or a broadcast
   only: what goes wrong here is no matter of spurious wakeups. *)
PromptNext == Next /\ ~Spurious
PromptSpec == Init /\ [][PromptNext]_vars
=============================================================================
