---------------------------- MODULE CommandService ----------------------------
(***************************************************************************)
(* What the communications agent promises the threads that queue commands  *)
(* and the nodes of the bssid group: commands are carried out one at a     *)
(* time in the order in which they were queued, none is dropped or         *)
(* overtaken, and while a command is being carried out the group is told   *)
(* of it at most once, by update_bssids, and of no other command.          *)
(*                                                                         *)
(* CommsAgent implements this with its lock, semaphore and control channel *)
(* to WARP; DpmAgent, which looks at the group and not at the queue,       *)
(* implements it as well.  So what DpmAgent assumes of the queue is what   *)
(* CommsAgent provides.                                                    *)
(***************************************************************************)
EXTENDS Sequences

CONSTANT Entries         \* the commands that may be queued

VARIABLES queue,         \* the commands not yet over; the first is in work
          informed       \* the group was told of the command in work

serviceVars == <<queue, informed>>

Init == queue = <<>> /\ informed = FALSE

Submit == /\ \E c \in Entries : queue' = Append(queue, c)
          /\ UNCHANGED informed

Inform == /\ queue # <<>> /\ ~informed
          /\ informed' = TRUE
          /\ UNCHANGED queue

\* The command in work is over, in success or in failure.
Finish == /\ queue # <<>>
          /\ queue' = Tail(queue)
          /\ informed' = FALSE

Spec == Init /\ [][Submit \/ Inform \/ Finish]_serviceVars
=============================================================================
