----------------------------- MODULE MCCommsAgent -----------------------------
(***************************************************************************)
(* Models for TLC: recv_loop with commands of every kind, and the datapath *)
(* manager's thread, which queues well-formed associate and disassociate   *)
(* commands only.                                                          *)
(***************************************************************************)
EXTENDS CommsAgent

MCProducers == {"recv_loop", "timed_check"}

Cmd(name, fault) == [name |-> name, fault |-> fault]

FromDatapathManager == {Cmd("associate", "none"), Cmd("disassociate", "none")}

FromManager == {Cmd(n, "none") : n \in Names}
               \cup {Cmd(n, "head") : n \in {"radio_set", "delete", "associate"}}
               \cup {Cmd("radio_set", "params")}

\* Every kind of command.
AllInputs == [p \in MCProducers |-> IF p = "recv_loop" THEN FromManager
                                    ELSE FromDatapathManager]

\* Fewer kinds, for more commands.
FewInputs == [p \in MCProducers |-> IF p = "recv_loop"
                                    THEN {Cmd("test", "none"), Cmd("radio_set", "none")}
                                    ELSE {Cmd("associate", "none")}]
=============================================================================
