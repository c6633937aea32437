-------------------------------- MODULE MCRelay --------------------------------
(***************************************************************************)
(* Models for TLC of the parts of the relay that share no state with each  *)
(* other: reassembly, the list of the relay from the monitor interface,    *)
(* and the threads of the agents.  They are checked side by side: a        *)
(* behaviour is that of one part, and the others stay as at the start.     *)
(***************************************************************************)
EXTENDS FragmentReceiver, MonToWarpAgent, AgentFactory, TLC

CONSTANTS pA, pB, pC, pD

\* Packets of which two share an id, and one is not fragmented.
MCPackets == {pA, pB, pC, pD}
MCIdOf == (pA :> 220) @@ (pB :> 221) @@ (pC :> 222) @@ (pD :> 220)
MCTotalOf == (pA :> 3) @@ (pB :> 2) @@ (pC :> 2) @@ (pD :> 1)

VARIABLE part

vars == <<part, fragmentVars, monVars, factoryVars>>

Init ==
  /\ part \in {"fragments", "mon", "factory"}
  /\ FragmentInit /\ MonInit /\ FactoryInit

Next ==
  /\ \/ /\ part = "fragments" /\ FragmentNext
        /\ UNCHANGED <<monVars, factoryVars>>
     \/ /\ part = "mon" /\ MonNext
        /\ UNCHANGED <<fragmentVars, factoryVars>>
     \/ /\ part = "factory" /\ FactoryNext
        /\ UNCHANGED <<fragmentVars, monVars>>
  /\ UNCHANGED part

Spec == Init /\ [][Next]_vars
=============================================================================
