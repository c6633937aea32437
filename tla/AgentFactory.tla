------------------------------ MODULE AgentFactory ------------------------------
(***************************************************************************)
(* The console's agents: the main thread spawns relay agents and kills     *)
(* them, and each agent's own, detached thread runs its sniffer and calls  *)
(* process for every frame.  The thread holds a plain pointer to the       *)
(* agent; the map of the factory holds the only shared_ptr.                *)
(*                                                                         *)
(* Only the main thread takes AgentFactory::lock.  Spawning is one step:   *)
(* no other thread looks at the map.  An access to an agent that was freed *)
(* is undefined, and the model stops there.                                *)
(***************************************************************************)
EXTENDS Integers, FiniteSets

CONSTANTS MaxAgents     \* bound on the agents that are spawned

ASSUME FactoryAssumption == MaxAgents \in Nat

Ids == 0..(MaxAgents - 1)

VARIABLES
  agent_threads,        \* the ids in the map
  current_thread_id,    \* the next id
  console,              \* the id of the agent that is being killed, -1 at the prompt
  complete,             \* agents that were told to stop
  freed,                \* agents that no longer exist
  thread,               \* where the thread of each agent is
  calls,                \* calls of process that began after the stop signal
  status                \* "running", "terminated" or "undefined"

factoryVars == <<agent_threads, current_thread_id, console, complete, freed, thread, calls,
                 status>>

FactoryInit ==
  /\ agent_threads = {} /\ current_thread_id = 0 /\ console = -1
  /\ complete = {} /\ freed = {}
  /\ thread = [a \in Ids |-> "none"]
  /\ calls = [a \in Ids |-> 0]
  /\ status = "running"

-----------------------------------------------------------------------------
(***************************************************************************)
(* The main thread.                                                        *)
(***************************************************************************)

\* spawn_agent_thread, for any of the three kinds of agents.
Spawn ==
  /\ status = "running" /\ console = -1 /\ current_thread_id < MaxAgents
  /\ agent_threads' = agent_threads \cup {current_thread_id}
  /\ current_thread_id' = current_thread_id + 1
  /\ thread' = [thread EXCEPT ![current_thread_id] = "run"]
  /\ UNCHANGED <<console, complete, freed, calls, status>>

\* kill_agent_thread, first half: the agent is told to stop.  An id that is not in
\* the map gives a null pointer, and a command without a number throws.
KillSignal(id) ==
  /\ status = "running" /\ console = -1
  /\ IF id \in agent_threads
     THEN /\ complete' = complete \cup {id} /\ console' = id
          /\ UNCHANGED status
     ELSE /\ status' = "terminated"
          /\ UNCHANGED <<complete, console>>
  /\ UNCHANGED <<agent_threads, current_thread_id, freed, thread, calls>>

\* Second half: the last reference to the agent goes.
KillReset ==
  /\ status = "running" /\ console # -1
  /\ freed' = freed \cup {console}
  /\ agent_threads' = agent_threads \ {console}
  /\ console' = -1
  /\ UNCHANGED <<current_thread_id, complete, thread, calls, status>>

-----------------------------------------------------------------------------
(***************************************************************************)
(* The thread of an agent.                                                 *)
(***************************************************************************)

\* A step of the thread that touches the agent.
Touch(a, from) ==
  /\ status = "running" /\ thread[a] = from
  /\ status' = IF a \in freed THEN "undefined" ELSE status
  /\ UNCHANGED <<agent_threads, current_thread_id, console, complete, freed>>

\* run sets the interfaces and starts the sniffer.
Run(a) ==
  /\ Touch(a, "run")
  /\ thread' = [thread EXCEPT ![a] = "sniff"]
  /\ UNCHANGED calls

\* A frame has come, and the sniffer calls process.
ProcessBegin(a) ==
  /\ Touch(a, "sniff")
  /\ thread' = [thread EXCEPT ![a] = "process"]
  /\ calls' = [calls EXCEPT ![a] = IF a \in complete THEN @ + 1 ELSE @]

\* A process that tests the flag before it relays, and returns true after that.
ProcessEndBlind(a) ==
  /\ Touch(a, "process")
  /\ thread' = [thread EXCEPT ![a] = "sniff"]
  /\ UNCHANGED calls

\* process has relayed the frame and returns whether the sniffer shall go on.
ProcessEnd(a) ==
  /\ Touch(a, "process")
  /\ thread' = [thread EXCEPT ![a] = IF a \in complete THEN "ended" ELSE "sniff"]
  /\ UNCHANGED calls

-----------------------------------------------------------------------------

FactoryNext ==
  \/ Spawn \/ KillReset
  \/ \E id \in Ids : KillSignal(id)
  \/ \E a \in Ids : Run(a) \/ ProcessBegin(a) \/ ProcessEnd(a)

FactorySpec == FactoryInit /\ [][FactoryNext]_factoryVars

-----------------------------------------------------------------------------
(***************************************************************************)
(* Properties.                                                             *)
(***************************************************************************)

\* Ids and threads have their types.
FactoryTypeOK ==
  /\ agent_threads \subseteq Ids
  /\ current_thread_id \in 0..MaxAgents
  /\ console \in Ids \cup {-1}
  /\ complete \subseteq Ids /\ freed \subseteq Ids
  /\ thread \in [Ids -> {"none", "run", "sniff", "process", "ended"}]
  /\ calls \in [Ids -> Nat]
  /\ status \in {"running", "terminated", "undefined"}

\* The map owns exactly the agents that exist: none is freed while its id can
\* still be killed, and none is left without an id.
MapOwnsAgents ==
  /\ agent_threads \cap freed = {}
  /\ \A a \in Ids : thread[a] # "none" <=> a \in agent_threads \cup freed

\* An agent that was told to stop takes at most one more frame, and its thread
\* ends only when it was told: the loop ends with the call of process that reads
\* complete, wherever in the loop the signal has come.
LastCallAfterSignal ==
  \A a \in Ids : /\ calls[a] <= 1
                 /\ thread[a] = "ended" => a \in complete

\* The console and the agents' threads stay accounted for: the map owns what
\* exists, and a thread outlives the signal by one call of process at most.
AgentsAccounted == FactoryTypeOK /\ MapOwnsAgents /\ LastCallAfterSignal
=============================================================================
