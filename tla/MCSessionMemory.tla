--------------------------- MODULE MCSessionMemory ---------------------------
(***************************************************************************)
(* Instances of SessionMemory and of LongTermMemory for TLC.  A behaviour  *)
(* of the run is a behaviour of the part that its initial state names, and *)
(* the other part never leaves an initial state of its own.                *)
(***************************************************************************)
EXTENDS SessionMemory, LongTermMemory, TLC

VARIABLE part

Symmetries == Permutations(Turns) \cup Permutations(Objects) \cup Permutations(Injects)
                \cup Permutations(Compactions)

SessionsInit ==
    /\ part \in {"sessions", "memory"}
    /\ Init /\ MemoryInit

SessionsNext ==
    /\ UNCHANGED part
    /\ \/ part = "sessions" /\ Next /\ UNCHANGED memoryVars
       \/ part = "memory" /\ MemoryNext /\ UNCHANGED vars

SessionsSpec == SessionsInit /\ [][SessionsNext]_<<part, vars, memoryVars>>

\* Every variable of both parts is of its type.
SessionsTypesOK == TypeOK /\ MemoryTypeOK
===============================================================================
