----------------------------- MODULE VaultMutex -----------------------------
(***************************************************************************)
(* What ExecutionJournal.locked promises: of all executor processes at     *)
(* most one runs the function it guards, and one that ends or crashes in   *)
(* it does not bar the others for ever.                                    *)
(***************************************************************************)
CONSTANT Executors   \* the processes that may execute for the vault

VARIABLES
    alive,      \* the processes that run
    inside      \* those of them that run the guarded function

mutexVars == <<alive, inside>>

MutexInit == alive = {} /\ inside = {}

Boot(p) ==
    /\ p \notin alive
    /\ alive' = alive \cup {p}
    /\ UNCHANGED inside

(* It ends or crashes, wherever it is.                                     *)
Stop(p) ==
    /\ p \in alive
    /\ alive' = alive \ {p}
    /\ inside' = inside \ {p}

Enter(p) ==
    /\ p \in alive
    /\ inside = {}
    /\ inside' = {p}
    /\ UNCHANGED alive

Leave(p) ==
    /\ p \in inside
    /\ inside' = inside \ {p}
    /\ UNCHANGED alive

MutexNext == \E p \in Executors : Boot(p) \/ Stop(p) \/ Enter(p) \/ Leave(p)

MutexSpec == MutexInit /\ [][MutexNext]_mutexVars
=============================================================================
