---------------------------- MODULE MCVaultLock -----------------------------
(* Instances of VaultLock for TLC.                                         *)
EXTENDS VaultLockProps, TLC

CONSTANTS p1, p2, p3

TwoMachines == p1 :> "a" @@ p2 :> "a" @@ p3 :> "b"
OneMachine == [p \in Pids |-> "a"]
=============================================================================
