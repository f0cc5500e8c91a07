---------------------------- MODULE MCVaultScans ----------------------------
(* Instances of VaultScans for TLC.                                        *)
EXTENDS VaultScans

CONSTANTS
    Large,      \* the vault with more users than readers
    New         \* the vault that nobody uses yet

SmallRows == [v \in Vaults |-> IF v = Large THEN 3 ELSE IF v = New THEN 0 ELSE 1]
=============================================================================
