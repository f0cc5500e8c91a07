------------------------------ MODULE MCPsyNFT ------------------------------
(***************************************************************************)
(* Instances of PsyNFT for TLC.                                            *)
(***************************************************************************)
EXTENDS PsyNFTProps, TLC

SlotSymmetry == Permutations(Slots)

(* BOUND: two tokens pass back and forth until the ring has wrapped; once  *)
(* anything but minting and passing has happened, or a third token is      *)
(* minted, the issues and the passes of a channel are five in all.         *)
OnlyPassing ==
    /\ max_supply = 0 /\ is_mint_renounced = 0 /\ collection.details = NoUser
    /\ \A u \in Users : burn_requested[u] = 0
    /\ total_minted <= 2
FewSteps == OnlyPassing \/ \A u, v \in Users : nonce_sent[u][v] + total_minted <= 5

=============================================================================
