---------------------------- MODULE MCWideToken ----------------------------
(***************************************************************************)
(* An instance of WideToken for TLC: limbs in base 3, so that low limbs    *)
(* carry, high limbs overflow and a slot can be reopened.                  *)
(***************************************************************************)
EXTENDS WideTokenProps

Pair(lo, hi) == [lo |-> lo, hi |-> hi]
SmallAmounts == {Pair(2, 0), Pair(0, 1)}

(* Batches with a skipped entry, two entries whose low limbs carry, and one *)
(* whose total overflows the high limb.                                    *)
SmallBatches2 ==
    { [to |-> <<r, NoUser>>, amount |-> <<Pair(0, 1), Zero>>] : r \in Users }
SmallBatches5 ==
    { [to |-> <<r, NoUser, r, NoUser, r>>, amount |-> <<Pair(2, 0), Zero, Pair(2, 0), Zero, a>>] :
        r \in Users, a \in {Zero, Pair(2, 2)} }

(* BOUND: issues of 2 or 3 units up to 4; up to 2 once the metadata or a  *)
(* cap is set or minting is renounced.                                     *)
(* Lifetime counters still reach their limit, by payments back and forth.  *)
FewUnits ==
    /\ Val(total_minted) <= 4
    /\ metadata.symbol # NoUser \/ max_supply # Zero \/ is_mint_renounced = 1
       => Val(total_minted) <= 2

(* BOUND: only the issuer burns and owns a slot, and once it has opened    *)
(* one or burned, the lifetime counters stay within 5.                     *)
OneOwner ==
    LET opened == \E c \in Channels : delegations[Issuer][c].status # 0 IN
    /\ \A u \in Users \ {Issuer} :
        burn_requested[u] = Zero /\ \A c \in Channels : delegations[u][c].status = 0
    /\ opened \/ burn_requested[Issuer] # Zero
       => \A u, v \in Users : Val(amount_sent[u][v]) <= 5
=============================================================================
