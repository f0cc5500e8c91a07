----------------------------- MODULE MCPsyToken -----------------------------
(***************************************************************************)
(* Instances of PsyToken for TLC.                                          *)
(***************************************************************************)
EXTENDS PsyTokenProps, TLC

Holders == Users \ {Issuer}
HolderSymmetry == Permutations(Holders)

(* Batches with a repeated recipient, a skipped entry whose recipient is   *)
(* invalid, the caller itself among the recipients, and two recipients.    *)
SmallBatches2 ==
    { [to |-> <<r, t>>, amount |-> <<1, a>>] :
        r \in Users, t \in Users \cup {NoUser}, a \in {0, 1} }
SmallBatches5 ==
    { [to |-> <<r, t, r, NoUser, t>>, amount |-> <<1, 0, a, 0, 1>>] :
        r \in Users, t \in Users, a \in {0, 1} }

(* The slice of the calls that touch a delegation slot, with issuance to    *)
(* fund its owner, burns that compete for the funds, and payouts that come *)
(* back to the owner.  Only the issuer owns slots, burns and claims, and   *)
(* every other user can be its spender.                                    *)
DelegationNext ==
    \/ SetMintAuthority(Issuer, Issuer)
    \/ \E a \in Amounts : Mint(Issuer, a) \/ Burn(Issuer, a)
    \/ SettleBurn(Issuer, Issuer)
    \/ \E u \in Users : Delegation(u) \/ Claim(Issuer, u)
DelegationSpec == Init /\ [][DelegationNext]_vars

=============================================================================
