---------------------------- MODULE U124AmmProps ----------------------------
(***************************************************************************)
(* What the pool promises those who trade with it and those who own it,    *)
(* for proofs as old as the chain admits and payers that open and pay as   *)
(* they like.                                                              *)
(***************************************************************************)
EXTENDS U124Amm, FiniteSetsExt

Slots == [kind : 0..3, side : {0, 1}, x : 0..MaxAmount, y : 0..MaxAmount, z : 0..MaxAmount,
          deadline : Nat, nonce : Nat]

(* TYPE: reserves and shares are U124 values: no limb overflows.           *)
PoolType ==
    /\ reserve_a \in 0..MaxAmount /\ reserve_b \in 0..MaxAmount
    /\ total_shares \in 0..MaxAmount
    /\ shares \in [Payers -> 0..MaxAmount]

(* The vault holds what the contract believes, to the unit.                *)
Custody == vault["a"] = reserve_a /\ vault["b"] = reserve_b

(* A pool with shares has both assets, and an unfunded pool has no owner.  *)
PoolIsWhole ==
    /\ total_shares = 0 =>
        reserve_a = 0 /\ reserve_b = 0 /\ \A p \in Payers : shares[p] = 0
    /\ total_shares > 0 =>
        reserve_a > 0 /\ reserve_b > 0 /\ total_shares >= LockedShares

(* SAFETY: the reasons a guard may trust an old view (the cursors follow   *)
(* the claims, totals only grow, a funded order stays in its slot), and    *)
(* the pool the guards compute on is the one in the vault.                 *)
AmmInv ==
    /\ MarketInv(Slots)
    /\ PoolType
    /\ Custody /\ PoolIsWhole

AllOf(f) == MapThenSumSet(LAMBDA p : f[p], Payers)

(* SAFETY: the shares are the payers' and the locked ones.                 *)
SharesAddUp ==
    total_shares = (IF total_shares = 0 THEN 0 ELSE LockedShares) + AllOf(shares)

-----------------------------------------------------------------------------
(* p gets its order's terms, or its deposit back and no more.              *)
OnSignedTerms(p) ==
    LET o == order[p]
        due == Purse(0, IF o.kind = 2 \/ (o.kind = 1 /\ o.side = 0) THEN o.x ELSE 0,
                       IF o.kind = 2 THEN o.y ELSE IF o.kind = 1 /\ o.side = 1 THEN o.x ELSE 0)
        traded ==
            \/ o.kind = 1 /\ o.side = 0 /\ Got(p, "a") = 0 /\ Got(p, "b") >= o.y
            \/ o.kind = 1 /\ o.side = 1 /\ Got(p, "b") = 0 /\ Got(p, "a") >= o.y
        minted == shares'[p] - shares[p]
    IN  /\ o.kind # 0
        /\ consumed[p] < o.nonce /\ consumed'[p] = o.nonce
        /\ Took(p, "fee") = FeeEscrow /\ Took(p, "a") = due["a"] /\ Took(p, "b") = due["b"]
        /\ \/ Got(p, "a") = due["a"] /\ Got(p, "b") = due["b"] /\ minted = 0
           \/ traded /\ minted = 0
           \/ o.kind = 2 /\ Got(p, "a") = 0 /\ Got(p, "b") = 0 /\ minted >= o.z
           \/ o.kind = 3 /\ Got(p, "a") >= o.y /\ Got(p, "b") >= o.z /\ minted = -o.x

(* ACTION: whatever old view a stack was proved on, it touches a payer's   *)
(* money or shares only for the payer's present order, once for each       *)
(* nonce, takes exactly that order's deposit, and keeps its limits.        *)
SettledOnSignedTerms ==
    [][\A p \in Payers :
        (claimed'[p] # claimed[p] \/ paid'[p] # paid[p] \/ shares'[p] # shares[p])
            => OnSignedTerms(p)]_vars

(* ACTION: no step makes a share of the pool worth less: with T shares,    *)
(* the geometric mean of the reserves per share does not fall.             *)
ShareValueNeverFalls ==
    [][total_shares > 0 =>
        /\ total_shares' > 0
        /\ reserve_a' * reserve_b' * total_shares * total_shares
             >= reserve_a * reserve_b * total_shares' * total_shares']_vars

Due(o) ==
    IF o.kind = 3 THEN RemoveDue(o) ELSE IF o.kind = 2 THEN AddDue(o)
    ELSE IF o.side = 0 THEN SwapDue0(o) ELSE SwapDue1(o)

CanRefund(p) ==
    /\ IsOpen(Now, p, order[p].kind)
    /\ IsFunded(Now, p, Due(order[p]))

CanClose(p) ==
    NothingUnsettled(p, Receipt(checkpoint, settled[p]),
                     {c \in Coins : c = "fee" \/ Due(order[p])[c] > 0})

(* SAFETY: a payer that uses the clients' stacks never has an order that   *)
(* neither the vault can refund nor the payer close, whatever other        *)
(* payers, prices and deadlines did to it.                                 *)
NothingStuck ==
    \A p \in Payers \ Careless : order[p].kind # 0 => CanRefund(p) \/ CanClose(p)

-----------------------------------------------------------------------------
(* REFINEMENT: proofs of any age, with quotients they supply, implement a  *)
(* pool that acts on the orders and deposits of the moment.                *)
Held == [p \in Payers |-> [c \in Coins |-> sent[p][c] - settled[p][c]]]

Abstract == INSTANCE LiquidityPool WITH deposit <- Held

ImplementsPool == Abstract!PoolSpec
=============================================================================
