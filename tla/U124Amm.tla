------------------------------- MODULE U124Amm ------------------------------
(***************************************************************************)
(* The constant-product pool amm/u124/contract/src/main.psy.rs and the     *)
(* stacks its policy (amm/u124/policy.mjs) admits.  An order is a swap     *)
(* (kind 1; side 0 pays a, side 1 pays b), an addition (kind 2) or a       *)
(* removal (kind 3) of liquidity; x, y and z are its amounts and limits.   *)
(*                                                                         *)
(* The contract does not divide: the vault's proof supplies a quotient,    *)
(* and two products of digits bound it from both sides.  A quotient is a   *)
(* parameter here too, and each of the two bounds a definition; a product  *)
(* of digits is a product of numbers.                                      *)
(***************************************************************************)
EXTENDS U124Market, FiniteSets

CONSTANTS
    Orders,         \* bound: the orders payers sign
    FeeNum, FeeDen, \* the share of an input that trades: 9970 of 10000
    LockedShares    \* shares of the first deposit that nobody owns: 1000

(* U124Amm's order fields: kind, side, x, y, z, deadline, nonce.           *)
SwapOrders == [kind : {1}, side : {0, 1}, x : 1..MaxAmount, y : 1..MaxAmount, z : {0},
               deadline : Nat, nonce : Nat]
AddOrders == [kind : {2}, side : {0}, x : 1..MaxAmount, y : 1..MaxAmount, z : 1..MaxAmount,
              deadline : Nat, nonce : Nat]
RemoveOrders == [kind : {3}, side : {0}, x : 1..MaxAmount, y : 0..MaxAmount, z : 0..MaxAmount,
                 deadline : Nat, nonce : Nat]

ASSUME AmmAssumption ==
    /\ Orders \subseteq SwapOrders \cup AddOrders \cup RemoveOrders
    /\ FeeNum \in Nat \ {0} /\ FeeDen \in Nat \ {0} /\ FeeNum <= FeeDen
    /\ LockedShares \in Nat \ {0}

ASSUME PayersAssumption == IsFiniteSet(Payers)

VARIABLES reserve_a, reserve_b, total_shares, shares

reserves == <<reserve_a, reserve_b>>
poolVars == <<reserve_a, reserve_b, total_shares, shares>>
vars == <<marketVars, poolVars>>

NoOrder == [kind |-> 0, side |-> 0, x |-> 0, y |-> 0, z |-> 0, deadline |-> 0, nonce |-> 0]

Init ==
    /\ MarketInit(NoOrder)
    /\ reserve_a = 0 /\ reserve_b = 0 /\ total_shares = 0
    /\ shares = [p \in Payers |-> 0]

-----------------------------------------------------------------------------
(* What each order's stack of the clients sends, and what its guard takes. *)
SwapDue0(o) == Purse(FeeEscrow, o.x, 0)
SwapDue1(o) == Purse(FeeEscrow, 0, o.x)
AddDue(o) == Purse(FeeEscrow, o.x, o.y)
RemoveDue(o) == Purse(FeeEscrow, 0, 0)

OpenSwap(p, o) ==
    /\ o.kind = 1
    /\ \/ OpenUnfunded(p, o)
       \/ OpenFunded(p, o, IF o.side = 0 THEN SwapDue0(o) ELSE SwapDue1(o))
    /\ UNCHANGED poolVars

OpenAdd(p, o) ==
    /\ o.kind = 2
    /\ OpenUnfunded(p, o) \/ OpenFunded(p, o, AddDue(o))
    /\ UNCHANGED poolVars

OpenRemove(p, o) ==
    /\ o.kind = 3
    /\ OpenUnfunded(p, o) \/ OpenFunded(p, o, RemoveDue(o))
    /\ UNCHANGED poolVars

(* The owner frees its slot: the fee and the assets of its order's kind    *)
(* are settled.                                                            *)
CloseSwap0(p) ==
    /\ order[p].kind = 1 /\ order[p].side = 0
    /\ Closes(p, {"fee", "a"})
    /\ UNCHANGED poolVars

CloseSwap1(p) ==
    /\ order[p].kind = 1 /\ order[p].side = 1
    /\ Closes(p, {"fee", "b"})
    /\ UNCHANGED poolVars

CloseAdd(p) ==
    /\ order[p].kind = 2
    /\ Closes(p, {"fee", "a", "b"})
    /\ UNCHANGED poolVars

CloseRemove(p) ==
    /\ order[p].kind = 3
    /\ Closes(p, {"fee"})
    /\ UNCHANGED poolVars

-----------------------------------------------------------------------------
(* swap_0: a into the pool, b out of it.                                   *)
SwapGuard0(v, p) == IsOpen(v, p, 1) /\ IsLive(v, p) /\ v.order[p].side = 0

SwapTerms0(v, p, output) == output > 0 /\ v.order[p].y <= output

(* The input without the pool's fee, and the two sides of the quotient     *)
(* effective * reserve_out / (FeeDen * reserve_in + effective).            *)
Effective(amount) == FeeNum * amount

Denominator(reserve_in, amount) == FeeDen * reserve_in + Effective(amount)

Numerator(reserve_out, amount) == Effective(amount) * reserve_out

(* Faulty: the quotient is rounded up.                                   *)
QuoteRoundedUp(output, reserve_in, reserve_out, amount) ==
    (output - 1) * Denominator(reserve_in, amount) <= Numerator(reserve_out, amount)

QuoteNotTooHigh(output, reserve_in, reserve_out, amount) ==
    output * Denominator(reserve_in, amount) <= Numerator(reserve_out, amount)

QuoteNotTooLow(output, reserve_in, reserve_out, amount) ==
    Numerator(reserve_out, amount) < (output + 1) * Denominator(reserve_in, amount)

(* No limb carries out of an addition, no subtraction borrows.             *)
Fits(n) == n \in 0..MaxAmount

PoolAfterSwap0(amount, output) ==
    /\ Fits(reserve_a + amount) /\ Fits(reserve_b - output)
    /\ reserve_a' = reserve_a + amount
    /\ reserve_b' = reserve_b - output
    /\ UNCHANGED <<total_shares, shares>>

(* The quotients the vault's proof supplies.                               *)
Amounts == 0..MaxAmount

Swap0(v, p, fee) ==
    LET amount == v.order[p].x IN
    /\ SwapGuard0(v, p)
    /\ reserve_a > 0 /\ reserve_b > 0
    /\ \E output \in Amounts :
        /\ SwapTerms0(v, p, output)
        /\ QuoteNotTooHigh(output, reserve_a, reserve_b, amount)
        /\ QuoteNotTooLow(output, reserve_a, reserve_b, amount)
        /\ PoolAfterSwap0(amount, output)
        /\ Serves(v, p, SwapDue0(v.order[p]), Only("b", output), fee)

(* swap_1: b into the pool, a out of it.                                   *)
SwapGuard1(v, p) == IsOpen(v, p, 1) /\ IsLive(v, p) /\ v.order[p].side = 1

SwapTerms1(v, p, output) == output > 0 /\ v.order[p].y <= output

OutputANotTooHigh(output, amount) == QuoteNotTooHigh(output, reserve_b, reserve_a, amount)

OutputANotTooLow(output, amount) == QuoteNotTooLow(output, reserve_b, reserve_a, amount)

PoolAfterSwap1(amount, output) ==
    /\ Fits(reserve_b + amount) /\ Fits(reserve_a - output)
    /\ reserve_b' = reserve_b + amount
    /\ reserve_a' = reserve_a - output
    /\ UNCHANGED <<total_shares, shares>>

Swap1(v, p, fee) ==
    LET amount == v.order[p].x IN
    /\ SwapGuard1(v, p)
    /\ reserve_a > 0 /\ reserve_b > 0
    /\ \E output \in Amounts :
        /\ SwapTerms1(v, p, output)
        /\ OutputANotTooHigh(output, amount)
        /\ OutputANotTooLow(output, amount)
        /\ PoolAfterSwap1(amount, output)
        /\ Serves(v, p, SwapDue1(v.order[p]), Only("a", output), fee)

-----------------------------------------------------------------------------
(* add_liquidity.                                                          *)
AddGuard(v, p) == IsOpen(v, p, 2) /\ IsLive(v, p)

AddTerms(v, p, minted) == minted > 0 /\ v.order[p].z <= minted

(* The first deposit: the integer root of a * b, LockedShares of it        *)
(* nobody's.                                                               *)
RootNotTooHigh(gross, a, b) == gross * gross <= a * b

RootNotTooLow(gross, a, b) == a * b < (gross + 1) * (gross + 1)

(* Faulty: no share is locked.                                           *)
FirstSharesAll(a, b, minted) ==
    /\ total_shares = 0
    /\ reserve_a = 0 /\ reserve_b = 0
    /\ RootNotTooHigh(minted + LockedShares, a, b)
    /\ RootNotTooLow(minted + LockedShares, a, b)
    /\ total_shares' = minted

FirstShares(a, b, minted) ==
    /\ total_shares = 0
    /\ reserve_a = 0 /\ reserve_b = 0
    /\ Fits(minted + LockedShares)
    /\ RootNotTooHigh(minted + LockedShares, a, b)
    /\ RootNotTooLow(minted + LockedShares, a, b)
    /\ total_shares' = minted + LockedShares

(* A later deposit: in the pool's proportion, for its part of the shares.  *)
InProportion(a, b) == a * reserve_b = b * reserve_a

SharesANotTooHigh(minted, a) == minted * reserve_a <= a * total_shares

SharesANotTooLow(minted, a) == a * total_shares < (minted + 1) * reserve_a

SharesBNotTooHigh(minted, b) == minted * reserve_b <= b * total_shares

SharesBNotTooLow(minted, b) == b * total_shares < (minted + 1) * reserve_b

MoreShares(a, b, minted) ==
    /\ total_shares > 0
    /\ reserve_a > 0 /\ reserve_b > 0
    /\ InProportion(a, b)
    /\ SharesANotTooHigh(minted, a) /\ SharesANotTooLow(minted, a)
    /\ SharesBNotTooHigh(minted, b) /\ SharesBNotTooLow(minted, b)
    /\ Fits(total_shares + minted)
    /\ total_shares' = total_shares + minted

PoolAfterAdd(p, a, b, minted) ==
    /\ Fits(shares[p] + minted)
    /\ Fits(reserve_a + a) /\ Fits(reserve_b + b)
    /\ shares' = [shares EXCEPT ![p] = @ + minted]
    /\ reserve_a' = reserve_a + a
    /\ reserve_b' = reserve_b + b

AddLiquidity(v, p, fee) ==
    LET o == v.order[p] IN
    /\ AddGuard(v, p)
    /\ \E minted \in Amounts :
        /\ AddTerms(v, p, minted)
        /\ FirstShares(o.x, o.y, minted) \/ MoreShares(o.x, o.y, minted)
        /\ PoolAfterAdd(p, o.x, o.y, minted)
        /\ Serves(v, p, AddDue(o), Empty, fee)

-----------------------------------------------------------------------------
(* remove_liquidity: a part of each reserve for the shares burned.         *)
RemoveGuard(v, p) == IsOpen(v, p, 3) /\ IsLive(v, p)

RemoveTerms(v, p, a, b) ==
    /\ a > 0 /\ b > 0
    /\ v.order[p].y <= a /\ v.order[p].z <= b

(* Faulty: the payer's own shares are not compared.                      *)
HasAnyShares(p, burned) == total_shares - burned >= LockedShares

HasShares(p, burned) ==
    /\ burned <= shares[p]
    /\ burned <= total_shares
    /\ LockedShares <= total_shares - burned

WithdrawsANotTooMuch(a, burned) == a * total_shares <= burned * reserve_a

WithdrawsANotTooLittle(a, burned) == burned * reserve_a < (a + 1) * total_shares

WithdrawsBNotTooMuch(b, burned) == b * total_shares <= burned * reserve_b

WithdrawsBNotTooLittle(b, burned) == burned * reserve_b < (b + 1) * total_shares

PoolAfterRemove(p, burned, a, b) ==
    /\ Fits(reserve_a - a) /\ Fits(reserve_b - b)
    /\ shares' = [shares EXCEPT ![p] = @ - burned]
    /\ total_shares' = total_shares - burned
    /\ reserve_a' = reserve_a - a
    /\ reserve_b' = reserve_b - b

RemoveLiquidity(v, p, fee) ==
    LET burned == v.order[p].x IN
    /\ RemoveGuard(v, p)
    /\ HasShares(p, burned)
    /\ \E a, b \in Amounts :
        /\ RemoveTerms(v, p, a, b)
        /\ WithdrawsANotTooMuch(a, burned) /\ WithdrawsANotTooLittle(a, burned)
        /\ WithdrawsBNotTooMuch(b, burned) /\ WithdrawsBNotTooLittle(b, burned)
        /\ PoolAfterRemove(p, burned, a, b)
        /\ Serves(v, p, RemoveDue(v.order[p]), Purse(0, a, b), fee)

-----------------------------------------------------------------------------
(* Refunds and cancellations: no deadline, no reserve.                     *)
RefundSwap0(v, p, fee) ==
    /\ IsOpen(v, p, 1) /\ v.order[p].side = 0
    /\ Serves(v, p, SwapDue0(v.order[p]), Only("a", v.order[p].x), fee)
    /\ UNCHANGED poolVars

RefundSwap1(v, p, fee) ==
    /\ IsOpen(v, p, 1) /\ v.order[p].side = 1
    /\ Serves(v, p, SwapDue1(v.order[p]), Only("b", v.order[p].x), fee)
    /\ UNCHANGED poolVars

RefundAdd(v, p, fee) ==
    /\ IsOpen(v, p, 2)
    /\ Serves(v, p, AddDue(v.order[p]), Purse(0, v.order[p].x, v.order[p].y), fee)
    /\ UNCHANGED poolVars

CancelRemove(v, p, fee) ==
    /\ IsOpen(v, p, 3)
    /\ Serves(v, p, RemoveDue(v.order[p]), Empty, fee)
    /\ UNCHANGED poolVars

-----------------------------------------------------------------------------
Payer(p) ==
    \/ \E o \in Orders : OpenSwap(p, o) \/ OpenAdd(p, o) \/ OpenRemove(p, o)
    \/ (\E payment \in Payments : Pay(p, payment)) /\ UNCHANGED poolVars
    \/ CloseSwap0(p) \/ CloseSwap1(p) \/ CloseAdd(p) \/ CloseRemove(p)

Pool(v, p, fee) ==
    \/ Swap0(v, p, fee) \/ Swap1(v, p, fee)
    \/ AddLiquidity(v, p, fee) \/ RemoveLiquidity(v, p, fee)
    \/ RefundSwap0(v, p, fee) \/ RefundSwap1(v, p, fee)
    \/ RefundAdd(v, p, fee) \/ CancelRemove(v, p, fee)

Next ==
    \/ \E p \in Payers : Payer(p)
    \/ \E v \in views, p \in Payers, fee \in Fees : Pool(v, p, fee)
    \/ NewCheckpoint /\ UNCHANGED poolVars

Spec == Init /\ [][Next]_vars
=============================================================================
