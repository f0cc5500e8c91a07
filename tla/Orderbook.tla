----------------------------- MODULE Orderbook ------------------------------
(***************************************************************************)
(* The exact-fill limit-order book of orderbook/contract/src/main.psy.rs   *)
(* around one escrow account: orders and payments of the sellers, and the  *)
(* complete stacks the escrow's circuit (orderbook/sdkey-circuit/src/      *)
(* lib.rs) admits, each one transaction: the contract's guard, the claims, *)
(* the transfers and the burn of the fee.                                  *)
(*                                                                         *)
(* A transaction is proved against one checkpoint and reads the partitions *)
(* of others there; they may have changed since.  The caller's own leaf    *)
(* must still be the one of that checkpoint, so a proof of a user who has  *)
(* transacted since is worth nothing (DESIGN.md 9; PRODUCTION_READINESS).  *)
(* views and seen hold what the proofs of the escrow and of each seller    *)
(* may still read: the snapshots since their own last transaction.         *)
(*                                                                         *)
(* A definition whose comment starts with "Faulty" is the next one with a  *)
(* plausible mistake.  Nothing uses it; it shows that a property notices.  *)
(***************************************************************************)
EXTENDS Integers

CONSTANTS
    Sellers,        \* users other than the escrow
    Careless,       \* the sellers that also call outside the clients' stacks
    AmountCap,      \* largest amount of an order
    FeeEscrow,      \* PSY a seller adds for the fee of its settlement
    Fees,           \* what the network may burn
    Orders,         \* bound: the orders sellers sign
    Payments,       \* bound: the payments careless sellers make
    MaxSent,        \* bound: the lifetime totals they reach
    MaxCheckpoint   \* bound: checkpoints

OrderFields == [kind : {1}, asset : Nat, amount : Nat, minBuy : Nat, deadline : Nat, nonce : Nat]

ASSUME OrderbookAssumption ==
    /\ Careless \subseteq Sellers
    /\ AmountCap \in Nat /\ MaxCheckpoint \in Nat /\ MaxSent \in Nat
    /\ FeeEscrow \in Nat \ {0} /\ Fees \subseteq 0..FeeEscrow
    /\ Orders \subseteq OrderFields
    /\ Payments \subseteq [psy : Nat, usdt : Nat]

PSY == 0
PUSDT == 4

VARIABLES
    checkpoint,     \* the latest checkpoint
    order,          \* order[s]: the slot in s's partition
    psy_sent, usdt_sent,        \* lifetime totals the sellers sent the escrow
    psy_claimed, usdt_claimed,  \* lifetime totals the escrow claimed
    psy_paid, usdt_paid,        \* lifetime totals the escrow sent the sellers
    psy_balance, usdt_balance,  \* what the escrow holds
    consumed,       \* active_consumed_nonce
    settled_psy, settled_usdt,  \* active_settled_psy_sent, active_settled_usdt_sent
    views,          \* what a proof of the escrow may read of the sellers
    seen            \* seen[s]: what a proof of s may read of the escrow

sellerVars == <<order, psy_sent, usdt_sent>>
tokenVars  == <<psy_claimed, usdt_claimed, psy_paid, usdt_paid, psy_balance, usdt_balance>>
cursorVars == <<consumed, settled_psy, settled_usdt>>
vars == <<checkpoint, sellerVars, tokenVars, cursorVars, views, seen>>

-----------------------------------------------------------------------------
NoOrder == [kind |-> 0, asset |-> PSY, amount |-> 0, minBuy |-> 0, deadline |-> 0, nonce |-> 0]

Snapshot(c, o, p, u) == [checkpoint |-> c, order |-> o, psy |-> p, usdt |-> u]
Receipt(c, p, u) == [checkpoint |-> c, psy |-> p, usdt |-> u]

Zero == [s \in Sellers |-> 0]

Init ==
    /\ checkpoint = 0
    /\ order = [s \in Sellers |-> NoOrder]
    /\ psy_sent = Zero /\ usdt_sent = Zero
    /\ psy_claimed = Zero /\ usdt_claimed = Zero
    /\ psy_paid = Zero /\ usdt_paid = Zero
    /\ psy_balance = 0 /\ usdt_balance = 0
    /\ consumed = Zero /\ settled_psy = Zero /\ settled_usdt = Zero
    /\ views = {Snapshot(0, order, psy_sent, usdt_sent)}
    /\ seen = [s \in Sellers |-> {Receipt(0, 0, 0)}]

-----------------------------------------------------------------------------
(* A transaction of s: its old proofs are void, and the escrow's may read  *)
(* what it left.                                                           *)
SellerMoves(s) ==
    /\ views' = views \cup {Snapshot(checkpoint, order', psy_sent', usdt_sent')}
    /\ seen' = [seen EXCEPT ![s] = {Receipt(checkpoint, psy_claimed[s], usdt_claimed[s])}]
    /\ UNCHANGED <<checkpoint, tokenVars, cursorVars>>

(* A transaction of the escrow: the same from the other side.              *)
EscrowMoves ==
    /\ views' = {Snapshot(checkpoint, order, psy_sent, usdt_sent)}
    /\ seen' = [s \in Sellers |-> seen[s] \cup {Receipt(checkpoint, psy_claimed'[s], usdt_claimed'[s])}]
    /\ UNCHANGED <<checkpoint, sellerVars>>

(* Faulty: an active order may be replaced.                              *)
OpensOver(s, o) ==
    /\ o.asset \in {PSY, PUSDT}
    /\ o.amount \in 1..AmountCap /\ o.minBuy \in 1..AmountCap
    /\ \E r \in seen[s] : o.deadline >= r.checkpoint
    /\ o.nonce > order[s].nonce
    /\ order' = [order EXCEPT ![s] = o]

(* open_sell: the slot must be free and the nonce new.                     *)
Opens(s, o) ==
    /\ o.asset \in {PSY, PUSDT}
    /\ o.amount \in 1..AmountCap /\ o.minBuy \in 1..AmountCap
    /\ \E r \in seen[s] : o.deadline >= r.checkpoint
    /\ o.nonce > order[s].nonce
    /\ order[s].kind = 0
    /\ order' = [order EXCEPT ![s] = o]

Pays(s, psy, usdt) ==
    /\ psy_sent' = [psy_sent EXCEPT ![s] = @ + psy]
    /\ usdt_sent' = [usdt_sent EXCEPT ![s] = @ + usdt]

(* What an order's owner sends with it.                                    *)
PsyDue(o) == IF o.asset = PSY THEN o.amount + FeeEscrow ELSE FeeEscrow
UsdtDue(o) == IF o.asset = PUSDT THEN o.amount ELSE 0

(* The clients' stack: the order and its payments in one transaction.      *)
OpenSell(s, o) ==
    /\ Opens(s, o)
    /\ Pays(s, PsyDue(o), UsdtDue(o))
    /\ SellerMoves(s)

(* The order alone, and payments alone.                                    *)
OpenUnfunded(s, o) ==
    /\ s \in Careless
    /\ Opens(s, o)
    /\ UNCHANGED <<psy_sent, usdt_sent>>
    /\ SellerMoves(s)

Pay(s, payment) ==
    /\ s \in Careless
    /\ psy_sent[s] + payment.psy <= MaxSent /\ usdt_sent[s] + payment.usdt <= MaxSent
    /\ Pays(s, payment.psy, payment.usdt)
    /\ UNCHANGED order
    /\ SellerMoves(s)

(* Faulty: only the asset of the fee is compared.                        *)
NoFeeUnclaimed(s, r) == psy_sent[s] = r.psy

(* close_psy_order, close_usdt_order: everything the seller sent was       *)
(* claimed, in the asset of the fee and in the one it sells.               *)
NothingUnclaimed(s, r) ==
    /\ psy_sent[s] = r.psy
    /\ order[s].asset = PUSDT => usdt_sent[s] = r.usdt

CloseOrder(s) ==
    /\ order[s].kind = 1
    /\ \E r \in seen[s] : NothingUnclaimed(s, r)
    /\ order' = [order EXCEPT ![s].kind = 0]
    /\ UNCHANGED <<psy_sent, usdt_sent>>
    /\ SellerMoves(s)

-----------------------------------------------------------------------------
(* Faulty: a settled nonce is good again.                                *)
IsThere(v, s, asset) == v.order[s].kind = 1 /\ v.order[s].asset = asset

(* The escrow's view v shows an order of s for asset that was not settled. *)
IsOpen(v, s, asset) ==
    /\ v.order[s].kind = 1
    /\ v.order[s].asset = asset
    /\ v.order[s].nonce > consumed[s]

(* Since the cursors moved last, s has sent exactly what its order needs.  *)
IsFunded(v, s) ==
    /\ v.psy[s] = settled_psy[s] + PsyDue(v.order[s])
    /\ v.order[s].asset = PUSDT => v.usdt[s] = settled_usdt[s] + UsdtDue(v.order[s])

(* Faulty: the pUSDT cursor is forgotten.                                *)
SettlePsy(v, all, usdtSide) ==
    /\ consumed' = [s \in Sellers |-> IF s \in all THEN v.order[s].nonce ELSE consumed[s]]
    /\ settled_psy' = [s \in Sellers |-> IF s \in all THEN v.psy[s] ELSE settled_psy[s]]
    /\ UNCHANGED settled_usdt

(* The cursors are set to what the view shows.                             *)
Settle(v, all, usdtSide) ==
    /\ consumed' = [s \in Sellers |-> IF s \in all THEN v.order[s].nonce ELSE consumed[s]]
    /\ settled_psy' = [s \in Sellers |-> IF s \in all THEN v.psy[s] ELSE settled_psy[s]]
    /\ settled_usdt' = [s \in Sellers |-> IF s \in usdtSide THEN v.usdt[s] ELSE settled_usdt[s]]

(* simple_claim of each token: only news, and all of it.                   *)
Claims(v, all, usdtSide) ==
    /\ \A s \in all : v.psy[s] > psy_claimed[s]
    /\ \A s \in usdtSide : v.usdt[s] > usdt_claimed[s]
    /\ psy_claimed' = [s \in Sellers |-> IF s \in all THEN v.psy[s] ELSE psy_claimed[s]]
    /\ usdt_claimed' = [s \in Sellers |-> IF s \in usdtSide THEN v.usdt[s] ELSE usdt_claimed[s]]

(* The transfers of a stack and the burn of its fee, out of what the       *)
(* claims brought and the escrow had.                                      *)
Spends(psyIn, psyOut, usdtIn, usdtOut, fee) ==
    /\ psyOut + fee <= psy_balance + psyIn
    /\ usdtOut <= usdt_balance + usdtIn
    /\ psy_balance' = psy_balance + psyIn - psyOut - fee
    /\ usdt_balance' = usdt_balance + usdtIn - usdtOut

PsyIn(v, s) == v.psy[s] - psy_claimed[s]
UsdtIn(v, s) == v.usdt[s] - usdt_claimed[s]

Crosses(a, b) == b.amount >= a.minBuy /\ a.amount >= b.minBuy

MatchGuard(v, p, u) ==
    /\ p # u
    /\ IsOpen(v, p, PSY) /\ IsOpen(v, u, PUSDT)
    /\ Crosses(v.order[p], v.order[u])
    /\ v.checkpoint <= v.order[p].deadline /\ v.checkpoint <= v.order[u].deadline
    /\ IsFunded(v, p) /\ IsFunded(v, u)

(* Branch 1: match_orders, three claims, two transfers, the burn.          *)
MatchOrders(v, p, u, fee) ==
    LET a == v.order[p].amount
        b == v.order[u].amount
    IN /\ MatchGuard(v, p, u)
       /\ Settle(v, {p, u}, {u})
       /\ Claims(v, {p, u}, {u})
       /\ Spends(PsyIn(v, p) + PsyIn(v, u), a + FeeEscrow, UsdtIn(v, u), b, fee)
       /\ psy_paid' = [psy_paid EXCEPT ![u] = @ + a + FeeEscrow]
       /\ usdt_paid' = [usdt_paid EXCEPT ![p] = @ + b]
       /\ EscrowMoves

(* Branch 2: cancel_psy_order, the claim, the refund, the burn.            *)
CancelPsyOrder(v, s, fee) ==
    LET a == v.order[s].amount
    IN /\ IsOpen(v, s, PSY) /\ IsFunded(v, s)
       /\ Settle(v, {s}, {})
       /\ Claims(v, {s}, {})
       /\ Spends(PsyIn(v, s), a, 0, 0, fee)
       /\ psy_paid' = [psy_paid EXCEPT ![s] = @ + a]
       /\ UNCHANGED usdt_paid
       /\ EscrowMoves

(* Branch 3: cancel_usdt_order, two claims, the refund, the burn.          *)
CancelUsdtOrder(v, s, fee) ==
    LET a == v.order[s].amount
    IN /\ IsOpen(v, s, PUSDT) /\ IsFunded(v, s)
       /\ Settle(v, {s}, {s})
       /\ Claims(v, {s}, {s})
       /\ Spends(PsyIn(v, s), 0, UsdtIn(v, s), a, fee)
       /\ usdt_paid' = [usdt_paid EXCEPT ![s] = @ + a]
       /\ UNCHANGED psy_paid
       /\ EscrowMoves

(* A new checkpoint, readable by everyone's proofs.                        *)
NewCheckpoint ==
    /\ checkpoint < MaxCheckpoint
    /\ checkpoint' = checkpoint + 1
    /\ views' = views \cup {Snapshot(checkpoint', order, psy_sent, usdt_sent)}
    /\ seen' = [s \in Sellers |-> seen[s] \cup {Receipt(checkpoint', psy_claimed[s], usdt_claimed[s])}]
    /\ UNCHANGED <<sellerVars, tokenVars, cursorVars>>

-----------------------------------------------------------------------------
Seller(s) ==
    \/ \E o \in Orders : OpenSell(s, o) \/ OpenUnfunded(s, o)
    \/ \E payment \in Payments : Pay(s, payment)
    \/ CloseOrder(s)

Escrow ==
    \E v \in views, s \in Sellers, fee \in Fees :
        \/ \E u \in Sellers : MatchOrders(v, s, u, fee)
        \/ CancelPsyOrder(v, s, fee)
        \/ CancelUsdtOrder(v, s, fee)

Next == (\E s \in Sellers : Seller(s)) \/ Escrow \/ NewCheckpoint

Spec == Init /\ [][Next]_vars
=============================================================================
