--------------------------- MODULE OrderbookProps ---------------------------
(***************************************************************************)
(* What the escrow promises its sellers, for proofs as old as the chain    *)
(* admits and sellers that pay and open as they like.                      *)
(***************************************************************************)
EXTENDS Orderbook

Slots == [kind : {0, 1}, asset : Nat, amount : Nat, minBuy : Nat, deadline : Nat, nonce : Nat]

Views == [checkpoint : Nat, order : [Sellers -> Slots], psy : [Sellers -> Nat], usdt : [Sellers -> Nat]]

Receipts == [checkpoint : Nat, psy : Nat, usdt : Nat]

(* TYPE: totals, balances and cursors are natural numbers, so that no      *)
(* subtraction of the contract or of a token wraps.                        *)
TypeOK ==
    /\ checkpoint \in Nat
    /\ order \in [Sellers -> Slots]
    /\ psy_sent \in [Sellers -> Nat] /\ usdt_sent \in [Sellers -> Nat]
    /\ psy_claimed \in [Sellers -> Nat] /\ usdt_claimed \in [Sellers -> Nat]
    /\ psy_paid \in [Sellers -> Nat] /\ usdt_paid \in [Sellers -> Nat]
    /\ psy_balance \in Nat /\ usdt_balance \in Nat
    /\ consumed \in [Sellers -> Nat]
    /\ settled_psy \in [Sellers -> Nat] /\ settled_usdt \in [Sellers -> Nat]
    /\ views \in SUBSET Views
    /\ seen \in [Sellers -> SUBSET Receipts]

(* The contract's cursors are what the tokens say the escrow claimed.      *)
CursorsAreClaims == psy_claimed = settled_psy /\ usdt_claimed = settled_usdt

(* Old views and receipts are lower bounds.                                *)
ProofsAreOld ==
    /\ \A s \in Sellers :
        /\ settled_psy[s] <= psy_sent[s] /\ settled_usdt[s] <= usdt_sent[s]
        /\ consumed[s] <= order[s].nonce
        /\ \A r \in seen[s] : r.psy <= settled_psy[s] /\ r.usdt <= settled_usdt[s]
    /\ \A v \in views, s \in Sellers :
        v.psy[s] <= psy_sent[s] /\ v.usdt[s] <= usdt_sent[s]

(* An order that some view shows active and paid for is still that order:  *)
(* its owner cannot have closed it, and so cannot have replaced it.        *)
PaidOrdersStay ==
    \A v \in views, s \in Sellers :
        (v.order[s].kind = 1 /\ v.psy[s] > settled_psy[s]) => order[s] = v.order[s]

(* SAFETY: the reasons a guard may trust an old view: the cursors follow   *)
(* the claims, totals only grow, and a funded order stays in its slot.     *)
OrderbookInv == TypeOK /\ CursorsAreClaims /\ ProofsAreOld /\ PaidOrdersStay

-----------------------------------------------------------------------------
Got(paid, s) == paid'[s] - paid[s]

(* The escrow settles s on the terms of the order that is in its slot now: *)
(* its nonce is new, and s gets its amount back or at least its price.     *)
OnSignedTerms(s) ==
    LET o == order[s] IN
    /\ o.kind = 1
    /\ consumed[s] < o.nonce /\ consumed'[s] = o.nonce
    /\ o.asset = PSY =>
        \/ Got(psy_paid, s) = o.amount /\ Got(usdt_paid, s) = 0
        \/ Got(psy_paid, s) = 0 /\ Got(usdt_paid, s) >= o.minBuy
    /\ o.asset = PUSDT =>
        \/ Got(usdt_paid, s) = o.amount /\ Got(psy_paid, s) = 0
        \/ Got(usdt_paid, s) = 0 /\ Got(psy_paid, s) >= o.minBuy + FeeEscrow

(* ACTION: whatever old view a match or a cancellation was proved on, it   *)
(* takes a seller's payments only against the seller's present order, once *)
(* for each nonce, and on the terms the seller signed.                     *)
SettledOnSignedTerms ==
    [][\A s \in Sellers :
        (psy_claimed'[s] # psy_claimed[s] \/ usdt_claimed'[s] # usdt_claimed[s])
            => OnSignedTerms(s)]_vars

(* SAFETY: the escrow passes every unit of pUSDT on in the transaction     *)
(* that claimed it; it keeps nothing but the change of the PSY fees.       *)
NoPrincipalIsKept == usdt_balance = 0

(* What the escrow's circuit can do for s on what is true now.             *)
Now == Snapshot(checkpoint, order, psy_sent, usdt_sent)

CanRefund(s) ==
    LET o == order[s] IN
    /\ IsOpen(Now, s, o.asset) /\ IsFunded(Now, s)
    /\ \A fee \in Fees :
        o.asset = PSY => o.amount + fee <= psy_balance + PsyIn(Now, s)

CanClose(s) == NothingUnclaimed(s, Receipt(checkpoint, psy_claimed[s], usdt_claimed[s]))

(* SAFETY: a seller that uses the clients' stacks never has an order that  *)
(* neither the escrow can refund nor the seller close.                     *)
NothingStuck ==
    \A s \in Sellers \ Careless : order[s].kind = 1 => CanRefund(s) \/ CanClose(s)

-----------------------------------------------------------------------------
(* REFINEMENT: proofs of any age implement an exchange that acts on the    *)
(* orders and deposits of the moment.                                      *)
Exchange == INSTANCE LimitExchange WITH
    psy_deposit <- [s \in Sellers |-> psy_sent[s] - settled_psy[s]],
    usdt_deposit <- [s \in Sellers |-> usdt_sent[s] - settled_usdt[s]]

ImplementsExchange == Exchange!ExchangeSpec
=============================================================================
