-------------------------- MODULE U124OrderbookProps ------------------------
(***************************************************************************)
(* What the two-asset orderbook promises its sellers, for proofs as old as *)
(* the chain admits and sellers that open and pay as they like.            *)
(***************************************************************************)
EXTENDS U124Orderbook

(* A slot is empty, or has an order that is or was there.                  *)
BookSlots == {NoSell} \cup [kind : {0, 1}, side : {0, 1}, x : 1..MaxAmount, y : 1..MaxAmount,
                            deadline : Nat, nonce : Nat]

(* What the market of this book rests on; see U124Market.                  *)
BookInv == MarketInv(BookSlots)

-----------------------------------------------------------------------------
(* p gets its amount back, or none of it and at least its limit in the     *)
(* other asset, with its fee if it is the second seller of the match.      *)
SoldOnTerms(p) ==
    LET o == order[p]
        own == Asset(o.side)
        other == Asset(1 - o.side)
    IN  /\ o.kind = 1
        /\ consumed[p] < o.nonce /\ consumed'[p] = o.nonce
        /\ Took(p, "fee") = FeeEscrow /\ Took(p, own) = o.x /\ Took(p, other) = 0
        /\ \/ Got(p, own) = o.x /\ Got(p, other) = 0 /\ Got(p, "fee") = 0
           \/ /\ Got(p, own) = 0 /\ Got(p, other) >= o.y
              /\ Got(p, "fee") = (IF o.side = 1 THEN FeeEscrow ELSE 0)

(* ACTION: whatever old view a match or a cancellation was proved on, it   *)
(* touches a seller's money only for the seller's present order, once for  *)
(* each nonce, takes exactly that order's deposit, and keeps its limit.    *)
SellersKeepTheirTerms ==
    [][\A p \in Payers :
        (claimed'[p] # claimed[p] \/ paid'[p] # paid[p]) => SoldOnTerms(p)]_marketVars

CanCancel(p) ==
    /\ IsOpen(Now, p, 1)
    /\ IsFunded(Now, p, SellOrderDue(order[p]))
    /\ \A fee \in Fees : fee <= vault["fee"] + FeeEscrow

CanFreeSlot(p) ==
    NothingUnsettled(p, Receipt(checkpoint, settled[p]), {"fee", Asset(order[p].side)})

(* SAFETY: a seller that uses the clients' stacks never has an order that  *)
(* neither the vault can cancel nor the seller close, whatever matches it  *)
(* lost and whoever paid or opened beside it.                              *)
NoSellerStuck ==
    \A p \in Payers \ Careless : order[p].kind = 1 => CanCancel(p) \/ CanFreeSlot(p)

-----------------------------------------------------------------------------
(* REFINEMENT: proofs of any age implement an exchange that acts on the    *)
(* orders and deposits of the moment, and swaps both sides or neither.     *)
Exchange == INSTANCE PairExchange WITH
    deposit <- [p \in Payers |-> [c \in Coins |-> sent[p][c] - settled[p][c]]]

ImplementsExchange == Exchange!ExchangeSpec
=============================================================================
