--------------------------- MODULE U124CurveProps ---------------------------
(***************************************************************************)
(* What the curve promises buyers, sellers and the target, for proofs of   *)
(* any age and payers that open and pay as they like.                      *)
(***************************************************************************)
EXTENDS U124Curve

Slots == [kind : 0..2, lots : 0..Cap, expected_sold : Nat, x : 0..MaxAmount,
          deadline : Nat, nonce : Nat]

(* TYPE: the sold lots are lots for sale.                                  *)
CurveType ==
    /\ phase \in 0..2
    /\ sold_lots \in 0..Cap
    /\ quote_reserve \in 0..MaxAmount
    /\ handed \in Purses

(* The whole price of n lots, twice: the reserve depends on how many lots  *)
(* are sold and not on who traded them, in which sizes and in which order. *)
TwicePriceOf(n) == 2 * Base * n + Step * n * (n - 1)

OnTheCurve ==
    /\ phase = 0 => sold_lots = 0 /\ quote_reserve = 0
    /\ phase = 1 => 2 * quote_reserve = TwicePriceOf(sold_lots)
    /\ phase = 2 => quote_reserve = 0

(* The vault holds the inventory and the reserve while the curve trades,   *)
(* and nothing before and after.                                           *)
Custody ==
    /\ vault["a"] = IF phase = 1 THEN Unit * (Cap + Liquidity - sold_lots) ELSE 0
    /\ vault["b"] = quote_reserve

(* SAFETY: in every phase the vault has what the contract believes, and    *)
(* the reserve is the price of the lots sold, to the unit.                 *)
CurveInv ==
    /\ MarketInv(Slots)
    /\ CurveType
    /\ OnTheCurve /\ Custody

(* SAFETY: the target gets nothing before the graduation, and then all of  *)
(* it once: the price of the lots sold and every other token.              *)
TargetGetsAll ==
    IF phase = 2
    THEN /\ Threshold <= sold_lots
         /\ 2 * handed["b"] = TwicePriceOf(sold_lots)
         /\ handed["a"] = Unit * (Cap + Liquidity - sold_lots)
    ELSE handed = Empty

-----------------------------------------------------------------------------
Due(o) == IF o.kind = 1 THEN BuyDue(o) ELSE SellDue(o)

(* p's order was traded at the price it signed, for the lots it expected,  *)
(* or came back.                                                           *)
OnSignedTerms(p) ==
    LET o == order[p]
        moved == sold_lots' - sold_lots
    IN  /\ o.kind # 0
        /\ consumed[p] < o.nonce /\ consumed'[p] = o.nonce
        /\ \A c \in Coins : Took(p, c) = Due(o)[c]
        /\ \/ /\ o.kind = 1 /\ o.expected_sold = sold_lots /\ moved = o.lots
              /\ Got(p, "a") = Unit * o.lots /\ Got(p, "b") = 0
           \/ /\ o.kind = 2 /\ o.expected_sold = sold_lots /\ moved = -o.lots
              /\ Got(p, "a") = 0 /\ Got(p, "b") = o.x
           \/ /\ moved = 0
              /\ Got(p, "a") = Due(o)["a"] /\ Got(p, "b") = Due(o)["b"]

(* ACTION: the vault takes or pays a payer's money only for its present    *)
(* order, once for a nonce, all of its deposit and nothing else, and at    *)
(* the quote it signed or not at all.  What the issuer pays without an     *)
(* order starts and ends the trading.                                      *)
SettledOnSignedTerms ==
    [][\A p \in Payers :
        (claimed'[p] # claimed[p] \/ paid'[p] # paid[p])
            => OnSignedTerms(p) \/ (p = Issuer /\ paid' = paid /\ phase' = phase + 1)]_vars

CanRefund(p) ==
    /\ IsOpen(Now, p, order[p].kind)
    /\ Refundable
    /\ IsFunded(Now, p, Due(order[p]))

CanClose(p) ==
    NothingUnsettled(p, Receipt(checkpoint, settled[p]),
                     {c \in Coins : c = "fee" \/ Due(order[p])[c] > 0})

(* SAFETY: a payer that uses the clients' stacks never has an order that   *)
(* neither the vault can refund nor the payer close, once the curve was    *)
(* funded: however stale its quote, and after the graduation too.          *)
NothingStuck ==
    \A p \in Payers \ Careless :
        phase # 0 /\ order[p].kind # 0 => CanRefund(p) \/ CanClose(p)
=============================================================================
