--------------------------- MODULE MCU124Orderbook --------------------------
(* Small constants for U124Orderbook.                                      *)
EXTENDS U124OrderbookProps

CONSTANT Rival      \* a third seller, who competes for the orders of the two

Sell(side, x, y, deadline, nonce) ==
    [kind |-> 1, side |-> side, x |-> x, y |-> y, deadline |-> deadline, nonce |-> nonce]

(* Two pairs that cross, one with a surplus; the other two pairs miss the  *)
(* limit of one seller each.                                               *)
SmallSells ==
    {Sell(0, 1, 1, 0, 1), Sell(0, 2, 2, 1, 2), Sell(1, 1, 1, 1, 1), Sell(1, 3, 2, 0, 2)}
SmallPayments == {Purse(2, 1, 1)}

(* BOUND: with three sellers there is one checkpoint, one order of each,   *)
(* and nobody pays more than that order needs.                             *)
FewActs ==
    order[Rival].nonce > 0 =>
        /\ checkpoint = 0
        /\ \A p \in Payers : sent[p]["fee"] <= FeeEscrow /\ order[p].nonce <= 1
=============================================================================
