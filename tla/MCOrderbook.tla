---------------------------- MODULE MCOrderbook -----------------------------
(* Instances of Orderbook for TLC.                                         *)
EXTENDS OrderbookProps

Sell(asset, amount, minBuy, deadline, nonce) ==
    [kind |-> 1, asset |-> asset, amount |-> amount, minBuy |-> minBuy,
     deadline |-> deadline, nonce |-> nonce]

(* Orders that cross and that do not, and a second order of each asset.    *)
SmallOrders ==
    {Sell(PSY, 1, 1, 0, 1), Sell(PSY, 1, 2, 1, 2), Sell(PUSDT, 1, 1, 1, 1), Sell(PUSDT, 2, 1, 0, 2)}
SmallPayments == {[psy |-> 3, usdt |-> 1]}
=============================================================================
