---------------------------- MODULE MCU124Curve -----------------------------
(* Small constants for U124Curve: two lots of one token for 1 and 2, and   *)
(* one lot more for the target.                                            *)
EXTENDS U124CurveProps

Order(kind, lots, expected, x, deadline, nonce) ==
    [kind |-> kind, lots |-> lots, expected_sold |-> expected, x |-> x,
     deadline |-> deadline, nonce |-> nonce]

(* Of the sales, one is quoted right and one too high.                     *)
SmallOrders ==
    {Order(1, 1, 0, 1, 1, 1), Order(1, 2, 0, 3, 1, 1), Order(1, 1, 1, 2, 0, 2),
     Order(2, 1, 1, 1, 1, 2), Order(2, 1, 1, 2, 1, 2)}

SmallPayments == {Purse(2, 3, 0), Purse(2, 0, 0)}
=============================================================================
