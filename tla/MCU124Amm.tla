----------------------------- MODULE MCU124Amm ------------------------------
(* Instances of U124Amm for TLC.                                           *)
EXTENDS U124AmmProps

Swap(side, x, y, deadline, nonce) ==
    [kind |-> 1, side |-> side, x |-> x, y |-> y, z |-> 0, deadline |-> deadline, nonce |-> nonce]
Add(x, y, z, deadline, nonce) ==
    [kind |-> 2, side |-> 0, x |-> x, y |-> y, z |-> z, deadline |-> deadline, nonce |-> nonce]
Remove(x, y, z, deadline, nonce) ==
    [kind |-> 3, side |-> 0, x |-> x, y |-> y, z |-> z, deadline |-> deadline, nonce |-> nonce]

(* Deposits that are first or in proportion, swaps of both sides and a     *)
(* removal.                                                                *)
SmallOrders ==
    {Add(4, 4, 3, 1, 1), Swap(0, 4, 1, 1, 2), Swap(1, 4, 1, 0, 2), Remove(3, 1, 1, 1, 2)}
SmallPayments == {Purse(4, 4, 0)}
=============================================================================
