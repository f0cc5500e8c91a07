---------------------------- MODULE U124Orderbook ---------------------------
(***************************************************************************)
(* The exact-fill orderbook orderbook/u124/contract/src/main.psy.rs and    *)
(* the stacks its policy (makePolicy, market "orderbook") admits.  A seller *)
(* of asset a (side 0) or b (side 1) signs an amount x and the least y it  *)
(* takes for it; the vault matches two orders whole, in one transaction,   *)
(* or cancels one.  Unlike Orderbook, the fee is paid in a third token.    *)
(***************************************************************************)
EXTENDS U124Market

CONSTANT Sells     \* bound: the orders sellers sign

SellOrders == [kind : {1}, side : {0, 1}, x : 1..MaxAmount, y : 1..MaxAmount,
               deadline : Nat, nonce : Nat]

ASSUME BookAssumption == Sells \subseteq SellOrders

NoSell == [kind |-> 0, side |-> 0, x |-> 0, y |-> 0, deadline |-> 0, nonce |-> 0]

BookInit == MarketInit(NoSell)

-----------------------------------------------------------------------------
(* What an order's stack of the clients sends, and what its guard takes.   *)
Asset(side) == IF side = 0 THEN "a" ELSE "b"
SellOrderDue(o) == Plus(Only("fee", FeeEscrow), Only(Asset(o.side), o.x))

OpenSellOrder(p, o) == OpenUnfunded(p, o) \/ OpenFunded(p, o, SellOrderDue(o))

(* The owner frees its slot: the fee and the asset it sold are settled.    *)
Close0(p) == order[p].kind = 1 /\ order[p].side = 0 /\ Closes(p, {"fee", "a"})
Close1(p) == order[p].kind = 1 /\ order[p].side = 1 /\ Closes(p, {"fee", "b"})

-----------------------------------------------------------------------------
(* One side of a match: the order and its deposit.                         *)
SideGuard(v, p, side) ==
    /\ IsOpen(v, p, 1)
    /\ IsLive(v, p)
    /\ v.order[p].side = side
    /\ IsFunded(v, p, SellOrderDue(v.order[p]))

(* Faulty: the limit of seller b is not looked at.                         *)
CrossesA(oa, ob) == oa.y <= ob.x

(* Each gets the other's whole amount, which is at least its limit.        *)
Crosses(oa, ob) == oa.y <= ob.x /\ ob.y <= oa.x

MatchSettles(v, pa, pb) ==
    /\ consumed' = [consumed EXCEPT ![pa] = v.order[pa].nonce, ![pb] = v.order[pb].nonce]
    /\ settled' = [settled EXCEPT ![pa]["fee"] = v.sent[pa]["fee"], ![pa]["a"] = v.sent[pa]["a"],
                                  ![pb]["fee"] = v.sent[pb]["fee"], ![pb]["b"] = v.sent[pb]["b"]]

(* The four claims of the stack, each of which must bring something.       *)
MatchClaims(v, pa, pb) ==
    /\ \A c \in {"fee", "a"} : v.sent[pa][c] > claimed[pa][c]
    /\ \A c \in {"fee", "b"} : v.sent[pb][c] > claimed[pb][c]
    /\ claimed' = [claimed EXCEPT ![pa]["fee"] = v.sent[pa]["fee"], ![pa]["a"] = v.sent[pa]["a"],
                                  ![pb]["fee"] = v.sent[pb]["fee"], ![pb]["b"] = v.sent[pb]["b"]]

MatchBrought(v, pa, pb) ==
    Purse(v.sent[pa]["fee"] - claimed[pa]["fee"] + v.sent[pb]["fee"] - claimed[pb]["fee"],
          v.sent[pa]["a"] - claimed[pa]["a"], v.sent[pb]["b"] - claimed[pb]["b"])

(* Branch 1: the guard, the claims, both assets change hands, seller b     *)
(* gets its fee back, and the network's fee is burned out of the other.    *)
MatchOrders(v, pa, pb, fee) ==
    LET a == v.order[pa].x
        b == v.order[pb].x
        in == MatchBrought(v, pa, pb)
        out == Purse(FeeEscrow + fee, a, b)
    IN
    /\ pa # pb
    /\ SideGuard(v, pa, 0) /\ SideGuard(v, pb, 1)
    /\ Crosses(v.order[pa], v.order[pb])
    /\ MatchSettles(v, pa, pb)
    /\ MatchClaims(v, pa, pb)
    /\ \A c \in Coins : out[c] <= vault[c] + in[c]
    /\ vault' = [c \in Coins |-> vault[c] + in[c] - out[c]]
    /\ paid' = [paid EXCEPT ![pa] = Plus(@, Only("b", b)),
                            ![pb] = Plus(@, Purse(FeeEscrow, a, 0))]
    /\ VaultMoves

(* Branches 2 and 3: the amount goes back, whatever the deadline.          *)
Cancel0(v, p, fee) ==
    /\ IsOpen(v, p, 1) /\ v.order[p].side = 0
    /\ Serves(v, p, SellOrderDue(v.order[p]), Only("a", v.order[p].x), fee)

Cancel1(v, p, fee) ==
    /\ IsOpen(v, p, 1) /\ v.order[p].side = 1
    /\ Serves(v, p, SellOrderDue(v.order[p]), Only("b", v.order[p].x), fee)

-----------------------------------------------------------------------------
Seller(p) ==
    \/ \E o \in Sells : OpenSellOrder(p, o)
    \/ \E payment \in Payments : Pay(p, payment)
    \/ Close0(p) \/ Close1(p)

Book(v, p, fee) ==
    \/ \E q \in Payers : MatchOrders(v, p, q, fee)
    \/ Cancel0(v, p, fee) \/ Cancel1(v, p, fee)

BookNext ==
    \/ \E p \in Payers : Seller(p)
    \/ \E v \in views, p \in Payers, fee \in Fees : Book(v, p, fee)
    \/ NewCheckpoint

BookSpec == BookInit /\ [][BookNext]_marketVars
=============================================================================
