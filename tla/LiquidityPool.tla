---------------------------- MODULE LiquidityPool ---------------------------
(***************************************************************************)
(* What the pool promises: payers keep one order each and deposits with    *)
(* the pool, and the pool acts on the orders and deposits of the moment.   *)
(* It trades at any price that is fair to those who own it, issues and     *)
(* redeems shares of it, or gives a deposit back.                          *)
(***************************************************************************)
EXTENDS Integers

CONSTANTS Payers, FeeEscrow

VARIABLES
    order,          \* order[p]: the payer's slot
    deposit,        \* deposit[p][c]: what the pool owes an order or a refund for
    paid,           \* paid[p][c]: lifetime total it paid
    consumed,       \* the last nonce it settled
    reserve_a, reserve_b, total_shares, shares

poolState == <<reserve_a, reserve_b, total_shares, shares>>
lpVars == <<order, deposit, paid, consumed, poolState>>

Assets(fee, a, b) == [c \in {"fee", "a", "b"} |-> IF c = "fee" THEN fee ELSE IF c = "a" THEN a ELSE b]
Nothing == Assets(0, 0, 0)

PoolInit ==
    /\ \A p \in Payers : order[p].kind = 0 /\ order[p].nonce = 0
    /\ deposit = [p \in Payers |-> Nothing] /\ paid = [p \in Payers |-> Nothing]
    /\ consumed = [p \in Payers |-> 0]
    /\ reserve_a = 0 /\ reserve_b = 0 /\ total_shares = 0
    /\ shares = [p \in Payers |-> 0]

(* A payer deposits, and opens an order if it has none.                    *)
Deposit(p) ==
    /\ deposit' = [deposit EXCEPT ![p] = deposit'[p]]
    /\ \A c \in {"fee", "a", "b"} : deposit'[p][c] >= deposit[p][c]
    /\ \/ order' = order
       \/ /\ order[p].kind = 0
          /\ order' = [order EXCEPT ![p] = order'[p]]
          /\ order'[p].nonce > order[p].nonce
    /\ UNCHANGED <<paid, consumed, poolState>>

(* It leaves the slot when nothing of what the order needed is left.       *)
Leave(p) ==
    /\ order[p].kind # 0
    /\ deposit[p]["fee"] = 0
    /\ order[p].kind = 2 \/ (order[p].kind = 1 /\ order[p].side = 0) => deposit[p]["a"] = 0
    /\ order[p].kind = 2 \/ (order[p].kind = 1 /\ order[p].side = 1) => deposit[p]["b"] = 0
    /\ order' = [order EXCEPT ![p].kind = 0]
    /\ UNCHANGED <<deposit, paid, consumed, poolState>>

(* The order is done: its deposit is taken and p gets something.           *)
Done(p, taken, got) ==
    /\ order[p].nonce > consumed[p]
    /\ \A c \in {"fee", "a", "b"} : deposit[p][c] >= taken[c]
    /\ consumed' = [consumed EXCEPT ![p] = order[p].nonce]
    /\ deposit' = [deposit EXCEPT ![p] = [c \in {"fee", "a", "b"} |-> deposit[p][c] - taken[c]]]
    /\ paid' = [paid EXCEPT ![p] = [c \in {"fee", "a", "b"} |-> paid[p][c] + got[c]]]
    /\ UNCHANGED order

(* What a share of the pool is worth does not fall.                        *)
Fair == reserve_a' * reserve_b' * total_shares * total_shares
            >= reserve_a * reserve_b * total_shares' * total_shares'

Trade(p, output) ==
    LET o == order[p] IN
    /\ o.kind = 1
    /\ output >= o.y
    /\ \/ /\ o.side = 0
          /\ reserve_a' = reserve_a + o.x /\ reserve_b' = reserve_b - output
          /\ Done(p, Assets(FeeEscrow, o.x, 0), Assets(0, 0, output))
       \/ /\ o.side = 1
          /\ reserve_b' = reserve_b + o.x /\ reserve_a' = reserve_a - output
          /\ Done(p, Assets(FeeEscrow, 0, o.x), Assets(0, output, 0))
    /\ reserve_a' > 0 /\ reserve_b' > 0
    /\ Fair
    /\ UNCHANGED <<total_shares, shares>>

(* The first provider also pays for shares that nobody gets.               *)
Provide(p, minted) ==
    LET o == order[p] IN
    /\ o.kind = 2
    /\ minted >= o.z
    /\ shares' = [shares EXCEPT ![p] = @ + minted]
    /\ IF total_shares = 0 THEN total_shares' > minted ELSE total_shares' = total_shares + minted
    /\ reserve_a' = reserve_a + o.x /\ reserve_b' = reserve_b + o.y
    /\ Fair
    /\ Done(p, Assets(FeeEscrow, o.x, o.y), Nothing)

Redeem(p, a, b) ==
    LET o == order[p] IN
    /\ o.kind = 3
    /\ a >= o.y /\ b >= o.z
    /\ o.x <= shares[p] /\ o.x < total_shares
    /\ shares' = [shares EXCEPT ![p] = @ - o.x]
    /\ total_shares' = total_shares - o.x
    /\ reserve_a' = reserve_a - a /\ reserve_b' = reserve_b - b
    /\ reserve_a' > 0 /\ reserve_b' > 0
    /\ Fair
    /\ Done(p, Assets(FeeEscrow, 0, 0), Assets(0, a, b))

(* Everything but the fee is given back.                                   *)
GiveBack(p) ==
    LET o == order[p] IN
    /\ \/ o.kind = 1 /\ o.side = 0 /\ Done(p, Assets(FeeEscrow, o.x, 0), Assets(0, o.x, 0))
       \/ o.kind = 1 /\ o.side = 1 /\ Done(p, Assets(FeeEscrow, 0, o.x), Assets(0, 0, o.x))
       \/ o.kind = 2 /\ Done(p, Assets(FeeEscrow, o.x, o.y), Assets(0, o.x, o.y))
       \/ o.kind = 3 /\ Done(p, Assets(FeeEscrow, 0, 0), Nothing)
    /\ UNCHANGED poolState

PoolNext ==
    \E p \in Payers :
        \/ Deposit(p) \/ Leave(p) \/ GiveBack(p)
        \/ Trade(p, paid'[p]["b"] - paid[p]["b"]) \/ Trade(p, paid'[p]["a"] - paid[p]["a"])
        \/ Provide(p, shares'[p] - shares[p])
        \/ Redeem(p, paid'[p]["a"] - paid[p]["a"], paid'[p]["b"] - paid[p]["b"])

PoolSpec == PoolInit /\ [][PoolNext]_lpVars
=============================================================================
