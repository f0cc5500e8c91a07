----------------------------- MODULE PairExchange ---------------------------
(***************************************************************************)
(* What the two-asset orderbook promises: sellers keep one order each and  *)
(* deposits with the exchange, and the exchange acts on the orders and     *)
(* deposits of the moment.  It swaps two whole orders within both limits   *)
(* or gives one back; every act costs its orders' fees, and a swap returns *)
(* one of the two.                                                         *)
(***************************************************************************)
EXTENDS Integers

CONSTANTS Payers, FeeEscrow

VARIABLES
    order,          \* order[p]: the seller's slot
    deposit,        \* deposit[p][c]: what the exchange owes p an act for
    paid,           \* paid[p][c]: lifetime total it paid
    consumed        \* the last nonce it settled

exchangeVars == <<order, deposit, paid, consumed>>

Tokens == {"fee", "a", "b"}
Nothing == [c \in Tokens |-> 0]
Sold(o) == IF o.side = 0 THEN "a" ELSE "b"

ExchangeInit ==
    /\ \A p \in Payers : order[p].kind = 0 /\ order[p].nonce = 0
    /\ deposit = [p \in Payers |-> Nothing] /\ paid = [p \in Payers |-> Nothing]
    /\ consumed = [p \in Payers |-> 0]

(* A seller deposits, and opens an order if it has none.                   *)
Deposit(p) ==
    /\ deposit' = [deposit EXCEPT ![p] = deposit'[p]]
    /\ \A c \in Tokens : deposit'[p][c] >= deposit[p][c]
    /\ \/ order' = order
       \/ /\ order[p].kind = 0
          /\ order' = [order EXCEPT ![p] = order'[p]]
          /\ order'[p].nonce > order[p].nonce
    /\ UNCHANGED <<paid, consumed>>

(* It leaves the slot when nothing of what the order needed is left.       *)
Leave(p) ==
    /\ order[p].kind = 1
    /\ deposit[p]["fee"] = 0 /\ deposit[p][Sold(order[p])] = 0
    /\ order' = [order EXCEPT ![p].kind = 0]
    /\ UNCHANGED <<deposit, paid, consumed>>

(* An order with its deposit, and what is left of it when it is done.     *)
Live(p) ==
    /\ order[p].kind = 1 /\ order[p].nonce > consumed[p]
    /\ deposit[p]["fee"] >= FeeEscrow /\ deposit[p][Sold(order[p])] >= order[p].x

Left(p) == [deposit[p] EXCEPT !["fee"] = @ - FeeEscrow, ![Sold(order[p])] = @ - order[p].x]

Swap(pa, pb) ==
    LET oa == order[pa]  ob == order[pb] IN
    /\ Live(pa) /\ oa.side = 0
    /\ Live(pb) /\ ob.side = 1
    /\ ob.x >= oa.y /\ oa.x >= ob.y
    /\ consumed' = [consumed EXCEPT ![pa] = oa.nonce, ![pb] = ob.nonce]
    /\ deposit' = [deposit EXCEPT ![pa] = Left(pa), ![pb] = Left(pb)]
    /\ paid' = [paid EXCEPT ![pa]["b"] = @ + ob.x, ![pb]["a"] = @ + oa.x,
                            ![pb]["fee"] = @ + FeeEscrow]
    /\ UNCHANGED order

GiveBack(p) ==
    /\ Live(p)
    /\ consumed' = [consumed EXCEPT ![p] = order[p].nonce]
    /\ deposit' = [deposit EXCEPT ![p] = Left(p)]
    /\ paid' = [paid EXCEPT ![p][Sold(order[p])] = @ + order[p].x]
    /\ UNCHANGED order

ExchangeNext ==
    \E p \in Payers : Deposit(p) \/ Leave(p) \/ GiveBack(p) \/ \E q \in Payers : Swap(p, q)

ExchangeSpec == ExchangeInit /\ [][ExchangeNext]_exchangeVars
=============================================================================
