---------------------------- MODULE LimitExchange ---------------------------
(***************************************************************************)
(* What the orderbook promises: sellers keep one order each and deposits   *)
(* with the exchange, and the exchange acts on the orders and deposits of  *)
(* the moment.  It swaps two orders that cross, or gives one back; a       *)
(* seller may leave the slot when nothing of its deposit is left.          *)
(***************************************************************************)
EXTENDS Integers

CONSTANTS Sellers, FeeEscrow

PSY == 0
PUSDT == 4

VARIABLES
    order,          \* order[s]: the seller's slot
    psy_deposit, usdt_deposit,  \* what the exchange owes an order or a refund for
    psy_paid, usdt_paid,        \* lifetime totals it paid the sellers
    consumed        \* the last nonce it settled

exchangeVars == <<order, psy_deposit, usdt_deposit, psy_paid, usdt_paid, consumed>>

ExchangeInit ==
    /\ \A s \in Sellers : order[s].kind = 0 /\ order[s].nonce = 0
    /\ psy_deposit = [s \in Sellers |-> 0] /\ usdt_deposit = [s \in Sellers |-> 0]
    /\ psy_paid = [s \in Sellers |-> 0] /\ usdt_paid = [s \in Sellers |-> 0]
    /\ consumed = [s \in Sellers |-> 0]

Keeps == UNCHANGED <<psy_deposit, usdt_deposit, psy_paid, usdt_paid, consumed>>

(* A seller deposits, and opens an order if it has none.                   *)
Deposit(s) ==
    /\ psy_deposit' = [psy_deposit EXCEPT ![s] = psy_deposit'[s]]
    /\ usdt_deposit' = [usdt_deposit EXCEPT ![s] = usdt_deposit'[s]]
    /\ psy_deposit'[s] >= psy_deposit[s] /\ usdt_deposit'[s] >= usdt_deposit[s]
    /\ \/ order' = order
       \/ /\ order[s].kind = 0
          /\ order' = [order EXCEPT ![s] = order'[s]]
          /\ order'[s].nonce > order[s].nonce
    /\ UNCHANGED <<psy_paid, usdt_paid, consumed>>

Leave(s) ==
    /\ order[s].kind = 1
    /\ psy_deposit[s] = 0
    /\ order[s].asset = PUSDT => usdt_deposit[s] = 0
    /\ order' = [order EXCEPT ![s].kind = 0]
    /\ Keeps

Live(s, asset) == order[s].kind = 1 /\ order[s].asset = asset /\ order[s].nonce > consumed[s]

(* Both get the other's amount, the seller of pUSDT its fee as well.       *)
Swap(p, u) ==
    /\ Live(p, PSY) /\ Live(u, PUSDT)
    /\ order[u].amount >= order[p].minBuy /\ order[p].amount >= order[u].minBuy
    /\ psy_deposit[p] >= order[p].amount + FeeEscrow
    /\ psy_deposit[u] >= FeeEscrow /\ usdt_deposit[u] >= order[u].amount
    /\ consumed' = [consumed EXCEPT ![p] = order[p].nonce, ![u] = order[u].nonce]
    /\ psy_deposit' = [psy_deposit EXCEPT ![p] = @ - order[p].amount - FeeEscrow, ![u] = @ - FeeEscrow]
    /\ usdt_deposit' = [usdt_deposit EXCEPT ![u] = @ - order[u].amount]
    /\ psy_paid' = [psy_paid EXCEPT ![u] = @ + order[p].amount + FeeEscrow]
    /\ usdt_paid' = [usdt_paid EXCEPT ![p] = @ + order[u].amount]
    /\ UNCHANGED order

(* The amount is paid back, the fee is not.                                *)
GiveBack(s) ==
    /\ consumed' = [consumed EXCEPT ![s] = order[s].nonce]
    /\ \/ /\ Live(s, PSY)
          /\ psy_deposit[s] >= order[s].amount + FeeEscrow
          /\ psy_deposit' = [psy_deposit EXCEPT ![s] = @ - order[s].amount - FeeEscrow]
          /\ psy_paid' = [psy_paid EXCEPT ![s] = @ + order[s].amount]
          /\ UNCHANGED <<usdt_deposit, usdt_paid>>
       \/ /\ Live(s, PUSDT)
          /\ psy_deposit[s] >= FeeEscrow /\ usdt_deposit[s] >= order[s].amount
          /\ psy_deposit' = [psy_deposit EXCEPT ![s] = @ - FeeEscrow]
          /\ usdt_deposit' = [usdt_deposit EXCEPT ![s] = @ - order[s].amount]
          /\ usdt_paid' = [usdt_paid EXCEPT ![s] = @ + order[s].amount]
          /\ UNCHANGED psy_paid
    /\ UNCHANGED order

ExchangeNext ==
    \E s \in Sellers : Deposit(s) \/ Leave(s) \/ GiveBack(s) \/ \E u \in Sellers : Swap(s, u)

ExchangeSpec == ExchangeInit /\ [][ExchangeNext]_exchangeVars
=============================================================================
