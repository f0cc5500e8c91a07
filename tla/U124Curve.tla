------------------------------ MODULE U124Curve -----------------------------
(***************************************************************************)
(* The bonding curve bondingcurve/u124/contract/src/main.psy.rs: an issuer *)
(* funds an inventory of asset a, which is sold and bought back in lots    *)
(* for asset b at a price that rises by the lot, until the curve graduates *)
(* and hands everything to a fixed target.  An order (kind 1 buys, kind 2  *)
(* sells) names the number of lots it expects to be sold already.          *)
(***************************************************************************)
EXTENDS U124Market

CONSTANTS
    Orders,             \* bound: the orders payers sign
    Issuer,             \* who funds the inventory and the graduation
    Cap, Threshold,     \* lots for sale, and from how many it graduates
    Liquidity,          \* lots for the target
    Unit,               \* tokens in a lot
    Base, Step          \* the price of the first lot, and how it rises

CurveOrders == [kind : {1, 2}, lots : 1..Cap, expected_sold : Nat, x : 1..MaxAmount,
                deadline : Nat, nonce : Nat]

ASSUME CurveAssumption ==
    /\ Orders \subseteq CurveOrders
    /\ Issuer \in Careless
    /\ Cap \in Nat \ {0} /\ Threshold \in 1..Cap /\ Liquidity \in Nat
    /\ Unit \in Nat \ {0} /\ Base \in Nat \ {0} /\ Step \in Nat
    /\ Unit * (Cap + Liquidity) <= MaxAmount

VARIABLES
    phase,              \* 0 empty, 1 trading, 2 graduated
    sold_lots,
    quote_reserve,
    handed              \* what the target got

curveVars == <<phase, sold_lots, quote_reserve, handed>>
vars == <<marketVars, curveVars>>

NoOrder == [kind |-> 0, lots |-> 0, expected_sold |-> 0, x |-> 0, deadline |-> 0, nonce |-> 0]

Init ==
    /\ MarketInit(NoOrder)
    /\ phase = 0 /\ sold_lots = 0 /\ quote_reserve = 0
    /\ handed = Empty

-----------------------------------------------------------------------------
(* The tokens of some lots, and what an order pays in.                     *)
LotTokens(lots) == Unit * lots

SellTokens(o) == LotTokens(o.lots)

BuyDue(o) == Purse(FeeEscrow, 0, o.x)
SellDue(o) == Purse(FeeEscrow, SellTokens(o), 0)

OpenBuy(p, o) ==
    /\ o.kind = 1
    /\ OpenUnfunded(p, o) \/ OpenFunded(p, o, BuyDue(o))
    /\ UNCHANGED curveVars

OpenSell(p, o) ==
    /\ o.kind = 2
    /\ OpenUnfunded(p, o) \/ OpenFunded(p, o, SellDue(o))
    /\ UNCHANGED curveVars

CloseBuy(p) ==
    /\ order[p].kind = 1
    /\ Closes(p, {"fee", "b"})
    /\ UNCHANGED curveVars

CloseSell(p) ==
    /\ order[p].kind = 2
    /\ Closes(p, {"fee", "a"})
    /\ UNCHANGED curveVars

-----------------------------------------------------------------------------
(* A stack for the issuer, that has no order: it takes exactly what is due *)
(* and hands out to the target.                                            *)
Takes(v, due, out, fee) ==
    /\ IsFunded(v, Issuer, due)
    /\ MovesCursors(v, Issuer, due)
    /\ Claims(v, Issuer, due)
    /\ Spends(v, Issuer, due, out, fee)
    /\ UNCHANGED <<paid, consumed>>
    /\ VaultMoves

Initialize(v, fee) ==
    /\ phase = 0
    /\ Takes(v, Purse(FeeEscrow, Unit * (Cap + Liquidity), 0), Empty, fee)
    /\ phase' = 1
    /\ UNCHANGED <<sold_lots, quote_reserve, handed>>

-----------------------------------------------------------------------------
(* A sum of 2^124 or more is refused.                                      *)
Fits(n) == n \in 0..MaxAmount

(* The contract halves in the field and then asks for a short result: of   *)
(* an odd number there is none.                                            *)
IsHalf(half, n) == 2 * half = n

BuyGuard(v, p) ==
    LET o == v.order[p] IN
    /\ IsOpen(v, p, 1) /\ IsLive(v, p)
    /\ phase = 1
    /\ sold_lots + o.lots <= Cap
    /\ o.expected_sold = sold_lots

(* The steps up from the lots that are sold to those that will be.         *)
BuySlope(lots, slope) == IsHalf(slope, lots * (2 * sold_lots + lots - 1))

CurvePrice(lots, slope) == Base * lots + Step * slope

BuyPriced(o, slope) == o.x = CurvePrice(o.lots, slope)

ReserveAfterBuy(o) ==
    /\ Fits(quote_reserve + o.x)
    /\ quote_reserve' = quote_reserve + o.x

SettleBuy(v, p, fee) ==
    LET o == v.order[p] IN
    /\ BuyGuard(v, p)
    /\ \E slope \in 0..MaxAmount : BuySlope(o.lots, slope) /\ BuyPriced(o, slope)
    /\ ReserveAfterBuy(o)
    /\ sold_lots' = sold_lots + o.lots
    /\ Serves(v, p, BuyDue(o), Only("a", LotTokens(o.lots)), fee)
    /\ UNCHANGED <<phase, handed>>

(* Faulty: a quote may be stale.                                         *)
SellGuardStale(v, p) ==
    /\ IsOpen(v, p, 2) /\ IsLive(v, p)
    /\ phase = 1
    /\ v.order[p].lots <= sold_lots

SellGuard(v, p) ==
    LET o == v.order[p] IN
    /\ IsOpen(v, p, 2) /\ IsLive(v, p)
    /\ phase = 1
    /\ o.lots <= sold_lots
    /\ o.expected_sold = sold_lots

SellSlope(lots, slope) == IsHalf(slope, lots * (2 * sold_lots - lots - 1))

SellPriced(o, slope) == o.x = CurvePrice(o.lots, slope)

ReserveAfterSell(o) ==
    /\ Fits(quote_reserve - o.x)
    /\ quote_reserve' = quote_reserve - o.x

SettleSell(v, p, fee) ==
    LET o == v.order[p] IN
    /\ SellGuard(v, p)
    /\ \E slope \in 0..MaxAmount : SellSlope(o.lots, slope) /\ SellPriced(o, slope)
    /\ ReserveAfterSell(o)
    /\ sold_lots' = sold_lots - o.lots
    /\ Serves(v, p, SellDue(o), Only("b", o.x), fee)
    /\ UNCHANGED <<phase, handed>>

-----------------------------------------------------------------------------
(* Faulty: nothing is refunded once the curve graduated.                 *)
TradingOnly == phase = 1

(* A refund needs neither a deadline, nor a price, nor a trading curve.    *)
Refundable == phase \in {1, 2}

RefundBuy(v, p, fee) ==
    LET o == v.order[p] IN
    /\ IsOpen(v, p, 1)
    /\ Refundable
    /\ Serves(v, p, BuyDue(o), Only("b", o.x), fee)
    /\ UNCHANGED curveVars

RefundSell(v, p, fee) ==
    LET o == v.order[p] IN
    /\ IsOpen(v, p, 2)
    /\ Refundable
    /\ Serves(v, p, SellDue(o), Only("a", LotTokens(o.lots)), fee)
    /\ UNCHANGED curveVars

-----------------------------------------------------------------------------
GraduateGuard ==
    /\ phase = 1
    /\ Threshold <= sold_lots /\ sold_lots <= Cap
    /\ quote_reserve > 0

(* Faulty: the lots for the target are forgotten.                        *)
UnsoldOnly == Unit * (Cap - sold_lots)

GraduatedTokens == Unit * (Cap + Liquidity - sold_lots)

Graduate(v, fee) ==
    LET out == Purse(0, GraduatedTokens, quote_reserve) IN
    /\ GraduateGuard
    /\ GraduatedTokens > 0
    /\ Takes(v, Purse(FeeEscrow, 0, 0), out, fee)
    /\ handed' = Plus(handed, out)
    /\ quote_reserve' = 0
    /\ phase' = 2
    /\ UNCHANGED sold_lots

-----------------------------------------------------------------------------
Payer(p) ==
    \/ \E o \in Orders : OpenBuy(p, o) \/ OpenSell(p, o)
    \/ (\E payment \in Payments : Pay(p, payment)) /\ UNCHANGED curveVars
    \/ CloseBuy(p) \/ CloseSell(p)

Curve(v, p, fee) ==
    \/ SettleBuy(v, p, fee) \/ SettleSell(v, p, fee)
    \/ RefundBuy(v, p, fee) \/ RefundSell(v, p, fee)

Next ==
    \/ \E p \in Payers : Payer(p)
    \/ \E v \in views, p \in Payers, fee \in Fees : Curve(v, p, fee)
    \/ \E v \in views, fee \in Fees : Initialize(v, fee) \/ Graduate(v, fee)
    \/ NewCheckpoint /\ UNCHANGED curveVars

Spec == Init /\ [][Next]_vars
=============================================================================
