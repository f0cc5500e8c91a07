------------------------ MODULE U124CurveBookProofs ------------------------
(***************************************************************************)
(* Proofs about two of the U124 markets, the orderbook and the curve, for  *)
(* any payers, orders, lots, prices, fees and payments, and for proofs of  *)
(* any age.  Each rests on U124MarketProofs and neither on the other.      *)
(***************************************************************************)
EXTENDS U124OrderbookProps, U124CurveProps, U124MarketProofs

USE MarketAssumption

-----------------------------------------------------------------------------
(* The orderbook: its slots, and what an order is due.                     *)
LEMMA SellSlots ==
    /\ AreSlots(BookSlots)
    /\ NoSell \in BookSlots /\ NoSell.kind = 0 /\ NoSell.nonce = 0
    /\ Sells \subseteq BookSlots
    /\ \A o \in Sells : o.kind = 1
    /\ \A o \in BookSlots :
        /\ [o EXCEPT !.kind = 0] \in BookSlots /\ [o EXCEPT !.kind = 0].nonce = o.nonce
        /\ o.side \in {0, 1} /\ o.x \in Nat /\ o.y \in Nat /\ o.nonce \in Nat
        /\ o.kind \in {0, 1} /\ (o.kind = 1 => o.x > 0)
  <1>1. AreSlots(BookSlots) /\ NoSell \in BookSlots /\ NoSell.kind = 0 /\ NoSell.nonce = 0
    BY DEF AreSlots, BookSlots, NoSell
  <1>2. SellOrders \subseteq BookSlots
    BY DEF SellOrders, BookSlots
  <1>3. \A o \in Sells : o.kind = 1
    BY BookAssumption DEF SellOrders
  <1>4. ASSUME NEW o \in BookSlots
        PROVE  /\ [o EXCEPT !.kind = 0] \in BookSlots /\ [o EXCEPT !.kind = 0].nonce = o.nonce
               /\ o.side \in {0, 1} /\ o.x \in Nat /\ o.y \in Nat /\ o.nonce \in Nat
               /\ o.kind \in {0, 1} /\ (o.kind = 1 => o.x > 0)
    <2>1. CASE o = NoSell
      BY <2>1 DEF NoSell, BookSlots
    <2>2. CASE o # NoSell
      BY <2>2 DEF BookSlots
    <2> QED BY <2>1, <2>2
  <1> QED BY <1>1, <1>2, <1>3, <1>4, BookAssumption

LEMMA SellDueFacts ==
    ASSUME NEW o \in BookSlots
    PROVE  /\ SellOrderDue(o) \in Purses
           /\ SellOrderDue(o)["fee"] = FeeEscrow
           /\ o.side = 0 => SellOrderDue(o)["a"] = o.x /\ SellOrderDue(o)["b"] = 0
           /\ o.side = 1 => SellOrderDue(o)["a"] = 0 /\ SellOrderDue(o)["b"] = o.x
  <1>1. o.x \in Nat /\ o.side \in {0, 1} /\ FeeEscrow \in Nat
    BY SellSlots
  <1>2. "fee" \in Coins /\ Asset(o.side) \in Coins
    BY DEF Coins, Asset
  <1>3. Only("fee", FeeEscrow) \in Purses /\ Only(Asset(o.side), o.x) \in Purses
    BY <1>1, <1>2, PurseTypes
  <1>4. SellOrderDue(o) \in Purses
    BY <1>3, PurseTypes DEF SellOrderDue
  <1> QED BY <1>1, <1>4 DEF SellOrderDue, Plus, Only, Asset, Coins

LEMMA BookInitInv == BookInit => BookInv
  BY SellSlots, InitCorrect DEF BookInit, BookInv

LEMMA SellerInv ==
    ASSUME BookInv, NEW p \in Payers, Seller(p)
    PROVE  BookInv' /\ UNCHANGED vaultVars
  <1>1. UNCHANGED vaultVars
    BY DEF Seller, OpenSellOrder, OpenUnfunded, OpenFunded, Pay, Close0, Close1, Closes, PayerMoves
  <1>2. ASSUME NEW o \in Sells, OpenSellOrder(p, o) PROVE BookInv'
    <2>1. o \in BookSlots /\ AreSlots(BookSlots)
      BY SellSlots
    <2>2. SellOrderDue(o) \in Purses
      BY <2>1, SellDueFacts
    <2> QED BY <1>2, <2>1, <2>2, OpenUnfundedKeeps, OpenFundedKeeps DEF OpenSellOrder, BookInv
  <1>3. ASSUME NEW payment \in Payments, Pay(p, payment) PROVE BookInv'
    BY <1>3, SellSlots, PayKeeps DEF BookInv
  <1>4. ASSUME Close0(p) \/ Close1(p) PROVE BookInv'
    <2>1. PICK coins : "fee" \in coins /\ Closes(p, coins)
      <3>1. CASE Close0(p)
        BY <3>1 DEF Close0
      <3>2. CASE Close1(p)
        BY <3>2 DEF Close1
      <3> QED BY <1>4, <3>1, <3>2
    <2> QED BY <2>1, SellSlots, ClosesKeeps DEF BookInv
  <1> QED BY <1>1, <1>2, <1>3, <1>4 DEF Seller

-----------------------------------------------------------------------------
(* What a stack does, in terms of the orders of the moment: the seller's   *)
(* present order is settled with all that it is due, and the seller gets   *)
(* out; nobody else is touched.                                            *)
Released(p, out) ==
    /\ order[p].kind = 1 /\ consumed[p] < order[p].nonce
    /\ settled'[p] = Plus(settled[p], SellOrderDue(order[p]))
    /\ paid'[p] = Plus(paid[p], out)
    /\ consumed'[p] = order[p].nonce

KeptAsIs(p) == settled'[p] = settled[p] /\ paid'[p] = paid[p] /\ consumed'[p] = consumed[p]

GivenBack(p) ==
    /\ Released(p, Only(Asset(order[p].side), order[p].x))
    /\ \A q \in Payers \ {p} : KeptAsIs(q)

Matched(pa, pb) ==
    /\ pa # pb
    /\ order[pa].side = 0 /\ order[pb].side = 1
    /\ Crosses(order[pa], order[pb])
    /\ Released(pa, Only("b", order[pb].x))
    /\ Released(pb, Purse(FeeEscrow, order[pa].x, 0))
    /\ \A q \in Payers \ {pa, pb} : KeptAsIs(q)

BookStep ==
    /\ \/ \E p \in Payers : GivenBack(p)
       \/ \E pa, pb \in Payers : Matched(pa, pb)
    /\ UNCHANGED payerVars
    /\ BookInv'

LEMMA CancelGivesBack ==
    ASSUME BookInv, NEW v \in views, NEW p \in Payers, NEW fee \in Fees,
           Cancel0(v, p, fee) \/ Cancel1(v, p, fee)
    PROVE  GivenBack(p) /\ UNCHANGED payerVars /\ BookInv'
  <1> DEFINE o == v.order[p]
             due == SellOrderDue(o)
             out == Only(Asset(o.side), o.x)
  <1>1. v \in Views(BookSlots) /\ o \in BookSlots /\ fee \in Nat
    BY DEF BookInv, MarketInv, MarketType, Views
  <1>2. o.x \in Nat /\ o.side \in {0, 1} /\ o.nonce \in Nat /\ AreSlots(BookSlots)
    BY <1>1, SellSlots
  <1>3. due \in Purses /\ due["fee"] > 0
    BY <1>1, SellDueFacts
  <1>4. out \in Purses
    BY <1>2, PurseTypes DEF Asset
  <1>5. o.kind = 1 /\ o.nonce > consumed[p] /\ Serves(v, p, due, out, fee)
    BY DEF Cancel0, Cancel1, IsOpen, Asset
  <1> HIDE DEF due, out
  <1>6. /\ order[p] = o
        /\ settled' = [settled EXCEPT ![p] = Plus(settled[p], due)]
        /\ paid' = [paid EXCEPT ![p] = Plus(paid[p], out)]
        /\ consumed' = [consumed EXCEPT ![p] = order[p].nonce]
        /\ UNCHANGED payerVars
        /\ BookInv'
    <2> HIDE DEF o
    <2>1. v.order[p].kind # 0
      BY <1>5 DEF o
    <2> QED BY <1>1, <1>2, <1>3, <1>4, <1>5, <2>1, ServesMoves DEF BookInv, o
  <1>7. /\ settled \in [Payers -> Purses] /\ paid \in [Payers -> Purses]
        /\ consumed \in [Payers -> Nat]
    BY DEF BookInv, MarketInv, MarketType
  <1>8. Released(p, out)
    BY <1>2, <1>5, <1>6, <1>7 DEF Released, due
  <1>9. \A q \in Payers \ {p} : KeptAsIs(q)
    BY <1>6, <1>7 DEF KeptAsIs
  <1> QED BY <1>6, <1>8, <1>9 DEF GivenBack, out

(* One side of a match: an old view shows the present order, and exactly   *)
(* what it is due on top of what was settled.                              *)
LEMMA SideIsPresent ==
    ASSUME BookInv, NEW v \in views, NEW p \in Payers, NEW side \in {0, 1}, SideGuard(v, p, side)
    PROVE  /\ order[p] = v.order[p] /\ order[p] \in BookSlots
           /\ order[p].kind = 1 /\ order[p].side = side
           /\ consumed[p] < order[p].nonce /\ consumed[p] \in Nat /\ order[p].nonce \in Nat
           /\ \A c \in Coins :
                /\ settled[p][c] \in Nat /\ sent[p][c] \in Nat
                /\ settled[p][c] <= sent[p][c] /\ v.sent[p][c] <= sent[p][c]
           /\ v.sent[p]["fee"] = settled[p]["fee"] + FeeEscrow
           /\ v.sent[p][Asset(side)] = settled[p][Asset(side)] + order[p].x
  <1> DEFINE o == v.order[p]
             due == SellOrderDue(o)
  <1>1. v \in Views(BookSlots) /\ o \in BookSlots
    BY DEF BookInv, MarketInv, MarketType, Views
  <1>2. due \in Purses /\ due["fee"] = FeeEscrow /\ due[Asset(o.side)] = o.x
    BY <1>1, SellSlots, SellDueFacts DEF Asset
  <1>3. o.kind = 1 /\ o.nonce > consumed[p] /\ o.side = side /\ IsFunded(v, p, due)
    BY DEF SideGuard, IsOpen
  <1> HIDE DEF due
  <1>4. order[p] = o
    BY <1>2, <1>3, FundedIsPresent DEF BookInv
  <1>5. settled[p] \in Purses /\ sent[p] \in Purses /\ consumed[p] \in Nat /\ v.sent[p] \in Purses
    BY <1>1 DEF BookInv, MarketInv, MarketType, Views
  <1>6. \A c \in Coins :
            /\ settled[p][c] \in Nat /\ sent[p][c] \in Nat
            /\ settled[p][c] <= sent[p][c] /\ v.sent[p][c] <= sent[p][c]
    BY <1>5 DEF BookInv, MarketInv, ProofsAreOld, Purses
  <1>7. "fee" \in Coins /\ Asset(side) \in Coins
    BY DEF Asset, Coins
  <1>8. v.sent[p]["fee"] = settled[p]["fee"] + FeeEscrow
    BY <1>2, <1>3, <1>7 DEF IsFunded
  <1>9. v.sent[p][Asset(side)] = settled[p][Asset(side)] + o.x
    <2>1. CASE due[Asset(side)] > 0
      BY <1>2, <1>3, <1>7, <2>1 DEF IsFunded
    <2>2. o.x > 0
      BY <1>1, <1>3, SellSlots
    <2> QED BY <1>2, <1>3, <2>1, <2>2
  <1> QED BY <1>1, <1>3, <1>4, <1>5, <1>6, <1>8, <1>9, SellSlots

LEMMA MatchSwaps ==
    ASSUME BookInv, NEW v \in views, NEW pa \in Payers, NEW pb \in Payers, NEW fee \in Fees,
           MatchOrders(v, pa, pb, fee)
    PROVE  Matched(pa, pb) /\ UNCHANGED payerVars /\ BookInv'
  <1> DEFINE a == v.order[pa].x
             b == v.order[pb].x
             in == MatchBrought(v, pa, pb)
             out == Purse(FeeEscrow + fee, a, b)
             outA == Only("b", b)
             outB == Purse(FeeEscrow, a, 0)
  <1>1. /\ pa # pb
        /\ SideGuard(v, pa, 0) /\ SideGuard(v, pb, 1)
        /\ Crosses(v.order[pa], v.order[pb])
        /\ MatchSettles(v, pa, pb) /\ MatchClaims(v, pa, pb)
        /\ \A c \in Coins : out[c] <= vault[c] + in[c]
        /\ vault' = [c \in Coins |-> vault[c] + in[c] - out[c]]
        /\ paid' = [paid EXCEPT ![pa] = Plus(paid[pa], outA), ![pb] = Plus(paid[pb], outB)]
        /\ VaultMoves
    BY DEF MatchOrders
  <1>2. Asset(0) = "a" /\ Asset(1) = "b" /\ 0 \in {0, 1} /\ 1 \in {0, 1}
    BY DEF Asset
  <1>3. /\ order[pa] = v.order[pa] /\ order[pa] \in BookSlots
        /\ order[pa].kind = 1 /\ order[pa].side = 0
        /\ consumed[pa] < order[pa].nonce /\ order[pa].nonce \in Nat
        /\ \A c \in Coins :
             /\ settled[pa][c] \in Nat /\ sent[pa][c] \in Nat
             /\ settled[pa][c] <= sent[pa][c] /\ v.sent[pa][c] <= sent[pa][c]
        /\ v.sent[pa]["fee"] = settled[pa]["fee"] + FeeEscrow
        /\ v.sent[pa]["a"] = settled[pa]["a"] + a
    BY <1>1, <1>2, SideIsPresent
  <1>4. /\ order[pb] = v.order[pb] /\ order[pb] \in BookSlots
        /\ order[pb].kind = 1 /\ order[pb].side = 1
        /\ consumed[pb] < order[pb].nonce /\ order[pb].nonce \in Nat
        /\ \A c \in Coins :
             /\ settled[pb][c] \in Nat /\ sent[pb][c] \in Nat
             /\ settled[pb][c] <= sent[pb][c] /\ v.sent[pb][c] <= sent[pb][c]
        /\ v.sent[pb]["fee"] = settled[pb]["fee"] + FeeEscrow
        /\ v.sent[pb]["b"] = settled[pb]["b"] + b
    BY <1>1, <1>2, SideIsPresent
  <1>5. a \in Nat /\ b \in Nat /\ fee \in Nat /\ FeeEscrow \in Nat
    <2>1. a \in Nat /\ b \in Nat
      BY <1>3, <1>4, SellSlots
    <2>2. fee \in Nat /\ FeeEscrow \in Nat
      OBVIOUS
    <2> QED BY <2>1, <2>2
  <1>6. /\ settled \in [Payers -> Purses] /\ paid \in [Payers -> Purses] /\ sent \in [Payers -> Purses]
        /\ consumed \in [Payers -> Nat] /\ vault \in Purses /\ claimed = settled
    BY DEF BookInv, MarketInv, MarketType, CursorsAreClaims
  <1> DEFINE newA == Plus(settled[pa], SellOrderDue(order[pa]))
             newB == Plus(settled[pb], SellOrderDue(order[pb]))
  <1>7. /\ newA["fee"] = v.sent[pa]["fee"] /\ newA["a"] = v.sent[pa]["a"]
        /\ newA["b"] = settled[pa]["b"] /\ newA \in Purses
    <2>1. /\ SellOrderDue(order[pa]) \in Purses /\ SellOrderDue(order[pa])["fee"] = FeeEscrow
          /\ SellOrderDue(order[pa])["a"] = a /\ SellOrderDue(order[pa])["b"] = 0
      BY <1>3, SellDueFacts
    <2>2. newA \in Purses
      BY <1>6, <2>1, PurseTypes
    <2>3. settled[pa]["b"] \in Nat
      BY <1>3 DEF Coins
    <2> QED BY <1>3, <2>1, <2>2, <2>3 DEF Plus, Coins
  <1>8. /\ newB["fee"] = v.sent[pb]["fee"] /\ newB["b"] = v.sent[pb]["b"]
        /\ newB["a"] = settled[pb]["a"] /\ newB \in Purses
    <2>1. /\ SellOrderDue(order[pb]) \in Purses /\ SellOrderDue(order[pb])["fee"] = FeeEscrow
          /\ SellOrderDue(order[pb])["b"] = b /\ SellOrderDue(order[pb])["a"] = 0
      BY <1>4, SellDueFacts
    <2>2. newB \in Purses
      BY <1>6, <2>1, PurseTypes
    <2>3. settled[pb]["a"] \in Nat
      BY <1>4 DEF Coins
    <2> QED BY <1>4, <2>1, <2>2, <2>3 DEF Plus, Coins
  <1> HIDE DEF newA, newB
  <1>9. settled' = [settled EXCEPT ![pa] = newA, ![pb] = newB]
    <2>1. newA = [settled[pa] EXCEPT !["fee"] = v.sent[pa]["fee"], !["a"] = v.sent[pa]["a"]]
      BY <1>6, <1>7 DEF Purses, Coins
    <2>2. newB = [settled[pb] EXCEPT !["fee"] = v.sent[pb]["fee"], !["b"] = v.sent[pb]["b"]]
      BY <1>6, <1>8 DEF Purses, Coins
    <2> QED BY <1>1, <1>6, <2>1, <2>2 DEF MatchSettles
  <1>10. /\ settled' \in [Payers -> Purses] /\ claimed' = settled'
         /\ settled'[pa] = newA /\ settled'[pb] = newB
         /\ \A q \in Payers \ {pa, pb} : settled'[q] = settled[q]
    <2>1. claimed' = settled'
      BY <1>1, <1>6 DEF MatchSettles, MatchClaims
    <2> QED BY <1>1, <1>6, <1>7, <1>8, <1>9, <2>1
  <1>11. /\ consumed' \in [Payers -> Nat]
         /\ consumed'[pa] = order[pa].nonce /\ consumed'[pb] = order[pb].nonce
         /\ \A q \in Payers \ {pa, pb} : consumed'[q] = consumed[q]
    BY <1>1, <1>3, <1>4, <1>6 DEF MatchSettles
  <1>12. outA \in Purses /\ outB \in Purses
    <2> HIDE DEF a, b
    <2> QED BY <1>5, PurseTypes
  <1> HIDE DEF outA, outB
  <1>13. /\ paid' \in [Payers -> Purses]
         /\ paid'[pa] = Plus(paid[pa], outA) /\ paid'[pb] = Plus(paid[pb], outB)
         /\ \A q \in Payers \ {pa, pb} : paid'[q] = paid[q]
    <2>1. Plus(paid[pa], outA) \in Purses /\ Plus(paid[pb], outB) \in Purses
      BY <1>6, <1>12, PurseTypes
    <2> QED BY <1>1, <1>6, <2>1
  <1>14. vault' \in Purses
    <2>1. in \in Purses
      <3>1. /\ in["fee"] = FeeEscrow + FeeEscrow /\ in["a"] = a /\ in["b"] = b
            /\ in = Purse(in["fee"], in["a"], in["b"])
        <4>1. /\ settled[pa]["fee"] \in Nat /\ settled[pa]["a"] \in Nat
              /\ settled[pb]["fee"] \in Nat /\ settled[pb]["b"] \in Nat
          BY <1>3, <1>4 DEF Coins
        <4>2. /\ in["fee"] = v.sent[pa]["fee"] - settled[pa]["fee"] + v.sent[pb]["fee"] - settled[pb]["fee"]
              /\ in["a"] = v.sent[pa]["a"] - settled[pa]["a"]
              /\ in["b"] = v.sent[pb]["b"] - settled[pb]["b"]
          BY <1>6, PurseCoins DEF MatchBrought
        <4>3. in = Purse(in["fee"], in["a"], in["b"])
          BY DEF MatchBrought, Purse, Coins
        <4> HIDE DEF in, a, b
        <4> QED BY <1>3, <1>4, <1>5, <4>1, <4>2, <4>3
      <3> HIDE DEF in, a, b
      <3> QED BY <1>5, <3>1, PurseTypes
    <2>2. out \in Purses
      <3>1. FeeEscrow + fee \in Nat
        BY <1>5
      <3> HIDE DEF a, b
      <3> QED BY <1>5, <3>1, PurseTypes
    <2> HIDE DEF in, out
    <2> QED BY <1>1, <1>6, <2>1, <2>2 DEF Purses
  <1>15. ASSUME NEW q \in Payers
         PROVE  /\ consumed'[q] <= order[q].nonce
                /\ \A c \in Coins : settled[q][c] <= settled'[q][c] /\ settled'[q][c] <= sent[q][c]
    <2>1. CASE q = pa
      <3>1. \A c \in Coins : settled[pa][c] <= newA[c] /\ newA[c] <= sent[pa][c]
        BY <1>3, <1>5, <1>7 DEF Coins
      <3> QED BY <1>3, <1>10, <1>11, <2>1, <3>1
    <2>2. CASE q = pb
      <3>1. \A c \in Coins : settled[pb][c] <= newB[c] /\ newB[c] <= sent[pb][c]
        BY <1>4, <1>5, <1>8 DEF Coins
      <3> QED BY <1>4, <1>10, <1>11, <2>2, <3>1
    <2>3. CASE q \notin {pa, pb}
      <3>1. \A c \in Coins : settled[q][c] \in Nat /\ settled[q][c] <= sent[q][c]
        BY <1>6 DEF Purses, BookInv, MarketInv, ProofsAreOld
      <3> QED BY <1>10, <1>11, <2>3, <3>1 DEF BookInv, MarketInv, ProofsAreOld
    <2> QED BY <2>1, <2>2, <2>3
  <1>16. BookInv'
    BY <1>1, <1>10, <1>11, <1>13, <1>14, <1>15, VaultKeeps DEF BookInv
  <1>17. UNCHANGED payerVars
    BY <1>1 DEF VaultMoves
  <1>18. Released(pa, outA) /\ Released(pb, outB)
    BY <1>3, <1>4, <1>10, <1>11, <1>13 DEF Released, newA, newB
  <1>19. \A q \in Payers \ {pa, pb} : KeptAsIs(q)
    BY <1>10, <1>11, <1>13 DEF KeptAsIs
  <1> QED BY <1>1, <1>3, <1>4, <1>16, <1>17, <1>18, <1>19 DEF Matched, outA, outB

LEMMA BookSteps ==
    ASSUME BookInv, BookNext
    PROVE  /\ (\E p \in Payers : Seller(p)) \/ BookStep \/ NewCheckpoint
           /\ BookInv'
  <1>1. ASSUME NEW p \in Payers, Seller(p) PROVE BookInv'
    BY <1>1, SellerInv
  <1>2. ASSUME NEW v \in views, NEW p \in Payers, NEW fee \in Fees, Book(v, p, fee) PROVE BookStep
    <2>1. ASSUME NEW q \in Payers, MatchOrders(v, p, q, fee) PROVE BookStep
      BY <2>1, MatchSwaps DEF BookStep
    <2>2. ASSUME Cancel0(v, p, fee) \/ Cancel1(v, p, fee) PROVE BookStep
      BY <2>2, CancelGivesBack DEF BookStep
    <2> QED BY <1>2, <2>1, <2>2 DEF Book
  <1>3. ASSUME NewCheckpoint PROVE BookInv'
    BY <1>3, NewCheckpointKeeps DEF BookInv
  <1> QED BY <1>1, <1>2, <1>3 DEF BookNext, BookStep

LEMMA BookIdles == BookInv /\ UNCHANGED marketVars => BookInv'
  BY DEF BookInv, MarketInv, MarketType, CursorsAreClaims, ProofsAreOld, PaidOrdersStay,
         marketVars, payerVars, vaultVars

(* Old proofs of the sellers and of the vault are lower bounds, and a paid *)
(* order stays in its slot: what every guard of the book relies on.        *)
THEOREM BookCorrect == BookSpec => []BookInv
  <1>1. BookInv /\ [BookNext]_marketVars => BookInv'
    BY BookSteps, BookIdles
  <1> QED BY <1>1, BookInitInv, PTL DEF BookSpec

-----------------------------------------------------------------------------
(* Signed terms: what a release is in the tokens' terms.                   *)
LEMMA ReleasedMoney ==
    ASSUME BookInv, BookInv', NEW p \in Payers, NEW out \in Purses, Released(p, out)
    PROVE  \A c \in Coins : Took(p, c) = SellOrderDue(order[p])[c] /\ Got(p, c) = out[c]
  <1> DEFINE due == SellOrderDue(order[p])
  <1>1. /\ claimed = settled /\ claimed' = settled'
        /\ settled[p] \in Purses /\ paid[p] \in Purses /\ order[p] \in BookSlots
    BY DEF BookInv, MarketInv, MarketType, CursorsAreClaims
  <1>2. due \in Purses
    BY <1>1, SellDueFacts
  <1>3. settled'[p] = Plus(settled[p], due) /\ paid'[p] = Plus(paid[p], out)
    BY DEF Released
  <1> HIDE DEF due
  <1>4. ASSUME NEW c \in Coins PROVE Took(p, c) = due[c] /\ Got(p, c) = out[c]
    <2>1. settled[p][c] \in Nat /\ paid[p][c] \in Nat /\ due[c] \in Nat /\ out[c] \in Nat
      BY <1>1, <1>2 DEF Purses
    <2>2. settled'[p][c] = settled[p][c] + due[c] /\ paid'[p][c] = paid[p][c] + out[c]
      BY <1>3 DEF Plus
    <2> QED BY <1>1, <2>1, <2>2 DEF Took, Got
  <1> QED BY <1>4 DEF due

LEMMA GivenBackOnTerms ==
    ASSUME BookInv, BookInv', NEW p \in Payers, GivenBack(p)
    PROVE  SoldOnTerms(p)
  <1> DEFINE o == order[p]
             out == Only(Asset(o.side), o.x)
  <1>1. o \in BookSlots /\ o.x \in Nat /\ o.side \in {0, 1} /\ Released(p, out)
    BY SellSlots DEF BookInv, MarketInv, MarketType, GivenBack
  <1>2. out \in Purses
    <2>1. Asset(o.side) \in Coins
      BY DEF Asset, Coins
    <2> QED BY <1>1, <2>1, PurseTypes
  <1>3. \A c \in Coins : Took(p, c) = SellOrderDue(o)[c] /\ Got(p, c) = out[c]
    <2> HIDE DEF out
    <2> QED BY <1>1, <1>2, ReleasedMoney
  <1>4. /\ Took(p, "fee") = FeeEscrow /\ Took(p, Asset(o.side)) = o.x /\ Took(p, Asset(1 - o.side)) = 0
    BY <1>1, <1>3, SellDueFacts DEF Asset, Coins
  <1>5. Got(p, Asset(o.side)) = o.x /\ Got(p, Asset(1 - o.side)) = 0 /\ Got(p, "fee") = 0
    BY <1>1, <1>3 DEF Asset, Coins, Only
  <1> QED BY <1>1, <1>4, <1>5 DEF SoldOnTerms, Released

LEMMA MatchedOnTerms ==
    ASSUME BookInv, BookInv', NEW pa \in Payers, NEW pb \in Payers, Matched(pa, pb)
    PROVE  SoldOnTerms(pa) /\ SoldOnTerms(pb)
  <1> DEFINE oa == order[pa]
             ob == order[pb]
             outA == Only("b", ob.x)
             outB == Purse(FeeEscrow, oa.x, 0)
  <1>1. /\ oa \in BookSlots /\ oa.x \in Nat /\ oa.side = 0 /\ Released(pa, outA)
        /\ ob \in BookSlots /\ ob.x \in Nat /\ ob.side = 1 /\ Released(pb, outB)
        /\ oa.y <= ob.x /\ ob.y <= oa.x
    BY SellSlots DEF BookInv, MarketInv, MarketType, Matched, Crosses
  <1>2. outA \in Purses /\ outB \in Purses
    <2>1. FeeEscrow \in Nat /\ 0 \in Nat
      OBVIOUS
    <2> HIDE DEF oa, ob
    <2> QED BY <1>1, <2>1, PurseTypes
  <1>3. /\ \A c \in Coins : Took(pa, c) = SellOrderDue(oa)[c] /\ Got(pa, c) = outA[c]
        /\ \A c \in Coins : Took(pb, c) = SellOrderDue(ob)[c] /\ Got(pb, c) = outB[c]
    <2> HIDE DEF outA, outB
    <2> QED BY <1>1, <1>2, ReleasedMoney
  <1>4. /\ Took(pa, "fee") = FeeEscrow /\ Took(pa, "a") = oa.x /\ Took(pa, "b") = 0
        /\ Took(pb, "fee") = FeeEscrow /\ Took(pb, "b") = ob.x /\ Took(pb, "a") = 0
    BY <1>1, <1>3, SellDueFacts DEF Coins
  <1>5. /\ Got(pa, "fee") = 0 /\ Got(pa, "a") = 0 /\ Got(pa, "b") = ob.x
        /\ Got(pb, "fee") = FeeEscrow /\ Got(pb, "b") = 0 /\ Got(pb, "a") = oa.x
    BY <1>1, <1>3, PurseCoins DEF Coins
  <1>6. SoldOnTerms(pa)
    BY <1>1, <1>4, <1>5 DEF SoldOnTerms, Released, Asset
  <1>7. SoldOnTerms(pb)
    BY <1>1, <1>4, <1>5 DEF SoldOnTerms, Released, Asset
  <1> QED BY <1>6, <1>7

(* A seller's money moves only for its present order, once for its nonce,  *)
(* within its limit or back.                                               *)
THEOREM SellersTerms == BookSpec => SellersKeepTheirTerms
  <1>1. BookInv /\ [BookNext]_marketVars =>
            [\A p \in Payers :
                (claimed'[p] # claimed[p] \/ paid'[p] # paid[p]) => SoldOnTerms(p)]_marketVars
    <2> SUFFICES ASSUME BookInv, BookNext, NEW p \in Payers,
                        claimed'[p] # claimed[p] \/ paid'[p] # paid[p]
                 PROVE  SoldOnTerms(p)
      OBVIOUS
    <2>1. ~ UNCHANGED vaultVars
      BY DEF vaultVars
    <2>2. BookStep /\ BookInv'
      BY <2>1, BookSteps, SellerInv DEF NewCheckpoint
    <2>3. claimed = settled /\ claimed' = settled'
      BY <2>2 DEF BookInv, MarketInv, CursorsAreClaims
    <2>4. ~ KeptAsIs(p)
      BY <2>3 DEF KeptAsIs
    <2>5. ASSUME NEW q \in Payers, GivenBack(q) PROVE SoldOnTerms(p)
      <3>1. q = p
        BY <2>4, <2>5 DEF GivenBack
      <3> QED BY <2>2, <2>5, <3>1, GivenBackOnTerms
    <2>6. ASSUME NEW pa \in Payers, NEW pb \in Payers, Matched(pa, pb) PROVE SoldOnTerms(p)
      <3>1. p = pa \/ p = pb
        BY <2>4, <2>6 DEF Matched
      <3> QED BY <2>2, <2>6, <3>1, MatchedOnTerms
    <2> QED BY <2>2, <2>5, <2>6 DEF BookStep
  <1> QED BY <1>1, BookCorrect, PTL DEF BookSpec, SellersKeepTheirTerms

-----------------------------------------------------------------------------
(* Nothing is stuck: what a careful seller has with the book is nothing,   *)
(* or exactly what its unsettled order needs.                              *)
HeldFor(p, c) == sent[p][c] - settled[p][c]

NothingHeld(p) == \A c \in Coins : HeldFor(p, c) = 0

WholeOrder(p) ==
    /\ order[p].kind = 1 /\ order[p].nonce > consumed[p]
    /\ \A c \in Coins : HeldFor(p, c) = SellOrderDue(order[p])[c]

CarefulSellers == \A p \in Payers \ Careless : NothingHeld(p) \/ WholeOrder(p)

LEMMA HeldForFacts ==
    ASSUME BookInv, NEW p \in Payers
    PROVE  \A c \in Coins :
                /\ sent[p][c] \in Nat /\ settled[p][c] \in Nat
                /\ HeldFor(p, c) = sent[p][c] - settled[p][c] /\ HeldFor(p, c) \in Nat
  <1>1. sent[p] \in Purses /\ settled[p] \in Purses
    BY DEF BookInv, MarketInv, MarketType
  <1>2. \A c \in Coins : sent[p][c] \in Nat /\ settled[p][c] \in Nat
    BY <1>1 DEF Purses
  <1>3. \A c \in Coins : settled[p][c] <= sent[p][c]
    BY DEF BookInv, MarketInv, ProofsAreOld
  <1> QED BY <1>2, <1>3 DEF HeldFor

LEMMA InitCarefulSellers == BookInit => CarefulSellers
  <1> SUFFICES ASSUME BookInit, NEW p \in Payers, NEW c \in Coins PROVE HeldFor(p, c) = 0
    BY DEF CarefulSellers, NothingHeld
  <1>1. sent[p] = Empty /\ settled[p] = Empty
    BY DEF BookInit, MarketInit
  <1> QED BY <1>1, PurseCoins DEF HeldFor, Empty, Purse

(* The step leaves p's money and order as they are.                        *)
LEMMA SellerUntouched ==
    ASSUME NEW p \in Payers, NothingHeld(p) \/ WholeOrder(p), sent'[p] = sent[p],
           settled'[p] = settled[p], order'[p] = order[p], consumed'[p] = consumed[p]
    PROVE  (NothingHeld(p) \/ WholeOrder(p))'
  <1>1. \A c \in Coins : HeldFor(p, c)' = HeldFor(p, c)
    BY DEF HeldFor
  <1>2. SellOrderDue(order[p])' = SellOrderDue(order[p])
    BY DEF SellOrderDue, Asset
  <1> QED BY <1>1, <1>2 DEF NothingHeld, WholeOrder

(* A release takes everything.                                             *)
LEMMA ReleasedIsEven ==
    ASSUME BookInv, BookInv', UNCHANGED payerVars, NEW p \in Payers, NEW out, Released(p, out),
           NothingHeld(p) \/ WholeOrder(p)
    PROVE  NothingHeld(p)'
  <1> DEFINE due == SellOrderDue(order[p])
  <1>1. order[p] \in BookSlots /\ sent' = sent
    BY DEF BookInv, MarketInv, MarketType, payerVars
  <1>2. due \in Purses /\ due["fee"] > 0 /\ \A c \in Coins : due[c] \in Nat
    BY <1>1, SellDueFacts DEF Purses
  <1>3. settled'[p] = Plus(settled[p], due)
    BY DEF Released
  <1> HIDE DEF due
  <1>4. \A c \in Coins : settled'[p][c] = settled[p][c] + due[c] /\ settled'[p][c] <= sent[p][c]
    BY <1>1, <1>3 DEF Plus, BookInv, MarketInv, ProofsAreOld
  <1>5. \A c \in Coins :
            /\ HeldFor(p, c) \in Nat /\ HeldFor(p, c) >= due[c]
            /\ HeldFor(p, c)' = HeldFor(p, c) - due[c]
    BY <1>1, <1>2, <1>4, HeldForFacts DEF HeldFor
  <1>6. ~ NothingHeld(p)
    <2>1. "fee" \in Coins
      BY DEF Coins
    <2> QED BY <1>2, <1>5, <2>1 DEF NothingHeld
  <1>7. \A c \in Coins : HeldFor(p, c) = due[c]
    BY <1>6 DEF WholeOrder, due
  <1>8. \A c \in Coins : HeldFor(p, c)' = 0
    BY <1>2, <1>5, <1>7
  <1> QED BY <1>8 DEF NothingHeld

LEMMA CarefulBook ==
    ASSUME BookInv, CarefulSellers, BookStep
    PROVE  CarefulSellers'
  <1>1. BookInv' /\ UNCHANGED payerVars /\ sent' = sent /\ order' = order
    BY DEF BookStep, payerVars
  <1>2. ASSUME NEW q \in Payers, KeptAsIs(q) \/ \E out : Released(q, out),
               NothingHeld(q) \/ WholeOrder(q)
        PROVE  (NothingHeld(q) \/ WholeOrder(q))'
    <2>1. CASE KeptAsIs(q)
      BY <1>1, <1>2, <2>1, SellerUntouched DEF KeptAsIs
    <2>2. CASE \E out : Released(q, out)
      BY <1>1, <1>2, <2>2, ReleasedIsEven
    <2> QED BY <1>2, <2>1, <2>2
  <1>3. \A q \in Payers : KeptAsIs(q) \/ \E out : Released(q, out)
    <2>1. ASSUME NEW p \in Payers, GivenBack(p), NEW q \in Payers
          PROVE  KeptAsIs(q) \/ \E out : Released(q, out)
      <3>1. CASE q = p
        BY <2>1, <3>1 DEF GivenBack
      <3>2. CASE q # p
        BY <2>1, <3>2 DEF GivenBack
      <3> QED BY <3>1, <3>2
    <2>2. ASSUME NEW pa \in Payers, NEW pb \in Payers, Matched(pa, pb), NEW q \in Payers
          PROVE  KeptAsIs(q) \/ \E out : Released(q, out)
      <3>1. CASE q = pa
        BY <2>2, <3>1 DEF Matched
      <3>2. CASE q = pb
        BY <2>2, <3>2 DEF Matched
      <3>3. CASE q \notin {pa, pb}
        BY <2>2, <3>3 DEF Matched
      <3> QED BY <3>1, <3>2, <3>3
    <2> QED BY <2>1, <2>2 DEF BookStep
  <1> QED BY <1>2, <1>3 DEF CarefulSellers

LEMMA CarefulSeller ==
    ASSUME BookInv, CarefulSellers, NEW p \in Payers, Seller(p)
    PROVE  CarefulSellers'
  <1>1. settled' = settled /\ consumed' = consumed
    BY SellerInv DEF vaultVars
  <1>2. sent \in [Payers -> Purses] /\ order \in [Payers -> BookSlots]
    BY DEF BookInv, MarketInv, MarketType
  <1>3. \A q \in Payers : q # p => sent'[q] = sent[q] /\ order'[q] = order[q]
    <2>1. \/ sent' = sent \/ \E purse : sent' = [sent EXCEPT ![p] = Plus(sent[p], purse)]
      BY DEF Seller, OpenSellOrder, OpenFunded, OpenUnfunded, Pay, Pays, Close0, Close1, Closes
    <2>2. \/ order' = order \/ \E o : order' = [order EXCEPT ![p] = o]
      BY DEF Seller, OpenSellOrder, OpenFunded, OpenUnfunded, Pay, Opens, Close0, Close1, Closes
    <2> QED BY <1>2, <2>1, <2>2
  <1>4. ASSUME p \notin Careless PROVE (NothingHeld(p) \/ WholeOrder(p))'
    <2>0. order[p] \in BookSlots /\ order[p].nonce \in Nat
      BY <1>2, SellSlots
    <2>1. NothingHeld(p) \/ WholeOrder(p)
      BY <1>4 DEF CarefulSellers
    <2>2. ASSUME NEW o \in Sells, OpenSellOrder(p, o) PROVE WholeOrder(p)'
      <3>1. o \in BookSlots /\ o.kind = 1 /\ o.nonce \in Nat
        BY SellSlots
      <3>2. Opens(p, o) /\ Pays(p, SellOrderDue(o))
        BY <1>4, <2>2 DEF OpenSellOrder, OpenUnfunded, OpenFunded
      <3>3. /\ NothingHeld(p) /\ order'[p] = o /\ o.nonce > order[p].nonce
            /\ sent'[p] = Plus(sent[p], SellOrderDue(o))
        BY <1>2, <2>1, <3>2 DEF Opens, Pays, WholeOrder
      <3>4. consumed[p] <= order[p].nonce /\ consumed[p] \in Nat
        BY DEF BookInv, MarketInv, MarketType, ProofsAreOld
      <3>5. ASSUME NEW c \in Coins PROVE HeldFor(p, c)' = SellOrderDue(o)[c]
        <4>1. /\ sent[p][c] \in Nat /\ settled[p][c] \in Nat /\ SellOrderDue(o)[c] \in Nat
              /\ sent[p][c] - settled[p][c] = 0
          BY <3>1, <3>3, HeldForFacts, SellDueFacts DEF NothingHeld, Purses
        <4>2. sent'[p][c] = sent[p][c] + SellOrderDue(o)[c]
          BY <3>3 DEF Plus
        <4> QED BY <1>1, <4>1, <4>2 DEF HeldFor
      <3>6. SellOrderDue(order[p])' = SellOrderDue(o)
        BY <3>3 DEF SellOrderDue, Asset
      <3> QED BY <1>1, <2>0, <3>1, <3>3, <3>4, <3>5, <3>6 DEF WholeOrder
    <2>3. ~ \E payment \in Payments : Pay(p, payment)
      BY <1>4 DEF Pay
    <2>4. ASSUME Close0(p) \/ Close1(p) PROVE NothingHeld(p)'
      <3>1. PICK r \in seen[p] : sent[p]["fee"] = r.settled["fee"]
        BY <2>4 DEF Close0, Close1, Closes, NothingUnsettled
      <3>2. "fee" \in Coins
        BY DEF Coins
      <3>3. r.settled["fee"] <= settled[p]["fee"]
        BY <3>2 DEF BookInv, MarketInv, ProofsAreOld
      <3>4. HeldFor(p, "fee") = 0
        <4>1. /\ sent[p]["fee"] \in Nat /\ settled[p]["fee"] \in Nat
              /\ HeldFor(p, "fee") = sent[p]["fee"] - settled[p]["fee"] /\ HeldFor(p, "fee") \in Nat
          BY <3>2, HeldForFacts
        <4> QED BY <3>1, <3>3, <4>1
      <3>5. NothingHeld(p)
        <4>1. SellOrderDue(order[p])["fee"] > 0
          BY <2>0, SellDueFacts
        <4> QED BY <2>1, <3>2, <3>4, <4>1 DEF WholeOrder
      <3>6. sent' = sent
        BY <2>4 DEF Close0, Close1, Closes
      <3> QED BY <1>1, <3>5, <3>6 DEF NothingHeld, HeldFor
    <2> QED BY <2>2, <2>3, <2>4 DEF Seller
  <1>5. ASSUME NEW q \in Payers \ Careless PROVE (NothingHeld(q) \/ WholeOrder(q))'
    <2>1. CASE q = p
      BY <1>4, <2>1
    <2>2. CASE q # p
      BY <1>1, <1>3, <2>2, SellerUntouched DEF CarefulSellers
    <2> QED BY <2>1, <2>2
  <1> QED BY <1>5 DEF CarefulSellers

LEMMA CarefulBookNext ==
    BookInv /\ CarefulSellers /\ [BookNext]_marketVars => BookInv' /\ CarefulSellers'
  <1> SUFFICES ASSUME BookInv, CarefulSellers, [BookNext]_marketVars PROVE BookInv' /\ CarefulSellers'
    OBVIOUS
  <1>1. BookInv'
    BY BookSteps, BookIdles
  <1>2. ASSUME UNCHANGED <<sent, settled, order, consumed>> PROVE CarefulSellers'
    BY <1>2, SellerUntouched DEF CarefulSellers
  <1>3. CASE NewCheckpoint
    BY <1>1, <1>2, <1>3 DEF NewCheckpoint, payerVars, vaultVars
  <1>4. CASE UNCHANGED marketVars
    BY <1>1, <1>2, <1>4 DEF marketVars, payerVars, vaultVars
  <1> QED BY <1>1, <1>3, <1>4, BookSteps, CarefulBook, CarefulSeller

(* A seller that uses the clients' stacks can always close its slot or get *)
(* its amount back.                                                        *)
THEOREM SellersUnstuck == BookSpec => []NoSellerStuck
  <1>1. BookInv /\ CarefulSellers => NoSellerStuck
    <2> SUFFICES ASSUME BookInv, CarefulSellers, NEW p \in Payers \ Careless, order[p].kind = 1
                 PROVE  CanCancel(p) \/ CanFreeSlot(p)
      BY DEF NoSellerStuck
    <2>0. order[p] \in BookSlots /\ vault["fee"] \in Nat /\ "fee" \in Coins /\ Asset(order[p].side) \in Coins
      <3>1. order[p] \in BookSlots /\ vault \in Purses
        BY DEF BookInv, MarketInv, MarketType
      <3>2. "fee" \in Coins /\ Asset(order[p].side) \in Coins
        BY DEF Coins, Asset
      <3> QED BY <3>1, <3>2 DEF Purses
    <2>1. \A c \in Coins :
            sent[p][c] \in Nat /\ settled[p][c] \in Nat /\ HeldFor(p, c) = sent[p][c] - settled[p][c]
      BY HeldForFacts
    <2>2. CASE NothingHeld(p)
      <3>1. \A c \in Coins : sent[p][c] = settled[p][c]
        BY <2>1, <2>2 DEF NothingHeld
      <3> QED BY <2>0, <3>1 DEF CanFreeSlot, NothingUnsettled, Receipt
    <2>3. CASE WholeOrder(p)
      <3>1. \A c \in Coins : sent[p][c] = settled[p][c] + SellOrderDue(order[p])[c]
        <4>1. \A c \in Coins : SellOrderDue(order[p])[c] \in Nat
          BY <2>0, SellDueFacts DEF Purses
        <4> QED BY <2>1, <2>3, <4>1 DEF WholeOrder
      <3>2. \A fee \in Fees : fee <= vault["fee"] + FeeEscrow
        BY <2>0
      <3> QED BY <2>3, <3>1, <3>2 DEF CanCancel, IsOpen, IsFunded, Now, View, WholeOrder
    <2> QED BY <2>2, <2>3 DEF CarefulSellers
  <1>2. BookSpec => [](BookInv /\ CarefulSellers)
    BY InitCarefulSellers, CarefulBookNext, BookInitInv, PTL DEF BookSpec
  <1> QED BY <1>1, <1>2, PTL

-----------------------------------------------------------------------------
(* The refinement.  A seller's deposit is what it sent and was not settled. *)
Deposits == [p \in Payers |-> [c \in Coins |-> sent[p][c] - settled[p][c]]]

LEMMA DepositFacts ==
    ASSUME BookInv, NEW p \in Payers
    PROVE  /\ Deposits[p] \in Purses
           /\ \A c \in Coins : Deposits[p][c] = HeldFor(p, c)
  <1>1. \A c \in Coins : HeldFor(p, c) \in Nat
    BY HeldForFacts
  <1>2. Deposits[p] = [c \in Coins |-> HeldFor(p, c)]
    BY DEF Deposits, HeldFor
  <1> QED BY <1>1, <1>2 DEF Purses

LEMMA BookInitMaps == BookInit => Exchange!ExchangeInit
  <1> SUFFICES ASSUME BookInit PROVE Exchange!ExchangeInit
    OBVIOUS
  <1>1. Empty = Exchange!Nothing /\ Empty = [c \in Coins |-> 0]
    BY DEF Empty, Purse, Exchange!Nothing, Exchange!Tokens, Coins
  <1>2. \A p \in Payers : sent[p] = Empty /\ settled[p] = Empty
    BY DEF BookInit, MarketInit
  <1>3. \A p \in Payers : [c \in Coins |-> sent[p][c] - settled[p][c]] = Empty
    <2>1. ASSUME NEW p \in Payers PROVE \A c \in Coins : sent[p][c] - settled[p][c] = 0
      BY <1>2, PurseCoins
    <2> QED BY <1>1, <2>1
  <1>4. Deposits = [p \in Payers |-> Empty]
    BY <1>3 DEF Deposits
  <1> QED BY <1>1, <1>4 DEF BookInit, MarketInit, NoSell, Exchange!ExchangeInit, Deposits

LEMMA SellerDeposits ==
    ASSUME BookInv, NEW p \in Payers, NEW purse \in Purses, sent' = sent \/ Pays(p, purse),
           UNCHANGED vaultVars, order' = order \/ \E o \in Sells : Opens(p, o)
    PROVE  Exchange!Deposit(p)
  <1>1. settled' = settled /\ paid' = paid /\ consumed' = consumed
    BY DEF vaultVars
  <1>2. sent \in [Payers -> Purses] /\ settled \in [Payers -> Purses] /\ order \in [Payers -> BookSlots]
    BY DEF BookInv, MarketInv, MarketType
  <1>3. ASSUME NEW c \in Coins PROVE Deposits'[p][c] >= Deposits[p][c]
    <2>1. sent[p][c] \in Nat /\ settled[p][c] \in Nat /\ purse[c] \in Nat
      BY <1>2 DEF Purses
    <2>2. sent'[p][c] = sent[p][c] \/ sent'[p][c] = sent[p][c] + purse[c]
      BY <1>2 DEF Pays, Plus
    <2> QED BY <1>1, <2>1, <2>2 DEF Deposits
  <1>4. Deposits' = [Deposits EXCEPT ![p] = Deposits'[p]]
    <2>1. \A q \in Payers : q # p => sent'[q] = sent[q]
      BY <1>2 DEF Pays
    <2> QED BY <1>1, <2>1 DEF Deposits
  <1>5. \/ order' = order
        \/ /\ order[p].kind = 0
           /\ order' = [order EXCEPT ![p] = order'[p]]
           /\ order'[p].nonce > order[p].nonce
    BY <1>2 DEF Opens
  <1> QED BY <1>1, <1>3, <1>4, <1>5 DEF Exchange!Deposit, Exchange!Tokens, Coins, Deposits

LEMMA SellerLeaves ==
    ASSUME BookInv, NEW p \in Payers, Close0(p) \/ Close1(p)
    PROVE  Exchange!Leave(p)
  <1> DEFINE own == Asset(order[p].side)
  <1>1. order[p].kind = 1 /\ own \in Coins /\ "fee" \in Coins
    BY DEF Close0, Close1, Asset, Coins
  <1>2. PICK r \in seen[p] : sent[p]["fee"] = r.settled["fee"] /\ sent[p][own] = r.settled[own]
    BY DEF Close0, Close1, Closes, NothingUnsettled, Asset
  <1>3. ASSUME NEW c \in {"fee", own} PROVE Deposits[p][c] = 0
    <2>1. c \in Coins
      BY <1>1
    <2>2. r.settled[c] <= settled[p][c] /\ sent[p][c] = r.settled[c]
      BY <1>2, <2>1 DEF BookInv, MarketInv, ProofsAreOld
    <2>3. /\ sent[p][c] \in Nat /\ settled[p][c] \in Nat
          /\ HeldFor(p, c) = sent[p][c] - settled[p][c] /\ HeldFor(p, c) \in Nat
      BY <2>1, HeldForFacts
    <2> QED BY <2>1, <2>2, <2>3, DepositFacts
  <1>4. UNCHANGED <<sent, settled, paid, consumed>> /\ order' = [order EXCEPT ![p].kind = 0]
    BY DEF Close0, Close1, Closes, PayerMoves, vaultVars
  <1>5. Deposits' = Deposits
    BY <1>4 DEF Deposits
  <1>6. Deposits[p]["fee"] = 0 /\ Deposits[p][Exchange!Sold(order[p])] = 0
    BY <1>3 DEF Exchange!Sold, Asset
  <1> QED BY <1>1, <1>4, <1>5, <1>6 DEF Exchange!Leave, Deposits

LEMMA SellerMaps ==
    ASSUME BookInv, NEW p \in Payers, Seller(p)
    PROVE  Exchange!Deposit(p) \/ Exchange!Leave(p)
  <1>1. UNCHANGED vaultVars
    BY SellerInv
  <1>2. ASSUME NEW o \in Sells, OpenSellOrder(p, o) PROVE Exchange!Deposit(p)
    <2>1. SellOrderDue(o) \in Purses
      BY SellSlots, SellDueFacts
    <2>2. Opens(p, o) /\ (sent' = sent \/ Pays(p, SellOrderDue(o)))
      BY <1>2 DEF OpenSellOrder, OpenFunded, OpenUnfunded
    <2> QED BY <1>1, <2>1, <2>2, SellerDeposits
  <1>3. ASSUME NEW payment \in Payments, Pay(p, payment) PROVE Exchange!Deposit(p)
    <2>1. payment \in Purses /\ Pays(p, payment) /\ order' = order
      BY <1>3 DEF Pay
    <2> QED BY <1>1, <2>1, SellerDeposits
  <1> QED BY <1>2, <1>3, SellerLeaves DEF Seller

(* A released order was live, and what is left of its deposit stays.       *)
LEMMA ReleasedMaps ==
    ASSUME BookInv, BookInv', UNCHANGED payerVars, NEW p \in Payers, NEW out, Released(p, out)
    PROVE  Exchange!Live(p) /\ Deposits'[p] = Exchange!Left(p)
  <1> DEFINE o == order[p]
             due == SellOrderDue(o)
             own == Asset(o.side)
  <1>1. o \in BookSlots /\ sent' = sent /\ settled[p] \in Purses
    BY DEF BookInv, MarketInv, MarketType, payerVars
  <1>2. /\ due \in Purses /\ due["fee"] = FeeEscrow /\ due[own] = o.x
        /\ \A c \in Coins : c # "fee" /\ c # own => due[c] = 0
        /\ "fee" \in Coins /\ own \in Coins /\ own # "fee"
    BY <1>1, SellSlots, SellDueFacts DEF Asset, Coins
  <1>3. settled'[p] = Plus(settled[p], due) /\ o.kind = 1 /\ o.nonce > consumed[p]
    <2>1. o.nonce \in Nat /\ consumed[p] \in Nat
      BY <1>1, SellSlots DEF BookInv, MarketInv, MarketType
    <2> QED BY <2>1 DEF Released
  <1> HIDE DEF due, own
  <1>4. ASSUME NEW c \in Coins
        PROVE  /\ Deposits[p][c] \in Nat /\ due[c] \in Nat
               /\ Deposits[p][c] >= due[c] /\ Deposits'[p][c] = Deposits[p][c] - due[c]
    <2>1. settled'[p][c] = settled[p][c] + due[c] /\ settled'[p][c] <= sent[p][c]
      BY <1>1, <1>3 DEF Plus, BookInv, MarketInv, ProofsAreOld
    <2>2. /\ sent[p][c] \in Nat /\ settled[p][c] \in Nat /\ due[c] \in Nat
          /\ Deposits[p][c] = sent[p][c] - settled[p][c]
      BY <1>2, HeldForFacts, DepositFacts DEF Purses
    <2>3. Deposits'[p][c] = sent'[p][c] - settled'[p][c]
      BY DEF Deposits
    <2> QED BY <1>1, <2>1, <2>2, <2>3
  <1>5. Exchange!Sold(o) = own
    BY DEF Exchange!Sold, Asset, own
  <1>6. Exchange!Live(p)
    BY <1>2, <1>3, <1>4, <1>5 DEF Exchange!Live, Deposits
  <1> DEFINE left == [Deposits[p] EXCEPT !["fee"] = Deposits[p]["fee"] - FeeEscrow,
                                         ![own] = Deposits[p][own] - o.x]
  <1>7. Deposits'[p] = left
    <2>1. Deposits'[p] = [c \in Coins |-> Deposits'[p][c]]
      BY DEF Deposits
    <2>2. left = [c \in Coins |-> left[c]]
      BY DepositFacts DEF Purses
    <2>3. \A c \in Coins : left[c] = Deposits[p][c] - due[c]
      <3>1. Deposits[p] \in [Coins -> Nat]
        BY DepositFacts DEF Purses
      <3> QED BY <1>2, <1>4, <3>1
    <2> HIDE DEF left
    <2> QED BY <1>4, <2>1, <2>2, <2>3
  <1>8. Exchange!Left(p) = left
    BY <1>2, <1>5 DEF Exchange!Left, Deposits
  <1> QED BY <1>6, <1>7, <1>8

LEMMA GivenBackMaps ==
    ASSUME BookInv, BookInv', UNCHANGED payerVars, NEW p \in Payers, GivenBack(p)
    PROVE  Exchange!GiveBack(p)
  <1> DEFINE o == order[p]
             own == Asset(o.side)
             out == Only(own, o.x)
  <1>1. /\ order' = order /\ sent' = sent
        /\ o \in BookSlots /\ o.x \in Nat
        /\ consumed \in [Payers -> Nat] /\ consumed' \in [Payers -> Nat]
        /\ paid \in [Payers -> Purses] /\ paid' \in [Payers -> Purses]
    BY SellSlots DEF BookInv, MarketInv, MarketType, payerVars
  <1>2. Released(p, out) /\ \A q \in Payers \ {p} : KeptAsIs(q)
    BY DEF GivenBack
  <1>3. Exchange!Live(p) /\ Deposits'[p] = Exchange!Left(p)
    <2> HIDE DEF out
    <2> QED BY <1>2, ReleasedMaps
  <1>4. Deposits' = [Deposits EXCEPT ![p] = Exchange!Left(p)]
    <2>1. \A q \in Payers \ {p} : Deposits'[q] = Deposits[q]
      BY <1>1, <1>2 DEF Deposits, KeptAsIs
    <2>2. Deposits' = [q \in Payers |-> Deposits'[q]] /\ Deposits = [q \in Payers |-> Deposits[q]]
      BY DEF Deposits
    <2> HIDE DEF Deposits
    <2> QED BY <1>3, <2>1, <2>2
  <1>5. consumed' = [consumed EXCEPT ![p] = o.nonce]
    BY <1>1, <1>2 DEF Released, KeptAsIs
  <1>6. paid' = [paid EXCEPT ![p][own] = @ + o.x]
    <2>1. own \in Coins
      BY DEF Asset, Coins
    <2>2. Plus(paid[p], out) = [paid[p] EXCEPT ![own] = @ + o.x]
      BY <1>1, <2>1 DEF Plus, Only, Purses
    <2> QED BY <1>1, <1>2, <2>2 DEF Released, KeptAsIs
  <1>7. Exchange!Sold(o) = own
    BY DEF Exchange!Sold, Asset
  <1> QED BY <1>1, <1>3, <1>4, <1>5, <1>6, <1>7 DEF Exchange!GiveBack, Deposits

LEMMA MatchedMaps ==
    ASSUME BookInv, BookInv', UNCHANGED payerVars, NEW pa \in Payers, NEW pb \in Payers, Matched(pa, pb)
    PROVE  Exchange!Swap(pa, pb)
  <1> DEFINE oa == order[pa]
             ob == order[pb]
             outA == Only("b", ob.x)
             outB == Purse(FeeEscrow, oa.x, 0)
  <1>1. /\ order' = order /\ sent' = sent
        /\ oa \in BookSlots /\ oa.x \in Nat /\ oa.y \in Nat
        /\ ob \in BookSlots /\ ob.x \in Nat /\ ob.y \in Nat
        /\ consumed \in [Payers -> Nat] /\ consumed' \in [Payers -> Nat]
        /\ paid \in [Payers -> Purses] /\ paid' \in [Payers -> Purses]
    BY SellSlots DEF BookInv, MarketInv, MarketType, payerVars
  <1>2. /\ pa # pb /\ oa.side = 0 /\ ob.side = 1 /\ oa.y <= ob.x /\ ob.y <= oa.x
        /\ Released(pa, outA) /\ Released(pb, outB)
        /\ \A q \in Payers \ {pa, pb} : KeptAsIs(q)
    BY DEF Matched, Crosses
  <1>3. /\ Exchange!Live(pa) /\ Deposits'[pa] = Exchange!Left(pa)
        /\ Exchange!Live(pb) /\ Deposits'[pb] = Exchange!Left(pb)
    <2> HIDE DEF outA, outB
    <2> QED BY <1>2, ReleasedMaps
  <1>4. Deposits' = [Deposits EXCEPT ![pa] = Exchange!Left(pa), ![pb] = Exchange!Left(pb)]
    <2>1. \A q \in Payers \ {pa, pb} : Deposits'[q] = Deposits[q]
      BY <1>1, <1>2 DEF Deposits, KeptAsIs
    <2>2. Deposits' = [q \in Payers |-> Deposits'[q]] /\ Deposits = [q \in Payers |-> Deposits[q]]
      BY DEF Deposits
    <2> HIDE DEF Deposits
    <2> QED BY <1>2, <1>3, <2>1, <2>2
  <1>5. consumed' = [consumed EXCEPT ![pa] = oa.nonce, ![pb] = ob.nonce]
    BY <1>1, <1>2 DEF Released, KeptAsIs
  <1>6. paid' = [paid EXCEPT ![pa]["b"] = @ + ob.x, ![pb]["a"] = @ + oa.x, ![pb]["fee"] = @ + FeeEscrow]
    <2>1. Plus(paid[pa], outA) = [paid[pa] EXCEPT !["b"] = @ + ob.x]
      BY <1>1 DEF Plus, Only, Purses, Coins
    <2>2. Plus(paid[pb], outB) = [paid[pb] EXCEPT !["a"] = @ + oa.x, !["fee"] = @ + FeeEscrow]
      BY <1>1 DEF Plus, Purse, Purses, Coins
    <2>3. /\ paid'[pa] = [paid[pa] EXCEPT !["b"] = @ + ob.x]
          /\ paid'[pb] = [paid[pb] EXCEPT !["a"] = @ + oa.x, !["fee"] = @ + FeeEscrow]
      BY <1>2, <2>1, <2>2 DEF Released
    <2>4. \A q \in Payers \ {pa, pb} : paid'[q] = paid[q]
      BY <1>2 DEF KeptAsIs
    <2> HIDE DEF oa, ob, outA, outB
    <2> QED BY <1>1, <1>2, <2>3, <2>4
  <1> QED BY <1>1, <1>2, <1>3, <1>4, <1>5, <1>6 DEF Exchange!Swap, Deposits

(* The book of old views implements the exchange of the present: every     *)
(* step is a deposit, a leave, a swap of two whole orders, an order given  *)
(* back, or nothing.                                                       *)
THEOREM RefinesPairExchange == BookSpec => ImplementsExchange
  <1>1. BookInv /\ [BookNext]_marketVars => [Exchange!ExchangeNext]_(Exchange!exchangeVars)
    <2> SUFFICES ASSUME BookInv, [BookNext]_marketVars
                 PROVE  [Exchange!ExchangeNext]_(Exchange!exchangeVars)
      OBVIOUS
    <2>1. ASSUME UNCHANGED <<payerVars, vaultVars>> PROVE UNCHANGED Exchange!exchangeVars
      BY <2>1 DEF payerVars, vaultVars, Exchange!exchangeVars
    <2>2. CASE UNCHANGED marketVars
      BY <2>1, <2>2 DEF marketVars
    <2>3. CASE NewCheckpoint
      BY <2>1, <2>3 DEF NewCheckpoint
    <2>4. ASSUME NEW p \in Payers, Seller(p) PROVE Exchange!ExchangeNext
      BY <2>4, SellerMaps DEF Exchange!ExchangeNext
    <2>5. CASE BookStep
      <3>1. ASSUME NEW p \in Payers, GivenBack(p) PROVE Exchange!ExchangeNext
        BY <2>5, <3>1, GivenBackMaps DEF BookStep, Exchange!ExchangeNext
      <3>2. ASSUME NEW pa \in Payers, NEW pb \in Payers, Matched(pa, pb) PROVE Exchange!ExchangeNext
        BY <2>5, <3>2, MatchedMaps DEF BookStep, Exchange!ExchangeNext
      <3> QED BY <2>5, <3>1, <3>2 DEF BookStep
    <2> QED BY <2>2, <2>3, <2>4, <2>5, BookSteps
  <1> QED BY <1>1, BookInitMaps, BookCorrect, PTL DEF BookSpec, ImplementsExchange, Exchange!ExchangeSpec

-----------------------------------------------------------------------------
(* The curve.                                                              *)
USE CurveAssumption

-----------------------------------------------------------------------------
(* The price of a trade is the difference of two prices of all lots.       *)
LEMMA PriceUp ==
    ASSUME NEW s \in Nat, NEW l \in Nat, NEW h \in Nat, NEW q \in Nat, NEW x \in Nat,
           2 * q = TwicePriceOf(s), IsHalf(h, l * (2 * s + l - 1)), x = CurvePrice(l, h)
    PROVE  2 * (q + x) = TwicePriceOf(s + l)
  <1>1. 2 * h = l * (2 * s + l - 1) /\ x = Base * l + Step * h
    BY DEF IsHalf, CurvePrice
  <1>2. 2 * (Step * h) = Step * (l * (2 * s + l - 1))
    <2>1. 2 * (Step * h) = Step * (2 * h)
      OBVIOUS
    <2> QED BY <1>1, <2>1
  <1>3. Step * (l * (2 * s + l - 1)) + Step * s * (s - 1) = Step * (s + l) * (s + l - 1)
    OBVIOUS
  <1>4. 2 * (q + x) = 2 * Base * s + Step * s * (s - 1) + 2 * (Base * l) + 2 * (Step * h)
    BY <1>1 DEF TwicePriceOf
  <1>5. 2 * Base * s + 2 * (Base * l) = 2 * Base * (s + l)
    OBVIOUS
  <1> DEFINE u == Step * h
             w == Step * (l * (2 * s + l - 1))
             m == Step * s * (s - 1)
             n == Step * (s + l) * (s + l - 1)
             d == 2 * Base * s
             e == 2 * (Base * l)
             f == 2 * Base * (s + l)
  <1>6. u \in Int /\ w \in Int /\ m \in Int /\ n \in Int /\ d \in Int /\ e \in Int /\ f \in Int
    BY Z3
  <1>7. 2 * (q + x) = f + n
    <2>1. 2 * u = w /\ w + m = n /\ 2 * (q + x) = d + m + e + 2 * u /\ d + e = f
      BY <1>2, <1>3, <1>4, <1>5
    <2> HIDE DEF u, w, m, n, d, e, f
    <2> QED BY <1>6, <2>1
  <1> QED BY <1>7 DEF TwicePriceOf

LEMMA PriceDown ==
    ASSUME NEW s \in Nat, NEW l \in Nat, NEW h \in Nat, NEW q \in Nat, NEW x \in Nat,
           2 * q = TwicePriceOf(s), IsHalf(h, l * (2 * s - l - 1)), x = CurvePrice(l, h)
    PROVE  2 * (q - x) = TwicePriceOf(s - l)
  <1>1. 2 * h = l * (2 * s - l - 1) /\ x = Base * l + Step * h
    BY DEF IsHalf, CurvePrice
  <1>2. 2 * (Step * h) = Step * (l * (2 * s - l - 1))
    <2>1. 2 * (Step * h) = Step * (2 * h)
      OBVIOUS
    <2> QED BY <1>1, <2>1
  <1>3. Step * s * (s - 1) - Step * (l * (2 * s - l - 1)) = Step * (s - l) * (s - l - 1)
    OBVIOUS
  <1>4. 2 * (q - x) = 2 * Base * s + Step * s * (s - 1) - 2 * (Base * l) - 2 * (Step * h)
    BY <1>1 DEF TwicePriceOf
  <1>5. 2 * Base * s - 2 * (Base * l) = 2 * Base * (s - l)
    OBVIOUS
  <1> DEFINE u == Step * h
             w == Step * (l * (2 * s - l - 1))
             m == Step * s * (s - 1)
             n == Step * (s - l) * (s - l - 1)
             d == 2 * Base * s
             e == 2 * (Base * l)
             f == 2 * Base * (s - l)
  <1>6. u \in Int /\ w \in Int /\ m \in Int /\ n \in Int /\ d \in Int /\ e \in Int /\ f \in Int
    BY Z3
  <1>7. 2 * (q - x) = f + n
    <2>1. 2 * u = w /\ m - w = n /\ 2 * (q - x) = d + m - e - 2 * u /\ d - e = f
      BY <1>2, <1>3, <1>4, <1>5
    <2> HIDE DEF u, w, m, n, d, e, f
    <2> QED BY <1>6, <2>1
  <1> QED BY <1>7 DEF TwicePriceOf

-----------------------------------------------------------------------------
(* Slots, and what an order sends.                                         *)
LEMMA SlotFacts ==
    /\ AreSlots(Slots)
    /\ NoOrder \in Slots /\ NoOrder.kind = 0 /\ NoOrder.nonce = 0
    /\ \A o \in Orders : o \in Slots /\ o.kind \in {1, 2}
    /\ \A o \in Slots : [o EXCEPT !.kind = 0] \in Slots /\ [o EXCEPT !.kind = 0].nonce = o.nonce
  BY DEF AreSlots, Slots, NoOrder, CurveOrders

LEMMA DueFacts ==
    ASSUME NEW o \in Slots
    PROVE  /\ BuyDue(o) \in Purses /\ SellDue(o) \in Purses
           /\ BuyDue(o)["fee"] = FeeEscrow /\ SellDue(o)["fee"] = FeeEscrow
           /\ BuyDue(o)["a"] = 0 /\ BuyDue(o)["b"] = o.x
           /\ SellDue(o)["a"] = Unit * o.lots /\ SellDue(o)["b"] = 0
           /\ o.x \in Nat /\ o.lots \in Nat /\ Unit * o.lots \in Nat /\ o.expected_sold \in Nat
           /\ FeeEscrow > 0 /\ FeeEscrow \in Nat
  <1>1. o.x \in Nat /\ o.lots \in Nat /\ o.expected_sold \in Nat
    BY DEF Slots
  <1>2. Unit * o.lots \in Nat
    BY <1>1
  <1>3. FeeEscrow \in Nat /\ FeeEscrow > 0 /\ 0 \in Nat
    OBVIOUS
  <1>4. BuyDue(o) \in Purses /\ SellDue(o) \in Purses
    BY <1>1, <1>2, <1>3, PurseTypes DEF BuyDue, SellDue, SellTokens, LotTokens
  <1>5. /\ BuyDue(o)["fee"] = FeeEscrow /\ SellDue(o)["fee"] = FeeEscrow
        /\ BuyDue(o)["a"] = 0 /\ BuyDue(o)["b"] = o.x
        /\ SellDue(o)["a"] = Unit * o.lots /\ SellDue(o)["b"] = 0
    BY PurseCoins DEF BuyDue, SellDue, SellTokens, LotTokens
  <1> QED BY <1>1, <1>2, <1>3, <1>4, <1>5

Trading == CurveType /\ OnTheCurve /\ Custody /\ TargetGetsAll

IInv == CurveInv /\ TargetGetsAll

LEMMA InitInv == Init => IInv
  <1> SUFFICES ASSUME Init PROVE IInv
    OBVIOUS
  <1>1. MarketInv(Slots)
    BY SlotFacts, InitCorrect DEF Init
  <1>2. vault["a"] = 0 /\ vault["b"] = 0 /\ handed \in Purses
    BY PurseCoins, PurseTypes DEF Init, MarketInit
  <1>3. CurveType /\ OnTheCurve /\ Custody /\ TargetGetsAll
    BY <1>2 DEF Init, CurveType, OnTheCurve, Custody, TargetGetsAll
  <1> QED BY <1>1, <1>3 DEF CurveInv, IInv

LEMMA CurveStays ==
    ASSUME Trading, UNCHANGED curveVars, vault'["a"] = vault["a"], vault'["b"] = vault["b"]
    PROVE  Trading'
  BY DEF Trading, CurveType, OnTheCurve, Custody, TargetGetsAll, TwicePriceOf, curveVars

LEMMA PayerInv ==
    ASSUME IInv, NEW p \in Payers, Payer(p)
    PROVE  IInv' /\ UNCHANGED <<curveVars, vaultVars>>
  <1> USE SlotFacts
  <1>0. MarketInv(Slots) /\ Trading
    BY DEF IInv, CurveInv, Trading
  <1>1. SUFFICES MarketInv(Slots)' /\ UNCHANGED <<curveVars, vaultVars>>
    BY <1>0, CurveStays DEF vaultVars, CurveInv, IInv, Trading
  <1>2. ASSUME NEW o \in Orders, OpenBuy(p, o) \/ OpenSell(p, o)
        PROVE  MarketInv(Slots)' /\ UNCHANGED <<curveVars, vaultVars>>
    <2>1. o \in Slots
      OBVIOUS
    <2>2. UNCHANGED curveVars
      BY <1>2 DEF OpenBuy, OpenSell
    <2>3. OpenUnfunded(p, o) \/ \E due \in Purses : OpenFunded(p, o, due)
      BY <1>2, <2>1, DueFacts DEF OpenBuy, OpenSell
    <2>4. MarketInv(Slots)'
      BY <1>0, <2>1, <2>3, OpenUnfundedKeeps, OpenFundedKeeps
    <2>5. PayerMoves(p)
      BY <2>3 DEF OpenUnfunded, OpenFunded
    <2> QED BY <2>2, <2>4, <2>5 DEF PayerMoves
  <1>3. ASSUME NEW payment \in Payments, Pay(p, payment), UNCHANGED curveVars
        PROVE  MarketInv(Slots)' /\ UNCHANGED <<curveVars, vaultVars>>
    BY <1>0, <1>3, PayKeeps DEF Pay, PayerMoves
  <1>4. ASSUME CloseBuy(p) \/ CloseSell(p)
        PROVE  MarketInv(Slots)' /\ UNCHANGED <<curveVars, vaultVars>>
    <2>1. PICK coins \in {{"fee", "a"}, {"fee", "b"}} : Closes(p, coins)
      BY <1>4 DEF CloseBuy, CloseSell
    <2>2. UNCHANGED curveVars
      BY <1>4 DEF CloseBuy, CloseSell
    <2>3. MarketInv(Slots)'
      BY <1>0, <2>1, ClosesKeeps
    <2> QED BY <2>1, <2>2, <2>3 DEF Closes, PayerMoves
  <1> QED BY <1>2, <1>3, <1>4 DEF Payer

-----------------------------------------------------------------------------
(* One stack: what it does to the payer and to the vault.                  *)
Moves(p, due, out) ==
    /\ order[p].nonce > consumed[p]
    /\ settled' = [settled EXCEPT ![p] = Plus(settled[p], due)]
    /\ paid' = [paid EXCEPT ![p] = Plus(paid[p], out)]
    /\ consumed' = [consumed EXCEPT ![p] = order[p].nonce]
    /\ vault'["a"] = vault["a"] + due["a"] - out["a"]
    /\ vault'["b"] = vault["b"] + due["b"] - out["b"]
    /\ UNCHANGED <<checkpoint, payerVars>>
    /\ MarketInv(Slots)'

LEMMA StackMoves ==
    ASSUME CurveInv, NEW v \in views, NEW p \in Payers, NEW kind \in 1..2, IsOpen(v, p, kind),
           NEW due \in Purses, due["fee"] > 0, NEW out \in Purses, NEW fee \in Fees,
           Serves(v, p, due, out, fee)
    PROVE  order[p] = v.order[p] /\ order[p].kind = kind /\ Moves(p, due, out)
  <1>1. MarketInv(Slots) /\ AreSlots(Slots) /\ fee \in Nat
    BY SlotFacts DEF CurveInv
  <1>2. v.order[p].kind = kind /\ v.order[p].kind # 0 /\ v.order[p].nonce > consumed[p]
    BY DEF IsOpen
  <1>3. order[p] = v.order[p]
    BY <1>1, <1>2, ServesMoves
  <1> QED BY <1>1, <1>2, <1>3, ServesMoves DEF Moves

(* The issuer's.                                                           *)
TakesFrom(due, out) ==
    /\ settled' = [settled EXCEPT ![Issuer] = Plus(settled[Issuer], due)]
    /\ vault'["a"] = vault["a"] + due["a"] - out["a"]
    /\ vault'["b"] = vault["b"] + due["b"] - out["b"]
    /\ UNCHANGED <<checkpoint, payerVars, paid, consumed>>
    /\ MarketInv(Slots)'

LEMMA TakesMoves ==
    ASSUME CurveInv, NEW v \in views, NEW due \in Purses, NEW out \in Purses, NEW fee \in Fees,
           Takes(v, due, out, fee)
    PROVE  TakesFrom(due, out)
  <1>1. MarketInv(Slots) /\ fee \in Nat /\ Issuer \in Payers /\ vault \in Purses
    BY DEF CurveInv, MarketInv, MarketType
  <1>2. IsFunded(v, Issuer, due) /\ MovesCursors(v, Issuer, due) /\ Claims(v, Issuer, due) /\ VaultMoves
    BY DEF Takes
  <1>3. /\ claimed' = settled' /\ settled' \in [Payers -> Purses]
        /\ settled' = [settled EXCEPT ![Issuer] = Plus(settled[Issuer], due)]
        /\ \A x \in Payers, c \in Coins :
             settled[x][c] <= settled'[x][c] /\ settled'[x][c] <= sent[x][c]
        /\ \A c \in Coins : Brought(v, Issuer, due, c) = due[c]
    BY <1>1, <1>2, CursorsMoveByDue
  <1>4. /\ vault' \in Purses
        /\ vault'["a"] = vault["a"] + due["a"] - out["a"]
        /\ vault'["b"] = vault["b"] + due["b"] - out["b"]
    BY <1>1, <1>3, SpendsMoves DEF Takes
  <1>5. paid' = paid /\ consumed' = consumed
    BY DEF Takes
  <1>6. /\ paid' \in [Payers -> Purses] /\ consumed' \in [Payers -> Nat]
        /\ \A x \in Payers : consumed'[x] <= order[x].nonce
    BY <1>1, <1>5 DEF MarketInv, MarketType, ProofsAreOld
  <1>7. MarketInv(Slots)'
    BY <1>1, <1>2, <1>3, <1>4, <1>6, VaultKeeps
  <1>8. UNCHANGED <<checkpoint, payerVars>>
    BY <1>2 DEF VaultMoves
  <1> QED BY <1>3, <1>4, <1>5, <1>7, <1>8 DEF TakesFrom

LEMMA SlotOf ==
    ASSUME CurveInv, NEW v \in views, NEW p \in Payers
    PROVE  v.order[p] \in Slots /\ order[p] \in Slots
  BY DEF CurveInv, MarketInv, MarketType, Views

-----------------------------------------------------------------------------
(* The curve's steps, with the views gone: each is about the payer's       *)
(* present order.                                                          *)
SamePrice == UNCHANGED <<phase, handed>>

Bought(p) ==
    LET o == order[p] IN
    /\ o.kind = 1 /\ phase = 1 /\ o.expected_sold = sold_lots
    /\ Moves(p, BuyDue(o), Only("a", Unit * o.lots))
    /\ quote_reserve' = quote_reserve + o.x /\ quote_reserve' \in 0..MaxAmount
    /\ sold_lots' = sold_lots + o.lots /\ sold_lots' \in 0..Cap
    /\ 2 * quote_reserve' = TwicePriceOf(sold_lots')
    /\ SamePrice

Sold(p) ==
    LET o == order[p] IN
    /\ o.kind = 2 /\ phase = 1 /\ o.expected_sold = sold_lots
    /\ Moves(p, SellDue(o), Only("b", o.x))
    /\ quote_reserve' = quote_reserve - o.x /\ quote_reserve' \in 0..MaxAmount
    /\ sold_lots' = sold_lots - o.lots /\ sold_lots' \in 0..Cap
    /\ 2 * quote_reserve' = TwicePriceOf(sold_lots')
    /\ SamePrice

Returned(p) ==
    LET o == order[p] IN
    /\ \/ o.kind = 1 /\ Moves(p, BuyDue(o), Only("b", o.x))
       \/ o.kind = 2 /\ Moves(p, SellDue(o), Only("a", Unit * o.lots))
    /\ UNCHANGED curveVars

CurveStep(p) == Bought(p) \/ Sold(p) \/ Returned(p)

Started ==
    /\ phase = 0 /\ phase' = 1
    /\ TakesFrom(Purse(FeeEscrow, Unit * (Cap + Liquidity), 0), Empty)
    /\ UNCHANGED <<sold_lots, quote_reserve, handed>>

Ended ==
    /\ phase = 1 /\ phase' = 2 /\ quote_reserve' = 0
    /\ Threshold <= sold_lots /\ sold_lots <= Cap
    /\ TakesFrom(Purse(FeeEscrow, 0, 0), Purse(0, GraduatedTokens, quote_reserve))
    /\ handed' = Plus(handed, Purse(0, GraduatedTokens, quote_reserve))
    /\ UNCHANGED sold_lots

LEMMA ServesInOrder ==
    ASSUME CurveInv, NEW v \in views, NEW p \in Payers, NEW kind \in 1..2, IsOpen(v, p, kind),
           NEW due \in Purses, due["fee"] = FeeEscrow, NEW coin \in {"a", "b"}, NEW x \in Nat,
           NEW fee \in Fees, Serves(v, p, due, Only(coin, x), fee)
    PROVE  order[p] = v.order[p] /\ order[p].kind = kind /\ Moves(p, due, Only(coin, x))
  <1> DEFINE out == Only(coin, x)
  <1>1. out \in Purses /\ Serves(v, p, due, out, fee)
    BY PurseTypes DEF Coins
  <1>2. due["fee"] > 0
    OBVIOUS
  <1> HIDE DEF out
  <1>3. order[p] = v.order[p] /\ order[p].kind = kind /\ Moves(p, due, out)
    BY <1>1, <1>2, StackMoves
  <1> QED BY <1>3 DEF out

LEMMA BuyFacts ==
    ASSUME CurveInv, NEW v \in views, NEW p \in Payers, NEW fee \in Fees, SettleBuy(v, p, fee)
    PROVE  Bought(p)
  <1> DEFINE o == v.order[p]
  <1>1. o \in Slots /\ o.x \in Nat /\ o.lots \in Nat /\ Unit * o.lots \in Nat
        /\ BuyDue(o) \in Purses /\ BuyDue(o)["fee"] = FeeEscrow
    BY SlotOf, DueFacts
  <1>2. /\ IsOpen(v, p, 1) /\ phase = 1 /\ o.expected_sold = sold_lots
        /\ sold_lots + o.lots <= Cap
    BY DEF SettleBuy, BuyGuard
  <1>3. Serves(v, p, BuyDue(o), Only("a", Unit * o.lots), fee)
    BY DEF SettleBuy, LotTokens
  <1>4. order[p] = o /\ o.kind = 1 /\ Moves(p, BuyDue(o), Only("a", Unit * o.lots))
    <2>1. 1 \in 1..2 /\ "a" \in {"a", "b"}
      OBVIOUS
    <2> DEFINE due == BuyDue(o)
               x == Unit * o.lots
    <2>2. due \in Purses /\ due["fee"] = FeeEscrow /\ x \in Nat /\ Serves(v, p, due, Only("a", x), fee)
      BY <1>1, <1>3
    <2> HIDE DEF due, x
    <2>3. order[p] = v.order[p] /\ order[p].kind = 1 /\ Moves(p, due, Only("a", x))
      BY <1>2, <2>1, <2>2, ServesInOrder
    <2> QED BY <2>3 DEF due, x
  <1>5. PICK slope \in 0..MaxAmount : BuySlope(o.lots, slope) /\ BuyPriced(o, slope)
    BY DEF SettleBuy
  <1>6. sold_lots \in 0..Cap /\ quote_reserve \in Nat /\ 2 * quote_reserve = TwicePriceOf(sold_lots)
    BY <1>2 DEF CurveInv, CurveType, OnTheCurve
  <1>7. /\ sold_lots' = sold_lots + o.lots
        /\ quote_reserve' = quote_reserve + o.x /\ quote_reserve' \in 0..MaxAmount
        /\ UNCHANGED <<phase, handed>>
    BY DEF SettleBuy, ReserveAfterBuy, Fits
  <1>8. sold_lots' \in 0..Cap
    BY <1>1, <1>2, <1>6, <1>7
  <1>9. 2 * quote_reserve' = TwicePriceOf(sold_lots')
    <2> DEFINE l == o.lots
               x == o.x
    <2>1. IsHalf(slope, l * (2 * sold_lots + l - 1)) /\ x = CurvePrice(l, slope)
      BY <1>5 DEF BuySlope, BuyPriced
    <2>2. slope \in Nat /\ l \in Nat /\ x \in Nat /\ sold_lots \in Nat
      BY <1>1, <1>6
    <2>3. quote_reserve' = quote_reserve + x /\ sold_lots' = sold_lots + l
      BY <1>7
    <2> HIDE DEF l, x
    <2>4. 2 * (quote_reserve + x) = TwicePriceOf(sold_lots + l)
      BY <1>6, <2>1, <2>2, PriceUp
    <2> QED BY <2>3, <2>4
  <1> QED BY <1>2, <1>4, <1>7, <1>8, <1>9 DEF Bought, SamePrice

LEMMA SellFacts ==
    ASSUME CurveInv, NEW v \in views, NEW p \in Payers, NEW fee \in Fees, SettleSell(v, p, fee)
    PROVE  Sold(p)
  <1> DEFINE o == v.order[p]
  <1>1. o \in Slots /\ o.x \in Nat /\ o.lots \in Nat
        /\ SellDue(o) \in Purses /\ SellDue(o)["fee"] = FeeEscrow
    BY SlotOf, DueFacts
  <1>2. IsOpen(v, p, 2) /\ phase = 1 /\ o.expected_sold = sold_lots /\ o.lots <= sold_lots
    BY DEF SettleSell, SellGuard
  <1>3. Serves(v, p, SellDue(o), Only("b", o.x), fee)
    BY DEF SettleSell
  <1>4. order[p] = o /\ o.kind = 2 /\ Moves(p, SellDue(o), Only("b", o.x))
    <2>1. 2 \in 1..2 /\ "b" \in {"a", "b"}
      OBVIOUS
    <2> DEFINE due == SellDue(o)
               x == o.x
    <2>2. due \in Purses /\ due["fee"] = FeeEscrow /\ x \in Nat /\ Serves(v, p, due, Only("b", x), fee)
      BY <1>1, <1>3
    <2> HIDE DEF due, x
    <2>3. order[p] = v.order[p] /\ order[p].kind = 2 /\ Moves(p, due, Only("b", x))
      BY <1>2, <2>1, <2>2, ServesInOrder
    <2> QED BY <2>3 DEF due, x
  <1>5. PICK slope \in 0..MaxAmount : SellSlope(o.lots, slope) /\ SellPriced(o, slope)
    BY DEF SettleSell
  <1>6. sold_lots \in 0..Cap /\ quote_reserve \in Nat /\ 2 * quote_reserve = TwicePriceOf(sold_lots)
    BY <1>2 DEF CurveInv, CurveType, OnTheCurve
  <1>7. /\ sold_lots' = sold_lots - o.lots
        /\ quote_reserve' = quote_reserve - o.x /\ quote_reserve' \in 0..MaxAmount
        /\ UNCHANGED <<phase, handed>>
    BY DEF SettleSell, ReserveAfterSell, Fits
  <1>8. sold_lots' \in 0..Cap
    BY <1>1, <1>2, <1>6, <1>7
  <1>9. 2 * quote_reserve' = TwicePriceOf(sold_lots')
    <2> DEFINE l == o.lots
               x == o.x
    <2>1. IsHalf(slope, l * (2 * sold_lots - l - 1)) /\ x = CurvePrice(l, slope)
      BY <1>5 DEF SellSlope, SellPriced
    <2>2. slope \in Nat /\ l \in Nat /\ x \in Nat /\ sold_lots \in Nat
      BY <1>1, <1>6
    <2>3. quote_reserve' = quote_reserve - x /\ sold_lots' = sold_lots - l
      BY <1>7
    <2> HIDE DEF l, x
    <2>4. 2 * (quote_reserve - x) = TwicePriceOf(sold_lots - l)
      BY <1>6, <2>1, <2>2, PriceDown
    <2> QED BY <2>3, <2>4
  <1> QED BY <1>2, <1>4, <1>7, <1>8, <1>9 DEF Sold, SamePrice

LEMMA ReturnFacts ==
    ASSUME CurveInv, NEW v \in views, NEW p \in Payers, NEW fee \in Fees,
           RefundBuy(v, p, fee) \/ RefundSell(v, p, fee)
    PROVE  Returned(p)
  <1> DEFINE o == v.order[p]
             paidIn == o.x
             lotsIn == Unit * o.lots
             bdue == BuyDue(o)
             sdue == SellDue(o)
  <1>1. /\ o \in Slots /\ paidIn \in Nat /\ lotsIn \in Nat
        /\ bdue \in Purses /\ bdue["fee"] = FeeEscrow
        /\ sdue \in Purses /\ sdue["fee"] = FeeEscrow
    BY SlotOf, DueFacts
  <1>2. 1 \in 1..2 /\ 2 \in 1..2 /\ "a" \in {"a", "b"} /\ "b" \in {"a", "b"}
    OBVIOUS
  <1>3. CASE RefundBuy(v, p, fee)
    <2>1. IsOpen(v, p, 1) /\ Serves(v, p, bdue, Only("b", paidIn), fee) /\ UNCHANGED curveVars
      BY <1>3 DEF RefundBuy
    <2>2. order[p] = v.order[p] /\ order[p].kind = 1 /\ Moves(p, bdue, Only("b", paidIn))
      <3> HIDE DEF bdue, paidIn
      <3> QED BY <1>1, <1>2, <2>1, ServesInOrder
    <2> QED BY <2>1, <2>2 DEF Returned
  <1>4. CASE RefundSell(v, p, fee)
    <2>1. IsOpen(v, p, 2) /\ Serves(v, p, sdue, Only("a", lotsIn), fee) /\ UNCHANGED curveVars
      BY <1>4 DEF RefundSell, LotTokens
    <2>2. order[p] = v.order[p] /\ order[p].kind = 2 /\ Moves(p, sdue, Only("a", lotsIn))
      <3> HIDE DEF sdue, lotsIn
      <3> QED BY <1>1, <1>2, <2>1, ServesInOrder
    <2> QED BY <2>1, <2>2 DEF Returned
  <1> QED BY <1>3, <1>4

LEMMA StartFacts ==
    ASSUME CurveInv, NEW v \in views, NEW fee \in Fees, Initialize(v, fee)
    PROVE  Started
  <1> DEFINE x == Unit * (Cap + Liquidity)
             due == Purse(FeeEscrow, x, 0)
  <1>1. due \in Purses /\ Takes(v, due, Empty, fee)
    <2>1. x \in Nat /\ FeeEscrow \in Nat /\ 0 \in Nat
      OBVIOUS
    <2>2. Takes(v, due, Empty, fee)
      BY DEF Initialize
    <2> HIDE DEF x
    <2> QED BY <2>1, <2>2, PurseTypes
  <1>2. TakesFrom(due, Empty)
    <2> HIDE DEF due
    <2> QED BY <1>1, PurseTypes, TakesMoves
  <1> QED BY <1>2 DEF Initialize, Started

LEMMA EndFacts ==
    ASSUME CurveInv, NEW v \in views, NEW fee \in Fees, Graduate(v, fee)
    PROVE  Ended
  <1> DEFINE due == Purse(FeeEscrow, 0, 0)
             out == Purse(0, GraduatedTokens, quote_reserve)
  <1>1. due \in Purses /\ out \in Purses
    <2>1. GraduatedTokens \in Nat /\ quote_reserve \in Nat /\ 0 \in Nat /\ FeeEscrow \in Nat
      <3>1. sold_lots \in 0..Cap
        BY DEF CurveInv, CurveType
      <3>2. Cap + Liquidity - sold_lots \in Nat
        BY <3>1
      <3> QED BY <3>2 DEF CurveInv, CurveType, GraduatedTokens
    <2> QED BY <2>1, PurseTypes
  <1>2. Takes(v, due, out, fee)
    BY DEF Graduate
  <1>3. TakesFrom(due, out)
    <2> HIDE DEF due, out
    <2> QED BY <1>1, <1>2, TakesMoves
  <1> QED BY <1>3 DEF Graduate, GraduateGuard, Ended

(* Every step of the system is one of these, a payer's, or a checkpoint.   *)
LEMMA Steps ==
    ASSUME CurveInv, Next
    PROVE  \/ \E p \in Payers : Payer(p) \/ CurveStep(p)
           \/ Started \/ Ended
           \/ NewCheckpoint /\ UNCHANGED curveVars
  BY BuyFacts, SellFacts, ReturnFacts, StartFacts, EndFacts DEF Next, Curve, CurveStep

-----------------------------------------------------------------------------
(* What the vault holds follows the contract's variables.                  *)
LEMMA LotsMove ==
    ASSUME NEW s \in Nat, NEW l \in Int
    PROVE  Unit * (Cap + Liquidity - s) - Unit * l = Unit * (Cap + Liquidity - (s + l))
  OBVIOUS

LEMMA TradeKeeps ==
    ASSUME Trading, NEW moved \in Int,
           phase = 1, SamePrice, sold_lots' = sold_lots + moved, sold_lots' \in 0..Cap,
           quote_reserve' \in 0..MaxAmount, 2 * quote_reserve' = TwicePriceOf(sold_lots'),
           vault'["a"] = vault["a"] - Unit * moved, vault'["b"] = quote_reserve'
    PROVE  Trading'
  <1>1. vault["a"] = Unit * (Cap + Liquidity - sold_lots) /\ sold_lots \in Nat
    BY DEF Trading, CurveType, Custody
  <1>2. vault'["a"] = Unit * (Cap + Liquidity - sold_lots')
    BY <1>1, LotsMove
  <1>3. CurveType'
    BY DEF Trading, CurveType, SamePrice
  <1>4. OnTheCurve'
    BY DEF OnTheCurve, TwicePriceOf, SamePrice
  <1>5. Custody'
    BY <1>2 DEF Custody, SamePrice
  <1>6. TargetGetsAll'
    BY DEF Trading, TargetGetsAll, SamePrice
  <1> QED BY <1>3, <1>4, <1>5, <1>6 DEF Trading

LEMMA BoughtKeeps ==
    ASSUME IInv, NEW p \in Payers, Bought(p)
    PROVE  IInv'
  <1> DEFINE o == order[p]
             due == BuyDue(o)
             x == o.x
             l == o.lots
             u == Unit * l
  <1>1. /\ o \in Slots /\ x \in Nat /\ l \in Nat /\ u \in Nat
        /\ due["a"] = 0 /\ due["b"] = x
    BY DueFacts DEF IInv, CurveInv, MarketInv, MarketType
  <1>2. /\ phase = 1 /\ SamePrice /\ sold_lots' = sold_lots + l /\ sold_lots' \in 0..Cap
        /\ quote_reserve' = quote_reserve + x /\ quote_reserve' \in 0..MaxAmount
        /\ 2 * quote_reserve' = TwicePriceOf(sold_lots') /\ Moves(p, due, Only("a", u))
    BY DEF Bought
  <1>3. Trading /\ vault["a"] \in Nat /\ vault["b"] = quote_reserve
    <2>1. "a" \in Coins /\ vault \in Purses
      BY DEF Coins, IInv, CurveInv, MarketInv, MarketType
    <2> QED BY <2>1 DEF IInv, CurveInv, Trading, Custody, Purses
  <1>4. vault'["a"] = vault["a"] - u /\ vault'["b"] = quote_reserve'
    <2>1. Only("a", u)["a"] = u /\ Only("a", u)["b"] = 0
      BY DEF Only, Coins
    <2>2. /\ vault'["a"] = vault["a"] + due["a"] - Only("a", u)["a"]
          /\ vault'["b"] = vault["b"] + due["b"] - Only("a", u)["b"]
      BY <1>2 DEF Moves
    <2>3. quote_reserve \in Nat
      BY <1>3 DEF Trading, CurveType
    <2> HIDE DEF due, u, x
    <2> QED BY <1>1, <1>2, <1>3, <2>1, <2>2, <2>3
  <1>5. MarketInv(Slots)'
    BY <1>2 DEF Moves
  <1>6. Trading'
    <2>1. vault'["a"] = vault["a"] - Unit * l
      BY <1>4
    <2> HIDE DEF l, x, due, u
    <2> QED BY <1>1, <1>2, <1>3, <1>4, <2>1, TradeKeeps
  <1> QED BY <1>5, <1>6 DEF IInv, CurveInv, Trading

LEMMA SoldKeeps ==
    ASSUME IInv, NEW p \in Payers, Sold(p)
    PROVE  IInv'
  <1> DEFINE o == order[p]
             due == SellDue(o)
             x == o.x
             l == o.lots
             u == Unit * l
  <1>1. /\ o \in Slots /\ x \in Nat /\ l \in Nat /\ u \in Nat
        /\ due["a"] = u /\ due["b"] = 0
    BY DueFacts DEF IInv, CurveInv, MarketInv, MarketType
  <1>2. /\ phase = 1 /\ SamePrice /\ sold_lots' = sold_lots - l /\ sold_lots' \in 0..Cap
        /\ quote_reserve' = quote_reserve - x /\ quote_reserve' \in 0..MaxAmount
        /\ 2 * quote_reserve' = TwicePriceOf(sold_lots') /\ Moves(p, due, Only("b", x))
    BY DEF Sold
  <1>3. Trading /\ vault["a"] \in Nat /\ vault["b"] = quote_reserve /\ sold_lots \in Nat
    <2>1. "a" \in Coins /\ vault \in Purses
      BY DEF Coins, IInv, CurveInv, MarketInv, MarketType
    <2> QED BY <2>1 DEF IInv, CurveInv, CurveType, Trading, Custody, Purses
  <1>4. vault'["a"] = vault["a"] + u /\ vault'["b"] = quote_reserve'
    <2>1. Only("b", x)["a"] = 0 /\ Only("b", x)["b"] = x
      BY DEF Only, Coins
    <2>2. /\ vault'["a"] = vault["a"] + due["a"] - Only("b", x)["a"]
          /\ vault'["b"] = vault["b"] + due["b"] - Only("b", x)["b"]
      BY <1>2 DEF Moves
    <2>3. quote_reserve \in Nat
      BY <1>3 DEF Trading, CurveType
    <2> HIDE DEF due, u, x
    <2> QED BY <1>1, <1>2, <1>3, <2>1, <2>2, <2>3
  <1>5. MarketInv(Slots)'
    BY <1>2 DEF Moves
  <1>6. Trading'
    <2> DEFINE moved == -l
    <2>1. moved \in Int /\ sold_lots' = sold_lots + moved /\ Unit * moved = -(Unit * l)
      BY <1>1, <1>2, <1>3
    <2>2. vault'["a"] = vault["a"] - Unit * moved
      <3>1. vault'["a"] = vault["a"] + u /\ Unit * moved = -u
        BY <1>4, <2>1
      <3> HIDE DEF u, moved
      <3> QED BY <1>1, <1>3, <3>1
    <2> HIDE DEF moved, l, x, due, u
    <2> QED BY <1>2, <1>3, <1>4, <2>1, <2>2, TradeKeeps
  <1> QED BY <1>5, <1>6 DEF IInv, CurveInv, Trading

LEMMA ReturnedKeeps ==
    ASSUME IInv, NEW p \in Payers, Returned(p)
    PROVE  IInv'
  <1> DEFINE o == order[p]
             x == o.x
             u == Unit * o.lots
  <1>1. x \in Nat /\ u \in Nat
        /\ BuyDue(o)["a"] = 0 /\ BuyDue(o)["b"] = x
        /\ SellDue(o)["a"] = u /\ SellDue(o)["b"] = 0
    BY DueFacts DEF IInv, CurveInv, MarketInv, MarketType
  <1>2. vault["a"] \in Nat /\ vault["b"] \in Nat /\ Trading
    <2>1. "a" \in Coins /\ "b" \in Coins /\ vault \in Purses
      BY DEF Coins, IInv, CurveInv, MarketInv, MarketType
    <2> QED BY <2>1 DEF IInv, CurveInv, Trading, Purses
  <1>3. /\ Only("b", x)["a"] = 0 /\ Only("b", x)["b"] = x
        /\ Only("a", u)["a"] = u /\ Only("a", u)["b"] = 0
    BY DEF Only, Coins
  <1>4. /\ vault'["a"] = vault["a"] /\ vault'["b"] = vault["b"]
        /\ MarketInv(Slots)' /\ UNCHANGED curveVars
    <2>1. UNCHANGED curveVars /\ (Moves(p, BuyDue(o), Only("b", x)) \/ Moves(p, SellDue(o), Only("a", u)))
      BY DEF Returned
    <2>2. \/ /\ vault'["a"] = vault["a"] + BuyDue(o)["a"] - Only("b", x)["a"]
             /\ vault'["b"] = vault["b"] + BuyDue(o)["b"] - Only("b", x)["b"]
          \/ /\ vault'["a"] = vault["a"] + SellDue(o)["a"] - Only("a", u)["a"]
             /\ vault'["b"] = vault["b"] + SellDue(o)["b"] - Only("a", u)["b"]
      BY <2>1 DEF Moves
    <2>3. MarketInv(Slots)'
      BY <2>1 DEF Moves
    <2> HIDE DEF x, u
    <2> QED BY <1>1, <1>2, <1>3, <2>1, <2>2, <2>3
  <1>5. Trading'
    BY <1>2, <1>4, CurveStays
  <1> QED BY <1>4, <1>5 DEF IInv, CurveInv, Trading

LEMMA StartedKeeps ==
    ASSUME IInv, Started
    PROVE  IInv'
  <1> DEFINE x == Unit * (Cap + Liquidity)
  <1>1. /\ phase' = 1 /\ sold_lots' = 0 /\ quote_reserve' = 0 /\ handed' = handed
        /\ phase = 0 /\ vault["a"] = 0 /\ vault["b"] = 0 /\ handed = Empty
    BY DEF Started, IInv, CurveInv, OnTheCurve, Custody, TargetGetsAll
  <1>2. vault'["a"] = x /\ vault'["b"] = 0 /\ MarketInv(Slots)'
    <2>1. x \in Nat
      OBVIOUS
    <2>2. /\ Purse(FeeEscrow, x, 0)["a"] = x /\ Purse(FeeEscrow, x, 0)["b"] = 0
          /\ Empty["a"] = 0 /\ Empty["b"] = 0
      BY PurseCoins DEF Empty
    <2>3. TakesFrom(Purse(FeeEscrow, x, 0), Empty)
      BY DEF Started
    <2> HIDE DEF x
    <2> QED BY <1>1, <2>1, <2>2, <2>3 DEF TakesFrom
  <1>3. vault'["a"] = Unit * (Cap + Liquidity - sold_lots')
    BY <1>1, <1>2
  <1>4. CurveType'
    BY <1>1 DEF IInv, CurveInv, CurveType
  <1>5. OnTheCurve'
    BY <1>1 DEF OnTheCurve, TwicePriceOf
  <1>6. Custody' /\ TargetGetsAll'
    BY <1>1, <1>2, <1>3 DEF Custody, TargetGetsAll
  <1> QED BY <1>2, <1>4, <1>5, <1>6 DEF IInv, CurveInv

LEMMA EndedKeeps ==
    ASSUME IInv, Ended
    PROVE  IInv'
  <1> DEFINE x == GraduatedTokens
             out == Purse(0, x, quote_reserve)
  <1>1. /\ phase = 1 /\ phase' = 2 /\ quote_reserve' = 0 /\ sold_lots' = sold_lots
        /\ Threshold <= sold_lots /\ handed' = Plus(handed, out)
        /\ TakesFrom(Purse(FeeEscrow, 0, 0), out)
    BY DEF Ended
  <1>2. /\ vault["a"] = x /\ vault["b"] = quote_reserve /\ handed = Empty
        /\ 2 * quote_reserve = TwicePriceOf(sold_lots)
        /\ x = Unit * (Cap + Liquidity - sold_lots) /\ sold_lots \in 0..Cap /\ quote_reserve \in Nat
    BY <1>1 DEF IInv, CurveInv, CurveType, OnTheCurve, Custody, TargetGetsAll, GraduatedTokens
  <1>3. x \in Nat
    <2>1. Cap + Liquidity - sold_lots \in Nat
      BY <1>2
    <2> QED BY <1>2, <2>1
  <1>4. /\ out \in Purses /\ out["a"] = x /\ out["b"] = quote_reserve
        /\ Purse(FeeEscrow, 0, 0)["a"] = 0 /\ Purse(FeeEscrow, 0, 0)["b"] = 0
    <2>1. 0 \in Nat
      OBVIOUS
    <2> DEFINE y == quote_reserve
    <2>2. y \in Nat
      BY <1>2
    <2> HIDE DEF x, y
    <2>3. Purse(0, x, y) \in Purses
      BY <1>3, <2>1, <2>2, PurseTypes
    <2>4. /\ Purse(0, x, y)["a"] = x /\ Purse(0, x, y)["b"] = y
          /\ Purse(FeeEscrow, 0, 0)["a"] = 0 /\ Purse(FeeEscrow, 0, 0)["b"] = 0
      BY PurseCoins
    <2> QED BY <2>3, <2>4 DEF y
  <1> HIDE DEF x, out
  <1>5. vault'["a"] = 0 /\ vault'["b"] = 0 /\ MarketInv(Slots)'
    BY <1>1, <1>2, <1>3, <1>4 DEF TakesFrom
  <1>6. handed' \in Purses /\ handed'["a"] = x /\ handed'["b"] = quote_reserve
    <2>1. Empty["a"] = 0 /\ Empty["b"] = 0
      BY PurseCoins DEF Empty
    <2>2. "a" \in Coins /\ "b" \in Coins
      BY DEF Coins
    <2>3. handed' = [c \in Coins |-> Empty[c] + out[c]]
      BY <1>1, <1>2 DEF Plus
    <2>4. handed' \in Purses
      <3>1. \A c \in Coins : Empty[c] \in Nat /\ out[c] \in Nat
        BY <1>4, PurseTypes DEF Purses
      <3>2. \A c \in Coins : Empty[c] + out[c] \in Nat
        BY <3>1
      <3> QED BY <2>3, <3>2 DEF Purses
    <2> QED BY <1>2, <1>3, <1>4, <2>1, <2>2, <2>3, <2>4
  <1>7. CurveType' /\ OnTheCurve' /\ Custody'
    BY <1>1, <1>2, <1>5, <1>6 DEF CurveType, OnTheCurve, Custody
  <1>8. TargetGetsAll'
    BY <1>1, <1>2, <1>6 DEF TargetGetsAll, TwicePriceOf
  <1> QED BY <1>5, <1>7, <1>8 DEF IInv, CurveInv

LEMMA NextInv == IInv /\ [Next]_vars => IInv'
  <1> SUFFICES ASSUME IInv, [Next]_vars PROVE IInv'
    OBVIOUS
  <1>0. CurveInv /\ MarketInv(Slots) /\ Trading
    BY DEF IInv, CurveInv, Trading
  <1>1. CASE UNCHANGED vars
    <2>1. UNCHANGED marketVars /\ UNCHANGED curveVars
      BY <1>1 DEF vars
    <2>2. Trading'
      BY <1>0, <2>1, CurveStays DEF marketVars, vaultVars
    <2>3. MarketInv(Slots)'
      BY <1>0, <2>1 DEF marketVars, payerVars, vaultVars, MarketInv, MarketType, CursorsAreClaims, ProofsAreOld, PaidOrdersStay
    <2> QED BY <2>2, <2>3 DEF IInv, CurveInv, Trading
  <1>2. CASE NewCheckpoint /\ UNCHANGED curveVars
    <2>1. MarketInv(Slots)'
      BY <1>0, <1>2, SlotFacts, NewCheckpointKeeps
    <2>2. Trading'
      BY <1>0, <1>2, CurveStays DEF NewCheckpoint, vaultVars
    <2> QED BY <2>1, <2>2 DEF IInv, CurveInv, Trading
  <1>3. ASSUME NEW p \in Payers, Payer(p) PROVE IInv'
    BY <1>3, PayerInv
  <1>4. ASSUME NEW p \in Payers, CurveStep(p) PROVE IInv'
    BY <1>4, BoughtKeeps, SoldKeeps, ReturnedKeeps DEF CurveStep
  <1>5. CASE Started
    BY <1>5, StartedKeeps
  <1>6. CASE Ended
    BY <1>6, EndedKeeps
  <1> QED BY <1>0, <1>1, <1>2, <1>3, <1>4, <1>5, <1>6, Steps

LEMMA AlwaysInv == Spec => []IInv
  BY InitInv, NextInv, PTL DEF Spec

(* The vault has what the contract believes and the reserve is the price   *)
(* of the lots sold, in every reachable state.                             *)
THEOREM CurveCorrect == Spec => []CurveInv
  BY AlwaysInv, PTL DEF IInv

(* The target gets everything, once.                                       *)
THEOREM TargetPaid == Spec => []TargetGetsAll
  BY AlwaysInv, PTL DEF IInv

-----------------------------------------------------------------------------
(* What a stack does to the payer's money, in the tokens' terms.           *)
LEMMA MovesMoney ==
    ASSUME CurveInv, NEW p \in Payers, NEW due \in Purses, NEW out \in Purses, Moves(p, due, out)
    PROVE  /\ \A c \in Coins : Took(p, c) = due[c] /\ Got(p, c) = out[c]
           /\ \A q \in Payers : q # p => claimed'[q] = claimed[q] /\ paid'[q] = paid[q]
           /\ consumed[p] < order[p].nonce /\ consumed'[p] = order[p].nonce
  <1>0. order[p] \in Slots /\ order[p].nonce \in Nat
    BY DEF CurveInv, MarketInv, MarketType, Slots
  <1>1. /\ claimed = settled /\ settled \in [Payers -> Purses] /\ paid \in [Payers -> Purses]
        /\ consumed \in [Payers -> Nat]
    BY DEF CurveInv, MarketInv, MarketType, CursorsAreClaims
  <1>2. claimed' = settled'
    BY DEF Moves, MarketInv, CursorsAreClaims
  <1>3. settled'[p] = Plus(settled[p], due) /\ paid'[p] = Plus(paid[p], out) /\ consumed'[p] = order[p].nonce
    BY <1>1 DEF Moves
  <1>4. ASSUME NEW c \in Coins PROVE Took(p, c) = due[c] /\ Got(p, c) = out[c]
    <2>1. settled[p][c] \in Nat /\ paid[p][c] \in Nat /\ due[c] \in Nat /\ out[c] \in Nat
      BY <1>1 DEF Purses
    <2>2. settled'[p][c] = settled[p][c] + due[c] /\ paid'[p][c] = paid[p][c] + out[c]
      BY <1>3 DEF Plus
    <2> QED BY <1>1, <1>2, <2>1, <2>2 DEF Took, Got
  <1>5. \A q \in Payers : q # p => claimed'[q] = claimed[q] /\ paid'[q] = paid[q]
    BY <1>1, <1>2 DEF Moves
  <1>6. consumed[p] < order[p].nonce
    BY <1>0, <1>1 DEF Moves
  <1> QED BY <1>3, <1>4, <1>5, <1>6

LEMMA StepTakesDue ==
    ASSUME CurveInv, NEW p \in Payers, CurveStep(p)
    PROVE  /\ order[p].kind # 0 /\ Due(order[p]) \in Purses /\ Due(order[p])["fee"] > 0
           /\ \E out \in Purses : Moves(p, Due(order[p]), out)
  <1> DEFINE o == order[p]
             x == o.x
             u == Unit * o.lots
  <1>1. /\ o \in Slots /\ x \in Nat /\ u \in Nat
        /\ BuyDue(o) \in Purses /\ SellDue(o) \in Purses
        /\ BuyDue(o)["fee"] > 0 /\ SellDue(o)["fee"] > 0
    BY DueFacts DEF CurveInv, MarketInv, MarketType
  <1>2. Only("a", u) \in Purses /\ Only("b", x) \in Purses
    <2> HIDE DEF x, u
    <2> QED BY <1>1, PurseTypes DEF Coins
  <1>3. \/ o.kind = 1 /\ (Moves(p, BuyDue(o), Only("a", u)) \/ Moves(p, BuyDue(o), Only("b", x)))
        \/ o.kind = 2 /\ (Moves(p, SellDue(o), Only("a", u)) \/ Moves(p, SellDue(o), Only("b", x)))
    BY DEF CurveStep, Bought, Sold, Returned
  <1> HIDE DEF x, u
  <1>4. \E out \in Purses : Moves(p, Due(o), out)
    BY <1>2, <1>3 DEF Due
  <1> QED BY <1>1, <1>3, <1>4 DEF Due

LEMMA StepOnTerms ==
    ASSUME CurveInv, NEW p \in Payers, CurveStep(p)
    PROVE  OnSignedTerms(p)
  <1> DEFINE o == order[p]
             x == o.x
             l == o.lots
             u == Unit * l
             bdue == BuyDue(o)
             sdue == SellDue(o)
             outA == Only("a", u)
             outB == Only("b", x)
             moved == sold_lots' - sold_lots
  <1>0. "fee" \in Coins /\ "a" \in Coins /\ "b" \in Coins /\ "a" \in {"a", "b"} /\ "b" \in {"a", "b"}
    BY DEF Coins
  <1>1. /\ o \in Slots /\ x \in Nat /\ l \in Nat /\ u \in Nat
        /\ bdue \in Purses /\ sdue \in Purses
        /\ bdue["a"] = 0 /\ bdue["b"] = x /\ sdue["a"] = u /\ sdue["b"] = 0
    BY DueFacts DEF CurveInv, MarketInv, MarketType
  <1>2. /\ outA["a"] = u /\ outA["b"] = 0 /\ outB["a"] = 0 /\ outB["b"] = x
    BY DEF Only, Coins
  <1>3. outA \in Purses /\ outB \in Purses
    <2> HIDE DEF x, u
    <2> QED BY <1>0, <1>1, PurseTypes
  <1>4. sold_lots \in Nat
    BY DEF CurveInv, CurveType
  <1>5. ASSUME NEW due \in {bdue, sdue}, NEW out \in {outA, outB}, Moves(p, due, out)
        PROVE  /\ consumed[p] < o.nonce /\ consumed'[p] = o.nonce
               /\ \A c \in Coins : Took(p, c) = due[c]
               /\ Got(p, "a") = out["a"] /\ Got(p, "b") = out["b"]
    <2>1. due \in Purses /\ out \in Purses
      BY <1>1, <1>3
    <2> HIDE DEF bdue, sdue, outA, outB
    <2> QED BY <1>0, <1>5, <2>1, MovesMoney
  <1>6. CASE Bought(p)
    <2>1. o.kind = 1 /\ o.expected_sold = sold_lots /\ Moves(p, bdue, outA) /\ sold_lots' = sold_lots + l
      BY <1>6 DEF Bought
    <2>2. moved = l
      <3> HIDE DEF l
      <3> QED BY <1>1, <1>4, <2>1
    <2>3. Due(o) = bdue
      BY <2>1 DEF Due
    <2> QED BY <1>2, <1>5, <2>1, <2>2, <2>3 DEF OnSignedTerms
  <1>7. CASE Sold(p)
    <2>1. o.kind = 2 /\ o.expected_sold = sold_lots /\ Moves(p, sdue, outB) /\ sold_lots' = sold_lots - l
      BY <1>7 DEF Sold
    <2>2. moved = -l
      <3> HIDE DEF l
      <3> QED BY <1>1, <1>4, <2>1
    <2>3. Due(o) = sdue
      BY <2>1 DEF Due
    <2> QED BY <1>2, <1>5, <2>1, <2>2, <2>3 DEF OnSignedTerms
  <1>8. CASE Returned(p)
    <2>1. moved = 0
      BY <1>4, <1>8 DEF Returned, curveVars
    <2>2. CASE o.kind = 1 /\ Moves(p, bdue, outB)
      <3>1. Due(o) = bdue
        BY <2>2 DEF Due
      <3> QED BY <1>1, <1>2, <1>5, <2>1, <2>2, <3>1 DEF OnSignedTerms
    <2>3. CASE o.kind = 2 /\ Moves(p, sdue, outA)
      <3>1. Due(o) = sdue
        BY <2>3 DEF Due
      <3> QED BY <1>1, <1>2, <1>5, <2>1, <2>3, <3>1 DEF OnSignedTerms
    <2> QED BY <1>8, <2>2, <2>3 DEF Returned
  <1> QED BY <1>6, <1>7, <1>8 DEF CurveStep

LEMMA OthersUntouched ==
    ASSUME CurveInv, NEW p \in Payers, CurveStep(p), NEW q \in Payers, q # p
    PROVE  claimed'[q] = claimed[q] /\ paid'[q] = paid[q]
  BY StepTakesDue, MovesMoney

(* What the issuer pays touches nobody else.                               *)
LEMMA IssuerPays ==
    ASSUME CurveInv, Started \/ Ended
    PROVE  /\ phase' = phase + 1 /\ paid' = paid
           /\ \A q \in Payers : q # Issuer =>
                claimed'[q] = claimed[q] /\ settled'[q] = settled[q] /\ consumed'[q] = consumed[q]
           /\ order' = order /\ sent' = sent
  <1>1. PICK due, out : TakesFrom(due, out)
    BY DEF Started, Ended
  <1>2. phase' = phase + 1
    BY DEF Started, Ended
  <1>3. claimed = settled /\ claimed' = settled' /\ settled \in [Payers -> Purses]
    BY <1>1 DEF TakesFrom, CurveInv, MarketInv, MarketType, CursorsAreClaims
  <1>4. \A q \in Payers : q # Issuer => settled'[q] = settled[q]
    BY <1>1, <1>3 DEF TakesFrom
  <1> QED BY <1>1, <1>2, <1>3, <1>4 DEF TakesFrom, payerVars

(* Money of a payer moves only for its present order, once for its nonce,  *)
(* at the quote it signed or back; the issuer pays for start and end.      *)
THEOREM SignedTerms == Spec => SettledOnSignedTerms
  <1>1. IInv /\ [Next]_vars =>
            [\A p \in Payers :
                (claimed'[p] # claimed[p] \/ paid'[p] # paid[p])
                    => OnSignedTerms(p) \/ (p = Issuer /\ paid' = paid /\ phase' = phase + 1)]_vars
    <2> SUFFICES ASSUME IInv, Next, NEW p \in Payers, claimed'[p] # claimed[p] \/ paid'[p] # paid[p]
                 PROVE  OnSignedTerms(p) \/ (p = Issuer /\ paid' = paid /\ phase' = phase + 1)
      OBVIOUS
    <2>0. CurveInv
      BY DEF IInv
    <2>1. ~ UNCHANGED vaultVars
      BY DEF vaultVars
    <2>2. ~ \E q \in Payers : Payer(q)
      BY <2>1, PayerInv
    <2>3. ~ NewCheckpoint
      BY <2>1 DEF NewCheckpoint
    <2>4. (\E q \in Payers : CurveStep(q)) \/ Started \/ Ended
      BY <2>0, <2>2, <2>3, Steps
    <2>5. ASSUME NEW q \in Payers, CurveStep(q) PROVE OnSignedTerms(p)
      <3>1. q = p
        BY <2>0, <2>5, OthersUntouched
      <3> QED BY <2>0, <2>5, <3>1, StepOnTerms
    <2>6. ASSUME Started \/ Ended PROVE p = Issuer /\ paid' = paid /\ phase' = phase + 1
      BY <2>0, <2>6, IssuerPays
    <2> QED BY <2>4, <2>5, <2>6
  <1> QED BY <1>1, AlwaysInv, PTL DEF Spec, SettledOnSignedTerms

-----------------------------------------------------------------------------
(* Nothing is stuck: what a careful payer has with the curve is nothing,   *)
(* or exactly what its unsettled order needs.                              *)
Held(p, c) == sent[p][c] - settled[p][c]

Even(p) == \A c \in Coins : Held(p, c) = 0

Whole(p) ==
    /\ order[p].kind # 0 /\ order[p].nonce > consumed[p]
    /\ \A c \in Coins : Held(p, c) = Due(order[p])[c]

CarefulInv == \A p \in Payers \ Careless : Even(p) \/ Whole(p)

LEMMA HeldFacts ==
    ASSUME CurveInv, NEW p \in Payers
    PROVE  \A c \in Coins :
                /\ sent[p][c] \in Nat /\ settled[p][c] \in Nat
                /\ Held(p, c) = sent[p][c] - settled[p][c] /\ Held(p, c) \in Nat
  <1>1. sent[p] \in Purses /\ settled[p] \in Purses
    BY DEF CurveInv, MarketInv, MarketType
  <1>2. \A c \in Coins : sent[p][c] \in Nat /\ settled[p][c] \in Nat
    BY <1>1 DEF Purses
  <1>3. \A c \in Coins : settled[p][c] <= sent[p][c]
    BY DEF CurveInv, MarketInv, ProofsAreOld
  <1> QED BY <1>2, <1>3 DEF Held

LEMMA DuePurse ==
    ASSUME NEW o \in Slots
    PROVE  Due(o) \in Purses /\ Due(o)["fee"] > 0 /\ \A c \in Coins : Due(o)[c] \in Nat
  <1>1. Due(o) \in Purses /\ Due(o)["fee"] > 0
    BY DueFacts DEF Due
  <1> QED BY <1>1 DEF Purses

LEMMA InitCareful == Init => CarefulInv
  <1> SUFFICES ASSUME Init, NEW p \in Payers, NEW c \in Coins PROVE Held(p, c) = 0
    BY DEF CarefulInv, Even
  <1>1. sent[p] = Empty /\ settled[p] = Empty
    BY DEF Init, MarketInit
  <1> QED BY <1>1, PurseCoins DEF Held, Empty, Purse

(* The step leaves p's money and order as they are.                        *)
LEMMA Untouched ==
    ASSUME NEW p \in Payers, Even(p) \/ Whole(p), sent'[p] = sent[p], settled'[p] = settled[p],
           order'[p] = order[p], consumed'[p] = consumed[p]
    PROVE  (Even(p) \/ Whole(p))'
  <1>1. \A c \in Coins : Held(p, c)' = Held(p, c)
    BY DEF Held
  <1>2. Due(order[p])' = Due(order[p])
    BY DEF Due, BuyDue, SellDue, SellTokens, LotTokens
  <1> QED BY <1>1, <1>2 DEF Even, Whole

LEMMA CarefulStep ==
    ASSUME CurveInv, CarefulInv, NEW p \in Payers, CurveStep(p)
    PROVE  CarefulInv'
  <1> DEFINE due == Due(order[p])
  <1>1. due \in Purses /\ due["fee"] > 0 /\ \A c \in Coins : due[c] \in Nat
    BY DuePurse DEF CurveInv, MarketInv, MarketType
  <1>2. PICK out \in Purses : Moves(p, due, out)
    BY StepTakesDue
  <1> HIDE DEF due
  <1>3. /\ settled \in [Payers -> Purses] /\ consumed \in [Payers -> Nat]
        /\ order' = order /\ sent' = sent
    BY <1>2 DEF CurveInv, MarketInv, MarketType, Moves, payerVars
  <1>4. ASSUME NEW q \in Payers \ Careless PROVE (Even(q) \/ Whole(q))'
    <2>1. CASE q # p
      <3>1. settled'[q] = settled[q] /\ consumed'[q] = consumed[q]
        BY <1>2, <1>3, <2>1 DEF Moves
      <3> QED BY <1>3, <3>1, Untouched DEF CarefulInv
    <2>2. CASE q = p
      <3>1. settled'[p] = Plus(settled[p], due) /\ MarketInv(Slots)'
        BY <1>2, <1>3 DEF Moves
      <3>2. \A c \in Coins : settled'[p][c] = settled[p][c] + due[c] /\ settled'[p][c] <= sent[p][c]
        BY <1>3, <3>1 DEF Plus, MarketInv, ProofsAreOld
      <3>3. \A c \in Coins : Held(p, c) \in Nat /\ Held(p, c) >= due[c] /\ Held(p, c)' = Held(p, c) - due[c]
        BY <1>1, <1>3, <3>2, HeldFacts DEF Held
      <3>4. ~ Even(p)
        <4>1. "fee" \in Coins
          BY DEF Coins
        <4> QED BY <1>1, <3>3, <4>1 DEF Even
      <3>5. \A c \in Coins : Held(p, c) = due[c]
        BY <2>2, <3>4 DEF CarefulInv, Whole, due
      <3>6. \A c \in Coins : Held(p, c)' = 0
        BY <1>1, <3>3, <3>5
      <3> QED BY <2>2, <3>6 DEF Even
    <2> QED BY <2>1, <2>2
  <1> QED BY <1>4 DEF CarefulInv

LEMMA CarefulIssuer ==
    ASSUME CurveInv, CarefulInv, Started \/ Ended
    PROVE  CarefulInv'
  <1>1. \A q \in Payers \ Careless : q # Issuer
    OBVIOUS
  <1> QED BY <1>1, IssuerPays, Untouched DEF CarefulInv

LEMMA CarefulPayer ==
    ASSUME IInv, CarefulInv, NEW p \in Payers, Payer(p)
    PROVE  CarefulInv'
  <1>0. CurveInv
    BY DEF IInv
  <1>1. settled' = settled /\ consumed' = consumed
    BY PayerInv DEF vaultVars
  <1>2. sent \in [Payers -> Purses] /\ order \in [Payers -> Slots]
    BY <1>0 DEF CurveInv, MarketInv, MarketType
  <1>3. \A q \in Payers : q # p => sent'[q] = sent[q] /\ order'[q] = order[q]
    <2>1. \/ sent' = sent \/ \E purse : sent' = [sent EXCEPT ![p] = Plus(sent[p], purse)]
      BY DEF Payer, OpenBuy, OpenSell, OpenFunded, OpenUnfunded, Pay, Pays, CloseBuy, CloseSell, Closes
    <2>2. \/ order' = order \/ \E o : order' = [order EXCEPT ![p] = o]
      BY DEF Payer, OpenBuy, OpenSell, OpenFunded, OpenUnfunded, Pay, Opens, CloseBuy, CloseSell, Closes
    <2> QED BY <1>2, <2>1, <2>2
  <1>4. ASSUME p \notin Careless PROVE (Even(p) \/ Whole(p))'
    <2>0. order[p] \in Slots /\ order[p].nonce \in Nat
      BY <1>2 DEF Slots
    <2>1. Even(p) \/ Whole(p)
      BY <1>4 DEF CarefulInv
    <2>2. ASSUME NEW o \in Orders, OpenBuy(p, o) \/ OpenSell(p, o) PROVE Whole(p)'
      <3>1. o \in Slots /\ o.kind # 0 /\ o.nonce \in Nat
        BY SlotFacts, <2>2 DEF OpenBuy, OpenSell, Slots
      <3>2. Opens(p, o) /\ Pays(p, Due(o))
        BY <1>4, <2>2, <3>1 DEF OpenBuy, OpenSell, OpenUnfunded, OpenFunded, Due
      <3>3. Even(p) /\ order'[p] = o /\ sent'[p] = Plus(sent[p], Due(o)) /\ o.nonce > order[p].nonce
        BY <1>2, <2>1, <3>2 DEF Opens, Pays, Whole
      <3>4. consumed[p] <= order[p].nonce /\ consumed[p] \in Nat
        BY <1>0 DEF CurveInv, MarketInv, MarketType, ProofsAreOld
      <3>5. ASSUME NEW c \in Coins PROVE Held(p, c)' = Due(o)[c]
        <4>1. sent[p][c] \in Nat /\ settled[p][c] \in Nat /\ Due(o)[c] \in Nat /\ sent[p][c] - settled[p][c] = 0
          BY <1>0, <3>1, <3>3, HeldFacts, DuePurse DEF Even
        <4>2. sent'[p][c] = sent[p][c] + Due(o)[c]
          BY <3>3 DEF Plus
        <4> QED BY <1>1, <4>1, <4>2 DEF Held
      <3>6. Due(order[p])' = Due(o)
        BY <3>3 DEF Due, BuyDue, SellDue, SellTokens, LotTokens
      <3> QED BY <1>1, <2>0, <3>1, <3>3, <3>4, <3>5, <3>6 DEF Whole
    <2>3. ~ \E payment \in Payments : Pay(p, payment)
      BY <1>4 DEF Pay
    <2>4. ASSUME NEW coins, "fee" \in coins, Closes(p, coins) PROVE Even(p)'
      <3>1. PICK r \in seen[p] : sent[p]["fee"] = r.settled["fee"]
        BY <2>4 DEF Closes, NothingUnsettled
      <3>2. "fee" \in Coins
        BY DEF Coins
      <3>3. r.settled["fee"] <= settled[p]["fee"]
        BY <1>0, <3>2 DEF CurveInv, MarketInv, ProofsAreOld
      <3>4. Held(p, "fee") = 0
        <4>1. /\ sent[p]["fee"] \in Nat /\ settled[p]["fee"] \in Nat
              /\ Held(p, "fee") = sent[p]["fee"] - settled[p]["fee"] /\ Held(p, "fee") \in Nat
          BY <1>0, <3>2, HeldFacts
        <4> QED BY <3>1, <3>3, <4>1
      <3>5. Even(p)
        <4>1. Due(order[p])["fee"] > 0
          BY <2>0, DuePurse
        <4> QED BY <2>1, <3>2, <3>4, <4>1 DEF Whole
      <3>6. sent' = sent
        BY <2>4 DEF Closes
      <3> QED BY <1>1, <3>5, <3>6 DEF Even, Held
    <2>5. CASE CloseBuy(p) \/ CloseSell(p)
      BY <2>4, <2>5 DEF CloseBuy, CloseSell
    <2> QED BY <2>2, <2>3, <2>5 DEF Payer
  <1>5. ASSUME NEW q \in Payers \ Careless PROVE (Even(q) \/ Whole(q))'
    <2>1. CASE q = p
      BY <1>4, <2>1
    <2>2. CASE q # p
      BY <1>1, <1>3, <2>2, Untouched DEF CarefulInv
    <2> QED BY <2>1, <2>2
  <1> QED BY <1>5 DEF CarefulInv

LEMMA CarefulNext == IInv /\ CarefulInv /\ [Next]_vars => CarefulInv'
  <1> SUFFICES ASSUME IInv, CarefulInv, [Next]_vars PROVE CarefulInv'
    OBVIOUS
  <1>0. CurveInv
    BY DEF IInv
  <1>1. CASE UNCHANGED <<sent, settled, order, consumed>>
    BY <1>1, Untouched DEF CarefulInv
  <1>2. CASE NewCheckpoint
    BY <1>1, <1>2 DEF NewCheckpoint, payerVars, vaultVars
  <1>3. CASE UNCHANGED vars
    BY <1>1, <1>3 DEF vars, marketVars, payerVars, vaultVars
  <1> QED BY <1>0, <1>2, <1>3, Steps, CarefulStep, CarefulPayer, CarefulIssuer

(* Once the curve is funded, an order opened by the clients' stack can     *)
(* always be refunded or closed.                                           *)
THEOREM Unstuck == Spec => []NothingStuck
  <1>1. IInv /\ CarefulInv => NothingStuck
    <2> SUFFICES ASSUME IInv, CarefulInv, NEW p \in Payers \ Careless, phase # 0, order[p].kind # 0
                 PROVE  CanRefund(p) \/ CanClose(p)
      BY DEF NothingStuck
    <2>0. CurveInv /\ Refundable /\ order[p] \in Slots
      BY DEF IInv, CurveInv, CurveType, Refundable, MarketInv, MarketType
    <2>1. \A c \in Coins : sent[p][c] \in Nat /\ settled[p][c] \in Nat /\ Held(p, c) = sent[p][c] - settled[p][c]
      BY <2>0, HeldFacts
    <2>2. CASE Even(p)
      <3>1. \A c \in Coins : sent[p][c] = settled[p][c]
        BY <2>1, <2>2 DEF Even
      <3> QED BY <3>1 DEF CanClose, NothingUnsettled, Receipt
    <2>3. CASE Whole(p)
      <3>1. \A c \in Coins : sent[p][c] = settled[p][c] + Due(order[p])[c]
        <4>1. \A c \in Coins : Due(order[p])[c] \in Nat
          BY <2>0, DuePurse
        <4> QED BY <2>1, <2>3, <4>1 DEF Whole
      <3> QED BY <2>0, <2>3, <3>1 DEF CanRefund, IsOpen, IsFunded, Now, View, Whole
    <2> QED BY <2>2, <2>3 DEF CarefulInv
  <1>2. Spec => [](IInv /\ CarefulInv)
    BY InitCareful, CarefulNext, InitInv, NextInv, PTL DEF Spec
  <1> QED BY <1>1, <1>2, PTL
=============================================================================
