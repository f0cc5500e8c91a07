--------------------------- MODULE U124AmmProofs ----------------------------
(***************************************************************************)
(* Proofs about the pool for any payers, orders, amounts, fees and         *)
(* payments, and for proofs of any age.                                    *)
(***************************************************************************)
EXTENDS U124AmmProps, U124MarketProofs, Sums

USE MarketAssumption, AmmAssumption

-----------------------------------------------------------------------------
(* Products of natural numbers.                                            *)
LEMMA TimesMonotone ==
    ASSUME NEW a \in Nat, NEW b \in Nat, NEW c \in Nat, a <= b
    PROVE  c * a <= c * b /\ a * c <= b * c
  OBVIOUS

LEMMA TimesCancel ==
    ASSUME NEW a \in Nat, NEW b \in Nat, NEW c \in Nat, c > 0, c * a <= c * b
    PROVE  a <= b
  OBVIOUS

(* A quotient bounded from above is a fair price, whatever the fee.         *)
LEMMA TradeIsFair ==
    ASSUME NEW in \in Nat, NEW rin \in Nat, NEW rout \in Nat, NEW out \in Nat,
           QuoteNotTooHigh(out, rin, rout, in)
    PROVE  out * (rin + in) <= in * rout
  <1> DEFINE num == FeeNum
             den == FeeDen
  <1>0. num \in Nat /\ den \in Nat /\ num > 0 /\ num <= den
    OBVIOUS
  <1>q. out * (den * rin + num * in) <= (num * in) * rout
    BY DEF QuoteNotTooHigh, Denominator, Numerator, Effective
  <1> HIDE DEF num, den
  <1>1. num * rin <= den * rin
    BY <1>0, TimesMonotone
  <1>2. num * (rin + in) <= den * rin + num * in
    BY <1>0, <1>1
  <1> DEFINE low == num * (rin + in)
             high == den * rin + num * in
  <1>3. low \in Nat /\ high \in Nat /\ low <= high
    BY <1>0, <1>2
  <1>4. out * low <= out * high
    <2> HIDE DEF low, high
    <2> QED BY <1>3, TimesMonotone
  <1>5. out * low <= (num * in) * rout
    <2>1. out * high <= (num * in) * rout
      BY <1>q
    <2>2. out * low \in Nat /\ out * high \in Nat /\ (num * in) * rout \in Nat
      <3> HIDE DEF low, high
      <3> QED BY <1>0, <1>3
    <2> HIDE DEF low, high
    <2> QED BY <1>4, <2>1, <2>2
  <1>6. num * (out * (rin + in)) <= num * (in * rout)
    BY <1>0, <1>5
  <1>7. out * (rin + in) \in Nat /\ in * rout \in Nat
    OBVIOUS
  <1> QED BY <1>0, <1>6, <1>7, TimesCancel

(* A fair price leaves something, and the product of the reserves.         *)
LEMMA TradeKeepsProduct ==
    ASSUME NEW in \in Nat, NEW rin \in Nat, NEW rout \in Nat, NEW out \in Nat,
           rin > 0, rout > 0, out * (rin + in) <= in * rout
    PROVE  out < rout /\ (rin + in) * (rout - out) >= rin * rout
  <1>1. (rin + in) * (rout - out) = rin * rout + in * rout - out * (rin + in)
    OBVIOUS
  <1>2. in * rout < (rin + in) * rout
    OBVIOUS
  <1>3. SUFFICES ASSUME out >= rout PROVE FALSE
    BY <1>1
  <1>4. (rin + in) * rout <= (rin + in) * out
    BY <1>3, TimesMonotone
  <1>5. (rin + in) * out = out * (rin + in)
    OBVIOUS
  <1> QED BY <1>2, <1>4, <1>5

(* A part of fewer shares than there are is less than the whole.          *)
LEMMA PartIsSmaller ==
    ASSUME NEW a \in Nat, NEW r \in Nat, NEW t \in Nat, NEW x \in Nat,
           r > 0, x < t, a * t <= x * r
    PROVE  a < r
  <1>1. x * r < t * r
    OBVIOUS
  <1>2. SUFFICES ASSUME r <= a PROVE FALSE
    OBVIOUS
  <1>3. r * t <= a * t
    BY <1>2, TimesMonotone
  <1> DEFINE y == x * r
             w == a * t
             u == t * r
  <1>4. y \in Nat /\ w \in Nat /\ u \in Nat /\ y < u /\ u <= w /\ w <= y
    BY <1>1, <1>3
  <1> QED BY <1>4

(* If neither reserve falls per share, their product does not.             *)
LEMMA ProductOfParts ==
    ASSUME NEW a \in Nat, NEW b \in Nat, NEW c \in Nat, NEW d \in Nat,
           NEW t \in Nat, NEW u \in Nat, a * t >= c * u, b * t >= d * u
    PROVE  a * b * t * t >= c * d * u * u
  <1> DEFINE w == a * t
             x == b * t
             y == c * u
             z == d * u
  <1>1. w \in Nat /\ x \in Nat /\ y \in Nat /\ z \in Nat /\ y <= w /\ z <= x
    OBVIOUS
  <1>2. y * z <= w * x
    <2> HIDE DEF w, x, y, z
    <2>1. y * z <= w * z /\ w * z <= w * x
      BY <1>1, TimesMonotone
    <2> QED BY <1>1, <2>1
  <1>3. w * x = a * b * t * t /\ y * z = c * d * u * u
    OBVIOUS
  <1> QED BY <1>2, <1>3

-----------------------------------------------------------------------------
(* Slots, and what an order sends.                                         *)
LEMMA SlotFacts ==
    /\ AreSlots(Slots)
    /\ NoOrder \in Slots /\ NoOrder.kind = 0 /\ NoOrder.nonce = 0
    /\ \A o \in Orders : o \in Slots
    /\ \A o \in Slots : [o EXCEPT !.kind = 0] \in Slots /\ [o EXCEPT !.kind = 0].nonce = o.nonce
  BY DEF AreSlots, Slots, NoOrder, SwapOrders, AddOrders, RemoveOrders

LEMMA DueFacts ==
    ASSUME NEW o \in Slots
    PROVE  /\ SwapDue0(o) \in Purses /\ SwapDue1(o) \in Purses
           /\ AddDue(o) \in Purses /\ RemoveDue(o) \in Purses
           /\ SwapDue0(o)["fee"] > 0 /\ SwapDue1(o)["fee"] > 0
           /\ AddDue(o)["fee"] > 0 /\ RemoveDue(o)["fee"] > 0
  <1>1. o.x \in Nat /\ o.y \in Nat
    BY DEF Slots
  <1>2. FeeEscrow \in Nat /\ FeeEscrow > 0
    OBVIOUS
  <1> QED BY <1>1, <1>2, PurseTypes, PurseCoins DEF SwapDue0, SwapDue1, AddDue, RemoveDue

(* The invariant without the market's part.                                *)
PoolInv == PoolType /\ Custody /\ PoolIsWhole

LEMMA InitInv == Init => AmmInv
  <1> SUFFICES ASSUME Init PROVE AmmInv
    OBVIOUS
  <1>1. MarketInv(Slots)
    BY SlotFacts, InitCorrect DEF Init
  <1>2. vault["a"] = 0 /\ vault["b"] = 0
    BY PurseCoins, PurseTypes DEF Init, MarketInit
  <1>3. PoolType /\ Custody /\ PoolIsWhole
    BY <1>2 DEF Init, PoolType, Custody, PoolIsWhole
  <1> QED BY <1>1, <1>3 DEF AmmInv

LEMMA PoolStays ==
    ASSUME PoolInv, UNCHANGED <<poolVars, vault>>
    PROVE  PoolInv'
  BY DEF PoolInv, PoolType, Custody, PoolIsWhole, poolVars

LEMMA PayerInv ==
    ASSUME AmmInv, NEW p \in Payers, Payer(p)
    PROVE  AmmInv' /\ UNCHANGED <<poolVars, vaultVars>>
  <1> USE SlotFacts
  <1>0. MarketInv(Slots) /\ PoolInv
    BY DEF AmmInv, PoolInv
  <1>1. SUFFICES MarketInv(Slots)' /\ UNCHANGED <<poolVars, vaultVars>>
    BY <1>0, PoolStays DEF vaultVars, AmmInv, PoolInv
  <1>2. ASSUME NEW o \in Orders, OpenSwap(p, o) \/ OpenAdd(p, o) \/ OpenRemove(p, o)
        PROVE  MarketInv(Slots)' /\ UNCHANGED <<poolVars, vaultVars>>
    <2>1. o \in Slots
      OBVIOUS
    <2>2. UNCHANGED poolVars
      BY <1>2 DEF OpenSwap, OpenAdd, OpenRemove
    <2>3. OpenUnfunded(p, o) \/ \E due \in Purses : OpenFunded(p, o, due)
      BY <1>2, <2>1, DueFacts DEF OpenSwap, OpenAdd, OpenRemove
    <2>4. MarketInv(Slots)'
      BY <1>0, <2>1, <2>3, OpenUnfundedKeeps, OpenFundedKeeps
    <2>5. PayerMoves(p)
      BY <2>3 DEF OpenUnfunded, OpenFunded
    <2> QED BY <2>2, <2>4, <2>5 DEF PayerMoves
  <1>3. ASSUME NEW payment \in Payments, Pay(p, payment), UNCHANGED poolVars
        PROVE  MarketInv(Slots)' /\ UNCHANGED <<poolVars, vaultVars>>
    BY <1>0, <1>3, PayKeeps DEF Pay, PayerMoves
  <1>4. ASSUME CloseSwap0(p) \/ CloseSwap1(p) \/ CloseAdd(p) \/ CloseRemove(p)
        PROVE  MarketInv(Slots)' /\ UNCHANGED <<poolVars, vaultVars>>
    <2>1. PICK coins \in {{"fee", "a"}, {"fee", "b"}, {"fee", "a", "b"}, {"fee"}} : Closes(p, coins)
      BY <1>4 DEF CloseSwap0, CloseSwap1, CloseAdd, CloseRemove
    <2>2. UNCHANGED poolVars
      BY <1>4 DEF CloseSwap0, CloseSwap1, CloseAdd, CloseRemove
    <2>3. MarketInv(Slots)'
      BY <1>0, <2>1, ClosesKeeps
    <2> QED BY <2>1, <2>2, <2>3 DEF Closes, PayerMoves
  <1> QED BY <1>2, <1>3, <1>4 DEF Payer

-----------------------------------------------------------------------------
(* One stack of the pool: what it does to the payer and to the vault.      *)
Moves(p, due, out) ==
    /\ order[p].nonce > consumed[p]
    /\ settled' = [settled EXCEPT ![p] = Plus(settled[p], due)]
    /\ paid' = [paid EXCEPT ![p] = Plus(paid[p], out)]
    /\ consumed' = [consumed EXCEPT ![p] = order[p].nonce]
    /\ vault'["a"] = vault["a"] + due["a"] - out["a"]
    /\ vault'["b"] = vault["b"] + due["b"] - out["b"]
    /\ UNCHANGED <<checkpoint, payerVars>>
    /\ MarketInv(Slots)'

LEMMA StackMoves ==
    ASSUME AmmInv, NEW v \in views, NEW p \in Payers, NEW kind \in 1..3, IsOpen(v, p, kind),
           NEW due \in Purses, due["fee"] > 0, NEW out \in Purses, NEW fee \in Fees,
           Serves(v, p, due, out, fee)
    PROVE  /\ order[p] = v.order[p] /\ order[p].kind = kind
           /\ Moves(p, due, out)
  <1>1. MarketInv(Slots) /\ AreSlots(Slots) /\ fee \in Nat
    BY SlotFacts DEF AmmInv
  <1>2. v.order[p].kind = kind /\ v.order[p].kind # 0 /\ v.order[p].nonce > consumed[p]
    BY DEF IsOpen
  <1>3. order[p] = v.order[p]
    BY <1>1, <1>2, ServesMoves
  <1> QED BY <1>1, <1>2, <1>3, ServesMoves DEF Moves

LEMMA SlotOf ==
    ASSUME AmmInv, NEW v \in views, NEW p \in Payers
    PROVE  v.order[p] \in Slots /\ order[p] \in Slots
  BY DEF AmmInv, MarketInv, MarketType, Views

(* The pool's steps, with the views gone: each is about the payer's        *)
(* present order, and says what the quotient says of the price.            *)
PoolFits ==
    /\ reserve_a' \in 0..MaxAmount /\ reserve_b' \in 0..MaxAmount
    /\ total_shares' \in 0..MaxAmount /\ shares' \in [Payers -> 0..MaxAmount]

Swapped0(p, output) ==
    /\ order[p].kind = 1 /\ order[p].side = 0
    /\ output \in Nat /\ output >= order[p].y
    /\ Moves(p, SwapDue0(order[p]), Only("b", output))
    /\ reserve_a > 0 /\ reserve_b > 0
    /\ reserve_a' = reserve_a + order[p].x /\ reserve_b' = reserve_b - output
    /\ UNCHANGED <<total_shares, shares>>
    /\ output * (reserve_a + order[p].x) <= order[p].x * reserve_b
    /\ PoolFits

Swapped1(p, output) ==
    /\ order[p].kind = 1 /\ order[p].side = 1
    /\ output \in Nat /\ output >= order[p].y
    /\ Moves(p, SwapDue1(order[p]), Only("a", output))
    /\ reserve_a > 0 /\ reserve_b > 0
    /\ reserve_b' = reserve_b + order[p].x /\ reserve_a' = reserve_a - output
    /\ UNCHANGED <<total_shares, shares>>
    /\ output * (reserve_b + order[p].x) <= order[p].x * reserve_a
    /\ PoolFits

(* A later deposit brings at least its part of each reserve.               *)
Added(p, minted) ==
    LET o == order[p] IN
    /\ o.kind = 2
    /\ minted \in Nat /\ minted > 0 /\ minted >= o.z
    /\ Moves(p, AddDue(o), Empty)
    /\ reserve_a' = reserve_a + o.x /\ reserve_b' = reserve_b + o.y
    /\ shares' = [shares EXCEPT ![p] = shares[p] + minted]
    /\ \/ /\ total_shares = 0 /\ total_shares' = minted + LockedShares
          /\ reserve_a' > 0 /\ reserve_b' > 0
       \/ /\ total_shares > 0 /\ total_shares' = total_shares + minted
          /\ minted * reserve_a <= o.x * total_shares
          /\ minted * reserve_b <= o.y * total_shares
    /\ PoolFits

Removed(p, a, b) ==
    LET o == order[p] IN
    /\ o.kind = 3
    /\ a \in Nat /\ b \in Nat /\ a >= o.y /\ b >= o.z
    /\ Moves(p, RemoveDue(o), Purse(0, a, b))
    /\ o.x <= shares[p] /\ LockedShares <= total_shares - o.x
    /\ reserve_a' = reserve_a - a /\ reserve_b' = reserve_b - b
    /\ shares' = [shares EXCEPT ![p] = shares[p] - o.x]
    /\ total_shares' = total_shares - o.x
    /\ a * total_shares <= o.x * reserve_a
    /\ b * total_shares <= o.x * reserve_b
    /\ PoolFits

Returned(p) ==
    LET o == order[p] IN
    /\ \/ o.kind = 1 /\ o.side = 0 /\ Moves(p, SwapDue0(o), Only("a", o.x))
       \/ o.kind = 1 /\ o.side = 1 /\ Moves(p, SwapDue1(o), Only("b", o.x))
       \/ o.kind = 2 /\ Moves(p, AddDue(o), Purse(0, o.x, o.y))
       \/ o.kind = 3 /\ Moves(p, RemoveDue(o), Empty)
    /\ UNCHANGED poolVars

PoolStep(p) ==
    \/ \E output \in Nat : Swapped0(p, output) \/ Swapped1(p, output)
    \/ \E minted \in Nat : Added(p, minted)
    \/ \E a, b \in Nat : Removed(p, a, b)
    \/ Returned(p)

LEMMA Swap0Facts ==
    ASSUME AmmInv, NEW v \in views, NEW p \in Payers, NEW fee \in Fees, Swap0(v, p, fee)
    PROVE  \E output \in Nat : Swapped0(p, output)
  <1>1. PICK output \in Amounts :
            /\ SwapTerms0(v, p, output)
            /\ QuoteNotTooHigh(output, reserve_a, reserve_b, v.order[p].x)
            /\ PoolAfterSwap0(v.order[p].x, output)
            /\ Serves(v, p, SwapDue0(v.order[p]), Only("b", output), fee)
    BY DEF Swap0
  <1>2. output \in Nat /\ v.order[p] \in Slots /\ v.order[p].x \in Nat
    BY SlotOf DEF Amounts, Slots
  <1>3. Only("b", output) \in Purses
    BY <1>2, PurseTypes
  <1>4. IsOpen(v, p, 1) /\ v.order[p].side = 0 /\ reserve_a > 0 /\ reserve_b > 0
    BY DEF Swap0, SwapGuard0
  <1>5. /\ order[p] = v.order[p] /\ order[p].kind = 1
        /\ Moves(p, SwapDue0(v.order[p]), Only("b", output))
    <2> DEFINE due == SwapDue0(v.order[p])
               out == Only("b", output)
    <2>1. 1 \in 1..3
      OBVIOUS
    <2>2. due \in Purses /\ due["fee"] > 0
      BY <1>2, DueFacts
    <2>3. out \in Purses /\ Serves(v, p, due, out, fee)
      BY <1>1, <1>3
    <2> HIDE DEF due, out
    <2>4. order[p] = v.order[p] /\ order[p].kind = 1 /\ Moves(p, due, out)
      BY <1>4, <2>1, <2>2, <2>3, StackMoves
    <2> QED BY <2>4 DEF due, out
  <1>6. reserve_a \in Nat /\ reserve_b \in Nat
    BY DEF AmmInv, PoolType
  <1>7. output * (reserve_a + v.order[p].x) <= v.order[p].x * reserve_b
    BY <1>1, <1>2, <1>6, TradeIsFair
  <1>8. PoolFits
    BY <1>1 DEF PoolFits, PoolAfterSwap0, Fits, AmmInv, PoolType
  <1> QED BY <1>1, <1>2, <1>4, <1>5, <1>7, <1>8 DEF Swapped0, SwapTerms0, PoolAfterSwap0

LEMMA Swap1Facts ==
    ASSUME AmmInv, NEW v \in views, NEW p \in Payers, NEW fee \in Fees, Swap1(v, p, fee)
    PROVE  \E output \in Nat : Swapped1(p, output)
  <1>1. PICK output \in Amounts :
            /\ SwapTerms1(v, p, output)
            /\ OutputANotTooHigh(output, v.order[p].x)
            /\ PoolAfterSwap1(v.order[p].x, output)
            /\ Serves(v, p, SwapDue1(v.order[p]), Only("a", output), fee)
    BY DEF Swap1
  <1>2. output \in Nat /\ v.order[p] \in Slots /\ v.order[p].x \in Nat
    BY SlotOf DEF Amounts, Slots
  <1>3. Only("a", output) \in Purses
    BY <1>2, PurseTypes
  <1>4. IsOpen(v, p, 1) /\ v.order[p].side = 1 /\ reserve_a > 0 /\ reserve_b > 0
    BY DEF Swap1, SwapGuard1
  <1>5. /\ order[p] = v.order[p] /\ order[p].kind = 1
        /\ Moves(p, SwapDue1(v.order[p]), Only("a", output))
    <2> DEFINE due == SwapDue1(v.order[p])
               out == Only("a", output)
    <2>1. 1 \in 1..3
      OBVIOUS
    <2>2. due \in Purses /\ due["fee"] > 0
      BY <1>2, DueFacts
    <2>3. out \in Purses /\ Serves(v, p, due, out, fee)
      BY <1>1, <1>3
    <2> HIDE DEF due, out
    <2>4. order[p] = v.order[p] /\ order[p].kind = 1 /\ Moves(p, due, out)
      BY <1>4, <2>1, <2>2, <2>3, StackMoves
    <2> QED BY <2>4 DEF due, out
  <1>6. reserve_a \in Nat /\ reserve_b \in Nat
    BY DEF AmmInv, PoolType
  <1>7. output * (reserve_b + v.order[p].x) <= v.order[p].x * reserve_a
    BY <1>1, <1>2, <1>6, TradeIsFair DEF OutputANotTooHigh
  <1>8. PoolFits
    BY <1>1 DEF PoolFits, PoolAfterSwap1, Fits, AmmInv, PoolType
  <1> QED BY <1>1, <1>2, <1>4, <1>5, <1>7, <1>8 DEF Swapped1, SwapTerms1, PoolAfterSwap1

LEMMA AddFacts ==
    ASSUME AmmInv, NEW v \in views, NEW p \in Payers, NEW fee \in Fees, AddLiquidity(v, p, fee)
    PROVE  \E minted \in Nat : Added(p, minted)
  <1> DEFINE o == v.order[p]
  <1>1. PICK minted \in Amounts :
            /\ AddTerms(v, p, minted)
            /\ FirstShares(o.x, o.y, minted) \/ MoreShares(o.x, o.y, minted)
            /\ PoolAfterAdd(p, o.x, o.y, minted)
            /\ Serves(v, p, AddDue(o), Empty, fee)
    BY DEF AddLiquidity
  <1>2. minted \in Nat /\ minted > 0 /\ minted >= o.z
    <2>1. o \in Slots /\ o.z \in Nat
      BY SlotOf DEF Slots
    <2> QED BY <1>1, <2>1 DEF Amounts, AddTerms
  <1>3. o \in Slots /\ o.x \in Nat /\ o.y \in Nat
    BY SlotOf DEF Slots
  <1>4. IsOpen(v, p, 2)
    BY DEF AddLiquidity, AddGuard
  <1>5. order[p] = o /\ o.kind = 2 /\ Moves(p, AddDue(o), Empty)
    <2> DEFINE due == AddDue(o)
    <2>1. 2 \in 1..3
      OBVIOUS
    <2>2. due \in Purses /\ due["fee"] > 0 /\ Serves(v, p, due, Empty, fee)
      BY <1>1, <1>3, DueFacts
    <2> HIDE DEF due
    <2>3. order[p] = v.order[p] /\ order[p].kind = 2 /\ Moves(p, due, Empty)
      BY <1>4, <2>1, <2>2, PurseTypes, StackMoves
    <2> QED BY <2>3 DEF due
  <1>6. /\ reserve_a \in Nat /\ reserve_b \in Nat /\ total_shares \in Nat
        /\ shares \in [Payers -> 0..MaxAmount]
    BY DEF AmmInv, PoolType
  <1> HIDE DEF o
  <1>7. /\ reserve_a' = reserve_a + o.x /\ reserve_b' = reserve_b + o.y
        /\ shares' = [shares EXCEPT ![p] = shares[p] + minted]
        /\ reserve_a' \in 0..MaxAmount /\ reserve_b' \in 0..MaxAmount
        /\ shares[p] + minted \in 0..MaxAmount
    BY <1>1 DEF PoolAfterAdd, Fits
  <1>8. \/ /\ total_shares = 0 /\ total_shares' = minted + LockedShares
           /\ reserve_a' > 0 /\ reserve_b' > 0
        \/ /\ total_shares > 0 /\ total_shares' = total_shares + minted
           /\ minted * reserve_a <= o.x * total_shares
           /\ minted * reserve_b <= o.y * total_shares
    <2>1. CASE MoreShares(o.x, o.y, minted)
      BY <2>1 DEF MoreShares, SharesANotTooHigh, SharesBNotTooHigh
    <2>2. CASE FirstShares(o.x, o.y, minted)
      <3>1. total_shares = 0 /\ total_shares' = minted + LockedShares /\ reserve_a = 0 /\ reserve_b = 0
        BY <2>2 DEF FirstShares
      <3> DEFINE gross == minted + LockedShares
      <3>2. gross \in Nat /\ gross > 0 /\ gross * gross <= o.x * o.y
        BY <1>2, <2>2 DEF FirstShares, RootNotTooHigh
      <3> HIDE DEF gross
      <3>3. gross * gross > 0
        BY <3>2
      <3>4. o.x # 0 /\ o.y # 0
        BY <1>3, <3>2, <3>3
      <3> QED BY <1>3, <1>7, <3>1, <3>4
    <2> QED BY <1>1, <2>1, <2>2
  <1>9. total_shares' \in 0..MaxAmount
    BY <1>1 DEF FirstShares, MoreShares, Fits
  <1>10. PoolFits
    BY <1>6, <1>7, <1>9 DEF PoolFits
  <1> QED BY <1>2, <1>5, <1>7, <1>8, <1>10 DEF Added

LEMMA RemoveFacts ==
    ASSUME AmmInv, NEW v \in views, NEW p \in Payers, NEW fee \in Fees, RemoveLiquidity(v, p, fee)
    PROVE  \E a, b \in Nat : Removed(p, a, b)
  <1> DEFINE o == v.order[p]
  <1>1. PICK a \in Amounts, b \in Amounts :
            /\ RemoveTerms(v, p, a, b)
            /\ WithdrawsANotTooMuch(a, o.x) /\ WithdrawsBNotTooMuch(b, o.x)
            /\ PoolAfterRemove(p, o.x, a, b)
            /\ Serves(v, p, RemoveDue(o), Purse(0, a, b), fee)
    BY DEF RemoveLiquidity
  <1>2. o \in Slots /\ o.x \in Nat /\ o.y \in Nat /\ o.z \in Nat
    BY SlotOf DEF Slots
  <1>3. a \in Nat /\ b \in Nat /\ a >= o.y /\ b >= o.z
    BY <1>1, <1>2 DEF Amounts, RemoveTerms
  <1>4. IsOpen(v, p, 3) /\ HasShares(p, o.x)
    BY DEF RemoveLiquidity, RemoveGuard
  <1>5. order[p] = o /\ o.kind = 3 /\ Moves(p, RemoveDue(o), Purse(0, a, b))
    <2> DEFINE due == RemoveDue(o)
               out == Purse(0, a, b)
    <2>1. 3 \in 1..3
      OBVIOUS
    <2>2. due \in Purses /\ due["fee"] > 0
      BY <1>2, DueFacts
    <2>3. out \in Purses /\ Serves(v, p, due, out, fee)
      BY <1>1, <1>3, PurseTypes
    <2> HIDE DEF due, out
    <2>4. order[p] = v.order[p] /\ order[p].kind = 3 /\ Moves(p, due, out)
      BY <1>4, <2>1, <2>2, <2>3, StackMoves
    <2> QED BY <2>4 DEF due, out
  <1>6. /\ reserve_a \in Nat /\ reserve_b \in Nat /\ total_shares \in 0..MaxAmount
        /\ shares \in [Payers -> 0..MaxAmount]
    BY DEF AmmInv, PoolType
  <1> HIDE DEF o
  <1>7. /\ reserve_a' = reserve_a - a /\ reserve_b' = reserve_b - b
        /\ shares' = [shares EXCEPT ![p] = shares[p] - o.x]
        /\ total_shares' = total_shares - o.x
        /\ reserve_a' \in 0..MaxAmount /\ reserve_b' \in 0..MaxAmount
    BY <1>1 DEF PoolAfterRemove, Fits
  <1>8. o.x <= shares[p] /\ LockedShares <= total_shares - o.x
    BY <1>4 DEF HasShares
  <1>9. shares[p] - o.x \in 0..MaxAmount /\ total_shares' \in 0..MaxAmount
    BY <1>2, <1>6, <1>7, <1>8
  <1>10. PoolFits
    BY <1>6, <1>7, <1>9 DEF PoolFits
  <1> QED BY <1>1, <1>3, <1>5, <1>7, <1>8, <1>10
          DEF Removed, WithdrawsANotTooMuch, WithdrawsBNotTooMuch

LEMMA Returns ==
    ASSUME AmmInv, NEW v \in views, NEW p \in Payers, NEW kind \in 1..3, IsOpen(v, p, kind),
           NEW due \in Purses, due["fee"] > 0, NEW a \in Nat, NEW b \in Nat, NEW fee \in Fees,
           Serves(v, p, due, Purse(0, a, b), fee)
    PROVE  order[p] = v.order[p] /\ order[p].kind = kind /\ Moves(p, due, Purse(0, a, b))
  <1> DEFINE out == Purse(0, a, b)
  <1>1. out \in Purses /\ Serves(v, p, due, out, fee)
    BY PurseTypes
  <1> HIDE DEF out
  <1>2. order[p] = v.order[p] /\ order[p].kind = kind /\ Moves(p, due, out)
    BY <1>1, StackMoves
  <1> QED BY <1>2 DEF out

LEMMA SamePurse == \A x : Only("a", x) = Purse(0, x, 0) /\ Only("b", x) = Purse(0, 0, x) /\ Empty = Purse(0, 0, 0)
  BY DEF Only, Purse, Empty, Coins

LEMMA ReturnFacts ==
    ASSUME AmmInv, NEW v \in views, NEW p \in Payers, NEW fee \in Fees,
           \/ RefundSwap0(v, p, fee) \/ RefundSwap1(v, p, fee)
           \/ RefundAdd(v, p, fee) \/ CancelRemove(v, p, fee)
    PROVE  Returned(p)
  <1> DEFINE o == v.order[p]
  <1>0. o \in Slots /\ o.x \in Nat /\ o.y \in Nat /\ 0 \in Nat
    BY SlotOf DEF Slots
  <1>1. 1 \in 1..3 /\ 2 \in 1..3 /\ 3 \in 1..3
    OBVIOUS
  <1>2. CASE RefundSwap0(v, p, fee)
    <2>1. IsOpen(v, p, 1) /\ Serves(v, p, SwapDue0(o), Purse(0, o.x, 0), fee) /\ o.side = 0
      BY <1>2, SamePurse DEF RefundSwap0
    <2>2. SwapDue0(o) \in Purses /\ SwapDue0(o)["fee"] > 0
      BY <1>0, DueFacts
    <2>3. order[p] = o /\ order[p].kind = 1 /\ Moves(p, SwapDue0(o), Purse(0, o.x, 0))
      BY <1>0, <1>1, <2>1, <2>2, Returns
    <2> QED BY <1>2, <2>1, <2>3, SamePurse DEF RefundSwap0, Returned
  <1>3. CASE RefundSwap1(v, p, fee)
    <2>1. IsOpen(v, p, 1) /\ Serves(v, p, SwapDue1(o), Purse(0, 0, o.x), fee) /\ o.side = 1
      BY <1>3, SamePurse DEF RefundSwap1
    <2>2. SwapDue1(o) \in Purses /\ SwapDue1(o)["fee"] > 0
      BY <1>0, DueFacts
    <2>3. order[p] = o /\ order[p].kind = 1 /\ Moves(p, SwapDue1(o), Purse(0, 0, o.x))
      BY <1>0, <1>1, <2>1, <2>2, Returns
    <2> QED BY <1>3, <2>1, <2>3, SamePurse DEF RefundSwap1, Returned
  <1>4. CASE RefundAdd(v, p, fee)
    <2>1. IsOpen(v, p, 2) /\ Serves(v, p, AddDue(o), Purse(0, o.x, o.y), fee)
      BY <1>4 DEF RefundAdd
    <2>2. AddDue(o) \in Purses /\ AddDue(o)["fee"] > 0
      BY <1>0, DueFacts
    <2>3. order[p] = o /\ order[p].kind = 2 /\ Moves(p, AddDue(o), Purse(0, o.x, o.y))
      BY <1>0, <1>1, <2>1, <2>2, Returns
    <2> QED BY <1>4, <2>1, <2>3 DEF RefundAdd, Returned
  <1>5. CASE CancelRemove(v, p, fee)
    <2>1. IsOpen(v, p, 3) /\ Serves(v, p, RemoveDue(o), Purse(0, 0, 0), fee)
      BY <1>5, SamePurse DEF CancelRemove
    <2>2. RemoveDue(o) \in Purses /\ RemoveDue(o)["fee"] > 0
      BY <1>0, DueFacts
    <2>3. order[p] = o /\ order[p].kind = 3 /\ Moves(p, RemoveDue(o), Purse(0, 0, 0))
      BY <1>0, <1>1, <2>1, <2>2, Returns
    <2> QED BY <1>5, <2>1, <2>3, SamePurse DEF CancelRemove, Returned
  <1> QED BY <1>2, <1>3, <1>4, <1>5

LEMMA PoolSteps ==
    ASSUME AmmInv, NEW v \in views, NEW p \in Payers, NEW fee \in Fees, Pool(v, p, fee)
    PROVE  PoolStep(p)
  BY Swap0Facts, Swap1Facts, AddFacts, RemoveFacts, ReturnFacts DEF Pool, PoolStep

-----------------------------------------------------------------------------
LEMMA SlotNumbers ==
    ASSUME AmmInv, NEW p \in Payers
    PROVE  /\ order[p] \in Slots /\ order[p].x \in Nat /\ order[p].y \in Nat /\ order[p].z \in Nat
           /\ order[p].nonce \in Nat /\ consumed[p] \in Nat
           /\ reserve_a \in Nat /\ reserve_b \in Nat /\ total_shares \in Nat
           /\ shares[p] \in Nat /\ vault["a"] \in Nat /\ vault["b"] \in Nat
  <1>1. order[p] \in Slots /\ consumed[p] \in Nat /\ vault \in Purses
    BY DEF AmmInv, MarketInv, MarketType
  <1>2. shares[p] \in 0..MaxAmount /\ reserve_a \in Nat /\ reserve_b \in Nat /\ total_shares \in Nat
    BY DEF AmmInv, PoolType
  <1>3. vault["a"] \in Nat /\ vault["b"] \in Nat
    BY <1>1, PurseTypes DEF Purses
  <1>4. order[p].x \in Nat /\ order[p].y \in Nat /\ order[p].z \in Nat /\ order[p].nonce \in Nat
    BY <1>1 DEF Slots
  <1> QED BY <1>1, <1>2, <1>3, <1>4

(* What a step does to the vault's assets it does to the reserves.         *)
LEMMA VaultFollows ==
    ASSUME AmmInv, NEW p \in Payers, NEW due \in Purses, NEW out \in Purses, Moves(p, due, out),
           reserve_a' = reserve_a + due["a"] - out["a"], reserve_b' = reserve_b + due["b"] - out["b"]
    PROVE  Custody' /\ MarketInv(Slots)'
  <1>1. vault["a"] = reserve_a /\ vault["b"] = reserve_b
    BY DEF AmmInv, Custody
  <1>2. vault'["a"] = reserve_a' /\ vault'["b"] = reserve_b'
    BY <1>1 DEF Moves
  <1> QED BY <1>2 DEF Moves, Custody

LEMMA PoolStepInv ==
    ASSUME AmmInv, NEW p \in Payers, PoolStep(p)
    PROVE  AmmInv'
  <1> USE SlotNumbers
  <1> DEFINE o == order[p]
  <1>0. Custody /\ PoolType /\ PoolIsWhole /\ o \in Slots
    BY DEF AmmInv
  <1>1. ASSUME NEW output \in Nat, Swapped0(p, output) PROVE AmmInv'
    <2>1. SwapDue0(o)["a"] = o.x /\ SwapDue0(o)["b"] = 0 /\ SwapDue0(o) \in Purses
      BY PurseCoins, DueFacts DEF SwapDue0
    <2>2. Only("b", output)["a"] = 0 /\ Only("b", output)["b"] = output /\ Only("b", output) \in Purses
      BY PurseCoins, PurseTypes
    <2>3. Custody' /\ MarketInv(Slots)'
      BY <1>1, <2>1, <2>2, VaultFollows DEF Swapped0
    <2>4. output < reserve_b
      BY <1>1, TradeKeepsProduct DEF Swapped0
    <2>5. reserve_a' > 0 /\ reserve_b' > 0
      BY <1>1, <2>4 DEF Swapped0
    <2>6. PoolType' /\ PoolIsWhole'
      BY <1>0, <1>1, <2>5 DEF Swapped0, PoolFits, PoolType, PoolIsWhole
    <2> QED BY <2>3, <2>6 DEF AmmInv
  <1>2. ASSUME NEW output \in Nat, Swapped1(p, output) PROVE AmmInv'
    <2>1. SwapDue1(o)["b"] = o.x /\ SwapDue1(o)["a"] = 0 /\ SwapDue1(o) \in Purses
      BY PurseCoins, DueFacts DEF SwapDue1
    <2>2. Only("a", output)["b"] = 0 /\ Only("a", output)["a"] = output /\ Only("a", output) \in Purses
      BY PurseCoins, PurseTypes
    <2>3. Custody' /\ MarketInv(Slots)'
      BY <1>2, <2>1, <2>2, VaultFollows DEF Swapped1
    <2>4. output < reserve_a
      BY <1>2, TradeKeepsProduct DEF Swapped1
    <2>5. reserve_a' > 0 /\ reserve_b' > 0
      BY <1>2, <2>4 DEF Swapped1
    <2>6. PoolType' /\ PoolIsWhole'
      BY <1>0, <1>2, <2>5 DEF Swapped1, PoolFits, PoolType, PoolIsWhole
    <2> QED BY <2>3, <2>6 DEF AmmInv
  <1>3. ASSUME NEW minted \in Nat, Added(p, minted) PROVE AmmInv'
    <2>1. AddDue(o)["a"] = o.x /\ AddDue(o)["b"] = o.y /\ AddDue(o) \in Purses
      BY PurseCoins, DueFacts DEF AddDue
    <2>2. Empty["a"] = 0 /\ Empty["b"] = 0 /\ Empty \in Purses
      BY PurseCoins, PurseTypes
    <2>3. Custody' /\ MarketInv(Slots)'
      BY <1>3, <2>1, <2>2, VaultFollows DEF Added
    <2>4. total_shares' > 0 /\ total_shares' >= LockedShares /\ reserve_a' > 0 /\ reserve_b' > 0
      BY <1>0, <1>3 DEF Added, PoolIsWhole
    <2>5. PoolType' /\ PoolIsWhole'
      BY <1>3, <2>4 DEF Added, PoolFits, PoolType, PoolIsWhole
    <2> QED BY <2>3, <2>5 DEF AmmInv
  <1>4. ASSUME NEW a \in Nat, NEW b \in Nat, Removed(p, a, b) PROVE AmmInv'
    <2>1. RemoveDue(o)["a"] = 0 /\ RemoveDue(o)["b"] = 0 /\ RemoveDue(o) \in Purses
      BY PurseCoins, DueFacts DEF RemoveDue
    <2>2. Purse(0, a, b)["a"] = a /\ Purse(0, a, b)["b"] = b /\ Purse(0, a, b) \in Purses
      <3>1. Purse(0, a, b) \in Purses
        <4>1. 0 \in Nat
          OBVIOUS
        <4> QED BY <4>1, PurseTypes
      <3> QED BY <3>1, PurseCoins
    <2>3. Custody' /\ MarketInv(Slots)'
      BY <1>4, <2>1, <2>2, VaultFollows DEF Removed
    <2>4. total_shares > 0 /\ total_shares' > 0 /\ total_shares' >= LockedShares /\ o.x < total_shares
      BY <1>4 DEF Removed
    <2>5. reserve_a > 0 /\ reserve_b > 0
      BY <1>0, <2>4 DEF PoolIsWhole
    <2>6. a < reserve_a
      BY <1>4, <2>4, <2>5, PartIsSmaller DEF Removed
    <2>7. b < reserve_b
      BY <1>4, <2>4, <2>5, PartIsSmaller DEF Removed
    <2>8. reserve_a' > 0 /\ reserve_b' > 0
      BY <1>4, <2>6, <2>7 DEF Removed
    <2>9. PoolType' /\ PoolIsWhole'
      BY <1>4, <2>4, <2>8 DEF Removed, PoolFits, PoolType, PoolIsWhole
    <2> QED BY <2>3, <2>9 DEF AmmInv
  <1>5. ASSUME Returned(p) PROVE AmmInv'
    <2>0. \E due, out \in Purses : Moves(p, due, out) /\ due["a"] = out["a"] /\ due["b"] = out["b"]
      <3>1. ASSUME NEW due \in Purses, NEW a \in Nat, NEW b \in Nat, Moves(p, due, Purse(0, a, b)),
                   due["a"] = a, due["b"] = b
            PROVE  \E d, out \in Purses : Moves(p, d, out) /\ d["a"] = out["a"] /\ d["b"] = out["b"]
        <4> DEFINE back == Purse(0, a, b)
        <4>1. back \in Purses /\ back["a"] = a /\ back["b"] = b /\ Moves(p, due, back)
          BY <3>1, PurseCoins, PurseTypes
        <4> HIDE DEF back
        <4> QED BY <3>1, <4>1
      <3>2. /\ SwapDue0(o) \in Purses /\ SwapDue1(o) \in Purses
            /\ AddDue(o) \in Purses /\ RemoveDue(o) \in Purses
        BY <1>0, DueFacts
      <3>3. /\ SwapDue0(o)["a"] = o.x /\ SwapDue0(o)["b"] = 0
            /\ SwapDue1(o)["a"] = 0 /\ SwapDue1(o)["b"] = o.x
            /\ AddDue(o)["a"] = o.x /\ AddDue(o)["b"] = o.y
            /\ RemoveDue(o)["a"] = 0 /\ RemoveDue(o)["b"] = 0
        BY PurseCoins DEF SwapDue0, SwapDue1, AddDue, RemoveDue
      <3>4. \/ Moves(p, SwapDue0(o), Purse(0, o.x, 0)) \/ Moves(p, SwapDue1(o), Purse(0, 0, o.x))
            \/ Moves(p, AddDue(o), Purse(0, o.x, o.y)) \/ Moves(p, RemoveDue(o), Purse(0, 0, 0))
        BY <1>5, SamePurse DEF Returned
      <3>5. o.x \in Nat /\ o.y \in Nat /\ 0 \in Nat
        OBVIOUS
      <3>6. CASE Moves(p, SwapDue0(o), Purse(0, o.x, 0))
        BY <3>1, <3>2, <3>3, <3>5, <3>6
      <3>7. CASE Moves(p, SwapDue1(o), Purse(0, 0, o.x))
        BY <3>1, <3>2, <3>3, <3>5, <3>7
      <3>8. CASE Moves(p, AddDue(o), Purse(0, o.x, o.y))
        BY <3>1, <3>2, <3>3, <3>5, <3>8
      <3>9. CASE Moves(p, RemoveDue(o), Purse(0, 0, 0))
        BY <3>1, <3>2, <3>3, <3>5, <3>9
      <3> QED BY <3>4, <3>6, <3>7, <3>8, <3>9
    <2>1. PICK due \in Purses, out \in Purses :
            Moves(p, due, out) /\ due["a"] = out["a"] /\ due["b"] = out["b"]
      BY <2>0
    <2>2. reserve_a' = reserve_a + due["a"] - out["a"] /\ reserve_b' = reserve_b + due["b"] - out["b"]
      <3>1. due["a"] \in Nat /\ due["b"] \in Nat
        BY PurseTypes DEF Purses
      <3>2. reserve_a' = reserve_a /\ reserve_b' = reserve_b
        BY <1>5 DEF Returned, poolVars
      <3> QED BY <2>1, <3>1, <3>2
    <2>3. Custody' /\ MarketInv(Slots)'
      BY <2>1, <2>2, VaultFollows
    <2>4. PoolType' /\ PoolIsWhole'
      BY <1>0, <1>5 DEF Returned, poolVars, PoolType, PoolIsWhole
    <2> QED BY <2>3, <2>4 DEF AmmInv
  <1> QED BY <1>1, <1>2, <1>3, <1>4, <1>5 DEF PoolStep

(* Every step of the system is a payer's, one of these, or a checkpoint.   *)
LEMMA Steps ==
    ASSUME AmmInv, Next
    PROVE  \/ \E p \in Payers : Payer(p)
           \/ \E p \in Payers : PoolStep(p)
           \/ NewCheckpoint /\ UNCHANGED poolVars
  BY PoolSteps DEF Next

LEMMA NextInv == AmmInv /\ [Next]_vars => AmmInv'
  <1> SUFFICES ASSUME AmmInv, [Next]_vars PROVE AmmInv'
    OBVIOUS
  <1>1. ASSUME NEW p \in Payers, Payer(p) PROVE AmmInv'
    BY <1>1, PayerInv
  <1>2. ASSUME NEW p \in Payers, PoolStep(p) PROVE AmmInv'
    BY <1>2, PoolStepInv
  <1>3. ASSUME NewCheckpoint, UNCHANGED poolVars PROVE AmmInv'
    <2>1. MarketInv(Slots)'
      BY <1>3, NewCheckpointKeeps DEF AmmInv
    <2>2. PoolInv'
      BY <1>3, PoolStays DEF NewCheckpoint, vaultVars, AmmInv, PoolInv
    <2> QED BY <2>1, <2>2 DEF AmmInv, PoolInv
  <1>4. ASSUME UNCHANGED vars PROVE AmmInv'
    <2>1. MarketInv(Slots)'
      BY <1>4 DEF AmmInv, vars, marketVars, payerVars, vaultVars, MarketInv, MarketType,
                  CursorsAreClaims, ProofsAreOld, PaidOrdersStay
    <2>2. PoolInv'
      BY <1>4, PoolStays DEF vars, marketVars, vaultVars, AmmInv, PoolInv
    <2> QED BY <2>1, <2>2 DEF AmmInv, PoolInv
  <1> QED BY <1>1, <1>2, <1>3, <1>4, Steps

(* Every run of the pool satisfies the invariant: views are lower bounds,  *)
(* a funded order is still its payer's order, and the reserves that the    *)
(* quotients are computed on are the vault's, with no overflow.            *)
THEOREM AmmCorrect == Spec => []AmmInv
  BY InitInv, NextInv, PTL DEF Spec

-----------------------------------------------------------------------------
(* What the pool is worth, and what its shares are worth together.         *)
LEMMA SameShares ==
    ASSUME NEW w \in Nat, NEW y \in Nat, NEW t \in Nat, y <= w
    PROVE  w * t * t >= y * t * t
  <1>1. y * t <= w * t /\ y * t \in Nat /\ w * t \in Nat
    BY TimesMonotone
  <1> DEFINE c == y * t
             d == w * t
  <1>2. c * t <= d * t
    <2> HIDE DEF c, d
    <2>1. c \in Nat /\ d \in Nat /\ c <= d
      BY <1>1 DEF c, d
    <2> QED BY <2>1, TimesMonotone
  <1> QED BY <1>2

LEMMA TradedWorth ==
    ASSUME NEW in \in Nat, NEW rin \in Nat, NEW rout \in Nat, NEW out \in Nat, NEW t \in Nat,
           rin > 0, rout > 0, out * (rin + in) <= in * rout
    PROVE  (rin + in) * (rout - out) * t * t >= rin * rout * t * t
  <1> DEFINE w == (rin + in) * (rout - out)
             y == rin * rout
  <1>1. out < rout /\ y <= w
    BY TradeKeepsProduct
  <1>2. w \in Nat /\ y \in Nat
    BY <1>1
  <1>3. w * t * t >= y * t * t
    <2> HIDE DEF w, y
    <2> QED BY <1>1, <1>2, SameShares
  <1> QED BY <1>3

LEMMA WorthStays ==
    ASSUME AmmInv, NEW p \in Payers, PoolStep(p), total_shares > 0
    PROVE  /\ total_shares' > 0
           /\ reserve_a' * reserve_b' * total_shares * total_shares
                >= reserve_a * reserve_b * total_shares' * total_shares'
  <1> DEFINE o == order[p]
             t == total_shares
  <1>0. /\ o.x \in Nat /\ o.y \in Nat /\ reserve_a \in Nat /\ reserve_b \in Nat /\ t \in Nat /\ t > 0
        /\ reserve_a > 0 /\ reserve_b > 0
    BY SlotNumbers DEF AmmInv, PoolIsWhole
  <1> USE <1>0
  <1>1. ASSUME NEW output \in Nat, Swapped0(p, output)
        PROVE  t' = t /\ reserve_a' * reserve_b' * t * t >= reserve_a * reserve_b * t * t
    <2>1. (reserve_a + o.x) * (reserve_b - output) * t * t >= reserve_a * reserve_b * t * t
      BY <1>1, TradedWorth DEF Swapped0
    <2> QED BY <1>1, <2>1 DEF Swapped0
  <1>2. ASSUME NEW output \in Nat, Swapped1(p, output)
        PROVE  t' = t /\ reserve_a' * reserve_b' * t * t >= reserve_a * reserve_b * t * t
    <2>1. (reserve_b + o.x) * (reserve_a - output) * t * t >= reserve_b * reserve_a * t * t
      BY <1>2, TradedWorth DEF Swapped1
    <2>2. reserve_b' * reserve_a' * t * t >= reserve_b * reserve_a * t * t /\ t' = t
      BY <1>2, <2>1 DEF Swapped1
    <2>3. reserve_a' \in Nat /\ reserve_b' \in Nat
      BY <1>2 DEF Swapped1, PoolFits
    <2>4. reserve_b' * reserve_a' = reserve_a' * reserve_b' /\ reserve_b * reserve_a = reserve_a * reserve_b
      BY <2>3
    <2> QED BY <2>2, <2>4
  <1>3. ASSUME NEW minted \in Nat, Added(p, minted)
        PROVE  t' > 0 /\ reserve_a' * reserve_b' * t * t >= reserve_a * reserve_b * t' * t'
    <2>1. /\ reserve_a' = reserve_a + o.x /\ reserve_b' = reserve_b + o.y /\ t' = t + minted
          /\ minted * reserve_a <= o.x * t /\ minted * reserve_b <= o.y * t
      BY <1>3 DEF Added
    <2>2. (reserve_a + o.x) * t >= reserve_a * (t + minted)
      BY <2>1
    <2>3. (reserve_b + o.y) * t >= reserve_b * (t + minted)
      BY <2>1
    <2>4. reserve_a' \in Nat /\ reserve_b' \in Nat /\ t' \in Nat /\ t' > 0
      BY <2>1
    <2>5. reserve_a' * t >= reserve_a * t' /\ reserve_b' * t >= reserve_b * t'
      BY <2>1, <2>2, <2>3
    <2> QED BY <2>4, <2>5, ProductOfParts
  <1>4. ASSUME NEW a \in Nat, NEW b \in Nat, Removed(p, a, b)
        PROVE  t' > 0 /\ reserve_a' * reserve_b' * t * t >= reserve_a * reserve_b * t' * t'
    <2>1. /\ reserve_a' = reserve_a - a /\ reserve_b' = reserve_b - b /\ t' = t - o.x
          /\ a * t <= o.x * reserve_a /\ b * t <= o.x * reserve_b
          /\ LockedShares <= t - o.x
      BY <1>4 DEF Removed
    <2>2. (reserve_a - a) * t >= reserve_a * (t - o.x)
      BY <2>1
    <2>3. (reserve_b - b) * t >= reserve_b * (t - o.x)
      BY <2>1
    <2>4. reserve_a' \in Nat /\ reserve_b' \in Nat
      BY <1>4 DEF Removed, PoolFits
    <2>5. t' \in Nat /\ t' > 0
      BY <2>1
    <2>6. reserve_a' * t >= reserve_a * t' /\ reserve_b' * t >= reserve_b * t'
      BY <2>1, <2>2, <2>3
    <2> QED BY <2>4, <2>5, <2>6, ProductOfParts
  <1>5. ASSUME Returned(p)
        PROVE  t' = t /\ reserve_a' * reserve_b' * t * t >= reserve_a * reserve_b * t * t
    BY <1>5 DEF Returned, poolVars
  <1> QED BY <1>1, <1>2, <1>3, <1>4, <1>5 DEF PoolStep

(* No step makes a share of the pool worth less, whatever the quotients    *)
(* the proofs supply, the fee and the rounding.                            *)
THEOREM ShareValue == Spec => ShareValueNeverFalls
  <1>1. AmmInv /\ [Next]_vars =>
            [total_shares > 0 =>
                /\ total_shares' > 0
                /\ reserve_a' * reserve_b' * total_shares * total_shares
                     >= reserve_a * reserve_b * total_shares' * total_shares']_vars
    <2> SUFFICES ASSUME AmmInv, Next, total_shares > 0
                 PROVE  /\ total_shares' > 0
                        /\ reserve_a' * reserve_b' * total_shares * total_shares
                             >= reserve_a * reserve_b * total_shares' * total_shares'
      OBVIOUS
    <2>1. CASE UNCHANGED poolVars
      <3>1. reserve_a * reserve_b * total_shares * total_shares \in Int
        BY DEF AmmInv, PoolType
      <3> QED BY <2>1, <3>1 DEF poolVars
    <2> QED BY <2>1, Steps, PayerInv, WorthStays
  <1> QED BY <1>1, AmmCorrect, PTL DEF Spec, ShareValueNeverFalls

-----------------------------------------------------------------------------
(* What a stack does to the payer's money, in the tokens' terms.           *)
LEMMA MovesMoney ==
    ASSUME AmmInv, NEW p \in Payers, NEW due \in Purses, NEW out \in Purses, Moves(p, due, out)
    PROVE  /\ \A c \in Coins : Took(p, c) = due[c] /\ Got(p, c) = out[c]
           /\ \A q \in Payers : q # p => claimed'[q] = claimed[q] /\ paid'[q] = paid[q]
           /\ consumed[p] < order[p].nonce /\ consumed'[p] = order[p].nonce
  <1>1. /\ claimed = settled /\ settled \in [Payers -> Purses] /\ paid \in [Payers -> Purses]
        /\ consumed \in [Payers -> Nat] /\ order[p].nonce \in Nat
    BY SlotNumbers DEF AmmInv, MarketInv, MarketType, CursorsAreClaims
  <1>2. claimed' = settled'
    BY DEF Moves, MarketInv, CursorsAreClaims
  <1>3. settled'[p] = Plus(settled[p], due) /\ paid'[p] = Plus(paid[p], out) /\ consumed'[p] = order[p].nonce
    BY <1>1 DEF Moves
  <1>4. ASSUME NEW c \in Coins PROVE Took(p, c) = due[c] /\ Got(p, c) = out[c]
    <2>1. settled[p][c] \in Nat /\ paid[p][c] \in Nat /\ due[c] \in Nat /\ out[c] \in Nat
      BY <1>1 DEF Purses
    <2>2. settled'[p][c] = settled[p][c] + due[c] /\ paid'[p][c] = paid[p][c] + out[c]
      BY <1>3 DEF Plus
    <2> QED BY <1>1, <1>2, <2>1, <2>2 DEF Took, Got
  <1>5. \A q \in Payers : q # p => claimed'[q] = claimed[q] /\ paid'[q] = paid[q]
    BY <1>1, <1>2 DEF Moves
  <1>6. consumed[p] < order[p].nonce
    BY <1>1 DEF Moves
  <1> QED BY <1>3, <1>4, <1>5, <1>6

LEMMA OthersUntouched ==
    ASSUME AmmInv, NEW p \in Payers, PoolStep(p), NEW q \in Payers, q # p
    PROVE  claimed'[q] = claimed[q] /\ paid'[q] = paid[q] /\ shares'[q] = shares[q]
  <1>1. \E due, out \in Purses : Moves(p, due, out)
    <2>1. order[p] \in Slots /\ order[p].x \in Nat /\ order[p].y \in Nat /\ 0 \in Nat
      BY SlotNumbers
    <2>2. /\ SwapDue0(order[p]) \in Purses /\ SwapDue1(order[p]) \in Purses
          /\ AddDue(order[p]) \in Purses /\ RemoveDue(order[p]) \in Purses
      BY <2>1, DueFacts
    <2>3. \A x, y \in Nat : Purse(0, x, y) \in Purses /\ Only("a", x) \in Purses /\ Only("b", x) \in Purses
      BY PurseTypes
    <2> QED BY <2>1, <2>2, <2>3, PurseTypes DEF PoolStep, Swapped0, Swapped1, Added, Removed, Returned
  <1>2. claimed'[q] = claimed[q] /\ paid'[q] = paid[q]
    BY <1>1, MovesMoney
  <1>3. shares \in [Payers -> 0..MaxAmount]
    BY DEF AmmInv, PoolType
  <1>4. shares'[q] = shares[q]
    BY <1>3 DEF PoolStep, Swapped0, Swapped1, Added, Removed, Returned, poolVars
  <1> QED BY <1>2, <1>4

LEMMA StepOnTerms ==
    ASSUME AmmInv, NEW p \in Payers, PoolStep(p)
    PROVE  OnSignedTerms(p)
  <1> DEFINE o == order[p]
  <1>0. /\ o \in Slots /\ o.x \in Nat /\ o.y \in Nat /\ o.z \in Nat /\ shares[p] \in Nat
        /\ shares \in [Payers -> 0..MaxAmount]
    BY SlotNumbers DEF AmmInv, PoolType
  <1>1. /\ SwapDue0(o) \in Purses /\ SwapDue1(o) \in Purses
        /\ AddDue(o) \in Purses /\ RemoveDue(o) \in Purses
    BY <1>0, DueFacts
  <1>2. /\ SwapDue0(o)["a"] = o.x /\ SwapDue0(o)["b"] = 0 /\ SwapDue0(o)["fee"] = FeeEscrow
        /\ SwapDue1(o)["a"] = 0 /\ SwapDue1(o)["b"] = o.x /\ SwapDue1(o)["fee"] = FeeEscrow
        /\ AddDue(o)["a"] = o.x /\ AddDue(o)["b"] = o.y /\ AddDue(o)["fee"] = FeeEscrow
        /\ RemoveDue(o)["a"] = 0 /\ RemoveDue(o)["b"] = 0 /\ RemoveDue(o)["fee"] = FeeEscrow
    BY PurseCoins DEF SwapDue0, SwapDue1, AddDue, RemoveDue
  <1>3. "fee" \in Coins /\ "a" \in Coins /\ "b" \in Coins
    BY PurseTypes
  <1>4. ASSUME NEW due \in Purses, NEW x \in Nat, NEW y \in Nat, Moves(p, due, Purse(0, x, y))
        PROVE  /\ consumed[p] < o.nonce /\ consumed'[p] = o.nonce
               /\ Took(p, "fee") = due["fee"] /\ Took(p, "a") = due["a"] /\ Took(p, "b") = due["b"]
               /\ Got(p, "a") = x /\ Got(p, "b") = y
    <2> DEFINE out == Purse(0, x, y)
    <2>1. out \in Purses /\ Moves(p, due, out) /\ out["a"] = x /\ out["b"] = y
      BY <1>4, PurseTypes, PurseCoins
    <2> HIDE DEF out
    <2> QED BY <1>3, <2>1, MovesMoney
  <1>5. ASSUME NEW output \in Nat, Swapped0(p, output) PROVE OnSignedTerms(p)
    <2>1. o.kind = 1 /\ o.side = 0 /\ shares'[p] = shares[p] /\ output >= o.y
      BY <1>5 DEF Swapped0
    <2>2. Moves(p, SwapDue0(o), Purse(0, 0, output))
      BY <1>5, SamePurse DEF Swapped0
    <2>3. /\ consumed[p] < o.nonce /\ consumed'[p] = o.nonce /\ Took(p, "fee") = FeeEscrow
          /\ Took(p, "a") = o.x /\ Took(p, "b") = 0 /\ Got(p, "a") = 0 /\ Got(p, "b") = output
      BY <1>1, <1>2, <1>4, <2>2
    <2>4. shares'[p] - shares[p] = 0
      BY <1>0, <2>1
    <2> QED BY <2>1, <2>3, <2>4, PurseCoins DEF OnSignedTerms
  <1>6. ASSUME NEW output \in Nat, Swapped1(p, output) PROVE OnSignedTerms(p)
    <2>1. o.kind = 1 /\ o.side = 1 /\ shares'[p] = shares[p] /\ output >= o.y
      BY <1>6 DEF Swapped1
    <2>2. Moves(p, SwapDue1(o), Purse(0, output, 0))
      BY <1>6, SamePurse DEF Swapped1
    <2>3. /\ consumed[p] < o.nonce /\ consumed'[p] = o.nonce /\ Took(p, "fee") = FeeEscrow
          /\ Took(p, "a") = 0 /\ Took(p, "b") = o.x /\ Got(p, "a") = output /\ Got(p, "b") = 0
      BY <1>1, <1>2, <1>4, <2>2
    <2>4. shares'[p] - shares[p] = 0
      BY <1>0, <2>1
    <2> QED BY <2>1, <2>3, <2>4, PurseCoins DEF OnSignedTerms
  <1>7. ASSUME NEW minted \in Nat, Added(p, minted) PROVE OnSignedTerms(p)
    <2>1. o.kind = 2 /\ shares'[p] = shares[p] + minted /\ minted >= o.z
      BY <1>0, <1>7 DEF Added
    <2>2. Moves(p, AddDue(o), Purse(0, 0, 0))
      BY <1>7, SamePurse DEF Added
    <2>3. /\ consumed[p] < o.nonce /\ consumed'[p] = o.nonce /\ Took(p, "fee") = FeeEscrow
          /\ Took(p, "a") = o.x /\ Took(p, "b") = o.y /\ Got(p, "a") = 0 /\ Got(p, "b") = 0
      BY <1>1, <1>2, <1>4, <2>2
    <2>4. shares'[p] - shares[p] = minted
      BY <1>0, <2>1
    <2> QED BY <2>1, <2>3, <2>4, PurseCoins DEF OnSignedTerms
  <1>8. ASSUME NEW a \in Nat, NEW b \in Nat, Removed(p, a, b) PROVE OnSignedTerms(p)
    <2>1. o.kind = 3 /\ shares'[p] = shares[p] - o.x /\ a >= o.y /\ b >= o.z
      BY <1>0, <1>8 DEF Removed
    <2>2. Moves(p, RemoveDue(o), Purse(0, a, b))
      BY <1>8 DEF Removed
    <2>3. /\ consumed[p] < o.nonce /\ consumed'[p] = o.nonce /\ Took(p, "fee") = FeeEscrow
          /\ Took(p, "a") = 0 /\ Took(p, "b") = 0 /\ Got(p, "a") = a /\ Got(p, "b") = b
      BY <1>1, <1>2, <1>4, <2>2
    <2>4. shares'[p] - shares[p] = -o.x
      BY <1>0, <2>1
    <2> QED BY <2>1, <2>3, <2>4, PurseCoins DEF OnSignedTerms
  <1>9. ASSUME Returned(p) PROVE OnSignedTerms(p)
    <2>1. shares'[p] = shares[p] /\ shares'[p] - shares[p] = 0
      BY <1>0, <1>9 DEF Returned, poolVars
    <2>2. CASE o.kind = 1 /\ o.side = 0 /\ Moves(p, SwapDue0(o), Only("a", o.x))
      <3>1. Moves(p, SwapDue0(o), Purse(0, o.x, 0))
        BY <2>2, SamePurse
      <3>2. /\ consumed[p] < o.nonce /\ consumed'[p] = o.nonce /\ Took(p, "fee") = FeeEscrow
            /\ Took(p, "a") = o.x /\ Took(p, "b") = 0 /\ Got(p, "a") = o.x /\ Got(p, "b") = 0
        BY <1>0, <1>1, <1>2, <1>4, <3>1
      <3> QED BY <2>1, <2>2, <3>2, PurseCoins DEF OnSignedTerms
    <2>3. CASE o.kind = 1 /\ o.side = 1 /\ Moves(p, SwapDue1(o), Only("b", o.x))
      <3>1. Moves(p, SwapDue1(o), Purse(0, 0, o.x))
        BY <2>3, SamePurse
      <3>2. /\ consumed[p] < o.nonce /\ consumed'[p] = o.nonce /\ Took(p, "fee") = FeeEscrow
            /\ Took(p, "a") = 0 /\ Took(p, "b") = o.x /\ Got(p, "a") = 0 /\ Got(p, "b") = o.x
        BY <1>0, <1>1, <1>2, <1>4, <3>1
      <3> QED BY <2>1, <2>3, <3>2, PurseCoins DEF OnSignedTerms
    <2>4. CASE o.kind = 2 /\ Moves(p, AddDue(o), Purse(0, o.x, o.y))
      <3>2. /\ consumed[p] < o.nonce /\ consumed'[p] = o.nonce /\ Took(p, "fee") = FeeEscrow
            /\ Took(p, "a") = o.x /\ Took(p, "b") = o.y /\ Got(p, "a") = o.x /\ Got(p, "b") = o.y
        BY <1>0, <1>1, <1>2, <1>4, <2>4
      <3> QED BY <2>1, <2>4, <3>2, PurseCoins DEF OnSignedTerms
    <2>5. CASE o.kind = 3 /\ Moves(p, RemoveDue(o), Empty)
      <3>1. Moves(p, RemoveDue(o), Purse(0, 0, 0))
        BY <2>5, SamePurse
      <3>2. /\ consumed[p] < o.nonce /\ consumed'[p] = o.nonce /\ Took(p, "fee") = FeeEscrow
            /\ Took(p, "a") = 0 /\ Took(p, "b") = 0 /\ Got(p, "a") = 0 /\ Got(p, "b") = 0
        BY <1>1, <1>2, <1>4, <3>1
      <3> QED BY <2>1, <2>5, <3>2, PurseCoins DEF OnSignedTerms
    <2> QED BY <1>9, <2>2, <2>3, <2>4, <2>5 DEF Returned
  <1> QED BY <1>5, <1>6, <1>7, <1>8, <1>9 DEF PoolStep

(* Whatever old view a stack was proved on, money and shares move only for *)
(* a present order, once for its nonce, and on its terms.                  *)
THEOREM SignedTerms == Spec => SettledOnSignedTerms
  <1>1. AmmInv /\ [Next]_vars =>
            [\A p \in Payers :
                (claimed'[p] # claimed[p] \/ paid'[p] # paid[p] \/ shares'[p] # shares[p])
                    => OnSignedTerms(p)]_vars
    <2> SUFFICES ASSUME AmmInv, Next, NEW p \in Payers,
                        claimed'[p] # claimed[p] \/ paid'[p] # paid[p] \/ shares'[p] # shares[p]
                 PROVE  OnSignedTerms(p)
      OBVIOUS
    <2>1. ~ UNCHANGED <<poolVars, vaultVars>>
      BY DEF poolVars, vaultVars
    <2>2. ~ \E q \in Payers : Payer(q)
      BY <2>1, PayerInv
    <2>3. ~ (NewCheckpoint /\ UNCHANGED poolVars)
      BY <2>1 DEF NewCheckpoint
    <2>4. PICK q \in Payers : PoolStep(q)
      BY <2>2, <2>3, Steps
    <2>5. q = p
      BY <2>4, OthersUntouched
    <2> QED BY <2>4, <2>5, StepOnTerms
  <1> QED BY <1>1, AmmCorrect, PTL DEF Spec, SettledOnSignedTerms

-----------------------------------------------------------------------------
(* The refinement.  What the pool holds for a payer is what it was sent    *)
(* and has not settled.                                                    *)
LEMMA HeldFacts ==
    ASSUME AmmInv, NEW p \in Payers
    PROVE  /\ sent[p] \in Purses /\ settled[p] \in Purses
           /\ \A c \in Coins :
                /\ sent[p][c] \in Nat /\ settled[p][c] \in Nat
                /\ Held[p][c] = sent[p][c] - settled[p][c]
                /\ Held[p][c] \in Nat
  <1>1. sent[p] \in Purses /\ settled[p] \in Purses
    BY DEF AmmInv, MarketInv, MarketType
  <1>2. \A c \in Coins : sent[p][c] \in Nat /\ settled[p][c] \in Nat
    BY <1>1 DEF Purses
  <1>3. \A c \in Coins : settled[p][c] <= sent[p][c]
    BY DEF AmmInv, MarketInv, ProofsAreOld
  <1> QED BY <1>1, <1>2, <1>3 DEF Held

LEMMA InitMaps == Init => Abstract!PoolInit
  <1> SUFFICES ASSUME Init PROVE Abstract!PoolInit
    OBVIOUS
  <1>1. Empty = Abstract!Nothing
    BY DEF Empty, Purse, Abstract!Nothing, Abstract!Assets, Coins
  <1>2. \A p \in Payers : sent[p] = Empty /\ settled[p] = Empty
    BY DEF Init, MarketInit
  <1>3. \A p \in Payers : [c \in Coins |-> sent[p][c] - settled[p][c]] = Empty
    <2>1. ASSUME NEW p \in Payers PROVE \A c \in Coins : sent[p][c] - settled[p][c] = 0
      BY <1>2, PurseCoins
    <2>2. Empty = [c \in Coins |-> 0]
      BY DEF Empty, Purse, Coins
    <2> QED BY <2>1, <2>2
  <1>4. Held = [p \in Payers |-> Empty]
    BY <1>3 DEF Held
  <1> QED BY <1>1, <1>4 DEF Init, MarketInit, NoOrder, Abstract!PoolInit

LEMMA DepositMaps ==
    ASSUME AmmInv, NEW p \in Payers, NEW purse \in Purses, sent' = sent \/ Pays(p, purse),
           UNCHANGED <<poolVars, vaultVars>>,
           order' = order \/ \E o \in Slots : Opens(p, o)
    PROVE  Abstract!Deposit(p)
  <1>1. settled' = settled /\ paid' = paid /\ consumed' = consumed
    BY DEF vaultVars
  <1>2. \A q \in Payers : sent[q] \in Purses
    BY HeldFacts
  <1>3. ASSUME NEW c \in Coins PROVE Held'[p][c] >= Held[p][c]
    <2>1. sent[p][c] \in Nat /\ settled[p][c] \in Nat /\ purse[c] \in Nat
      BY HeldFacts DEF Purses
    <2>2. sent'[p][c] = sent[p][c] \/ sent'[p][c] = sent[p][c] + purse[c]
      <3>1. sent \in [Payers -> Purses]
        BY DEF AmmInv, MarketInv, MarketType
      <3> QED BY <3>1 DEF Pays, Plus
    <2> QED BY <1>1, <2>1, <2>2 DEF Held
  <1>4. Held' = [Held EXCEPT ![p] = Held'[p]]
    <2>1. sent \in [Payers -> Purses]
      BY DEF AmmInv, MarketInv, MarketType
    <2>2. \A q \in Payers : q # p => sent'[q] = sent[q]
      BY <2>1 DEF Pays
    <2> QED BY <1>1, <2>2 DEF Held
  <1>5. \/ order' = order
        \/ /\ order[p].kind = 0
           /\ order' = [order EXCEPT ![p] = order'[p]]
           /\ order'[p].nonce > order[p].nonce
    <2>1. order \in [Payers -> Slots]
      BY DEF AmmInv, MarketInv, MarketType
    <2> QED BY <2>1 DEF Opens
  <1> QED BY <1>1, <1>3, <1>4, <1>5 DEF Abstract!Deposit, Abstract!poolState, poolVars, Coins

LEMMA CloseMaps ==
    ASSUME AmmInv, NEW p \in Payers, NEW coins \in SUBSET Coins, Closes(p, coins), order[p].kind # 0,
           UNCHANGED poolVars, "fee" \in coins,
           order[p].kind = 2 \/ (order[p].kind = 1 /\ order[p].side = 0) => "a" \in coins,
           order[p].kind = 2 \/ (order[p].kind = 1 /\ order[p].side = 1) => "b" \in coins
    PROVE  Abstract!Leave(p)
  <1>1. PICK r \in seen[p] : NothingUnsettled(p, r, coins)
    BY DEF Closes
  <1>2. ASSUME NEW c \in coins PROVE Held[p][c] = 0
    <2>1. sent[p][c] = r.settled[c] /\ c \in Coins
      BY <1>1 DEF NothingUnsettled
    <2>2. r.settled[c] <= settled[p][c]
      BY <2>1 DEF AmmInv, MarketInv, ProofsAreOld
    <2>3. /\ sent[p][c] \in Nat /\ settled[p][c] \in Nat
          /\ Held[p][c] = sent[p][c] - settled[p][c] /\ Held[p][c] \in Nat
      BY <2>1, HeldFacts
    <2> QED BY <2>1, <2>2, <2>3
  <1>3. UNCHANGED <<sent, settled, paid, consumed>> /\ order' = [order EXCEPT ![p].kind = 0]
    BY DEF Closes, PayerMoves, vaultVars
  <1>4. Held' = Held
    BY <1>3 DEF Held
  <1> QED BY <1>2, <1>3, <1>4 DEF Abstract!Leave, Abstract!poolState, poolVars

LEMMA PayerMaps ==
    ASSUME AmmInv, NEW p \in Payers, Payer(p)
    PROVE  Abstract!Deposit(p) \/ Abstract!Leave(p)
  <1>0. UNCHANGED <<poolVars, vaultVars>>
    BY PayerInv
  <1>1. ASSUME NEW o \in Orders, OpenSwap(p, o) \/ OpenAdd(p, o) \/ OpenRemove(p, o)
        PROVE  Abstract!Deposit(p)
    <2>1. o \in Slots
      BY SlotFacts
    <2>2. OpenUnfunded(p, o) \/ \E due \in Purses : OpenFunded(p, o, due)
      BY <1>1, <2>1, DueFacts DEF OpenSwap, OpenAdd, OpenRemove
    <2>3. Opens(p, o) /\ (sent' = sent \/ \E purse \in Purses : Pays(p, purse))
      BY <2>2 DEF OpenFunded, OpenUnfunded
    <2> QED BY <1>0, <2>1, <2>3, PurseTypes, DepositMaps
  <1>2. ASSUME NEW payment \in Payments, Pay(p, payment)
        PROVE  Abstract!Deposit(p)
    <2>1. payment \in Purses /\ Pays(p, payment) /\ order' = order
      BY <1>2 DEF Pay
    <2> QED BY <1>0, <2>1, DepositMaps
  <1>3. CASE CloseSwap0(p)
    <2>1. {"fee", "a"} \in SUBSET Coins
      BY DEF Coins
    <2> QED BY <1>0, <1>3, <2>1, CloseMaps DEF CloseSwap0
  <1>4. CASE CloseSwap1(p)
    <2>1. {"fee", "b"} \in SUBSET Coins
      BY DEF Coins
    <2> QED BY <1>0, <1>4, <2>1, CloseMaps DEF CloseSwap1
  <1>5. CASE CloseAdd(p)
    <2>1. {"fee", "a", "b"} \in SUBSET Coins
      BY DEF Coins
    <2> QED BY <1>0, <1>5, <2>1, CloseMaps DEF CloseAdd
  <1>6. CASE CloseRemove(p)
    <2>1. {"fee"} \in SUBSET Coins
      BY DEF Coins
    <2> QED BY <1>0, <1>6, <2>1, CloseMaps DEF CloseRemove
  <1> QED BY <1>1, <1>2, <1>3, <1>4, <1>5, <1>6 DEF Payer

LEMMA DoneMaps ==
    ASSUME AmmInv, NEW p \in Payers, NEW due \in Purses, NEW out \in Purses, Moves(p, due, out)
    PROVE  Abstract!Done(p, due, out)
  <1>0. /\ settled \in [Payers -> Purses] /\ paid \in [Payers -> Purses]
        /\ sent' = sent /\ order' = order
    BY DEF AmmInv, MarketInv, MarketType, Moves, payerVars
  <1>1. settled'[p] = Plus(settled[p], due) /\ paid'[p] = Plus(paid[p], out)
    BY <1>0 DEF Moves
  <1>2. \A c \in Coins : due[c] \in Nat /\ out[c] \in Nat
    BY DEF Purses
  <1>3. ASSUME NEW c \in Coins
        PROVE  /\ settled'[p][c] = settled[p][c] + due[c]
               /\ settled'[p][c] <= sent[p][c]
    BY <1>0, <1>1 DEF Plus, Moves, MarketInv, ProofsAreOld
  <1>4. ASSUME NEW c \in Coins
        PROVE  Held[p][c] >= due[c] /\ Held'[p][c] = Held[p][c] - due[c]
    <2>1. /\ sent[p][c] \in Nat /\ settled[p][c] \in Nat /\ due[c] \in Nat
          /\ Held[p][c] = sent[p][c] - settled[p][c]
      BY <1>2, HeldFacts
    <2>2. Held'[p][c] = sent'[p][c] - settled'[p][c]
      BY DEF Held
    <2> QED BY <1>0, <1>3, <2>1, <2>2
  <1>5. Held' = [Held EXCEPT ![p] = [c \in {"fee", "a", "b"} |-> Held[p][c] - due[c]]]
    <2>1. Held'[p] = [c \in Coins |-> Held[p][c] - due[c]]
      <3>1. Held'[p] = [c \in Coins |-> sent'[p][c] - settled'[p][c]]
        BY DEF Held
      <3>2. \A c \in Coins : sent'[p][c] - settled'[p][c] = Held[p][c] - due[c]
        BY <1>4 DEF Held
      <3> QED BY <3>1, <3>2
    <2>2. \A q \in Payers : q # p => Held'[q] = Held[q]
      BY <1>0 DEF Held, Moves
    <2>3. Held' = [q \in Payers |-> Held'[q]] /\ Held = [q \in Payers |-> Held[q]]
      BY DEF Held
    <2> HIDE DEF Held
    <2> QED BY <2>1, <2>2, <2>3 DEF Coins
  <1>6. paid' = [paid EXCEPT ![p] = [c \in {"fee", "a", "b"} |-> paid[p][c] + out[c]]]
    BY DEF Moves, Plus, Coins
  <1>7. order[p].nonce > consumed[p] /\ consumed' = [consumed EXCEPT ![p] = order[p].nonce]
    BY DEF Moves
  <1> QED BY <1>0, <1>4, <1>5, <1>6, <1>7 DEF Abstract!Done, Coins

LEMMA AssetsArePurses ==
    /\ \A f, x, y : Abstract!Assets(f, x, y) = Purse(f, x, y)
    /\ Abstract!Nothing = Purse(0, 0, 0)
  BY DEF Abstract!Assets, Abstract!Nothing, Purse, Coins

LEMMA StepDone ==
    ASSUME AmmInv, NEW p \in Payers, NEW a \in Nat, NEW b \in Nat, NEW x \in Nat, NEW y \in Nat,
           Moves(p, Purse(FeeEscrow, a, b), Purse(0, x, y))
    PROVE  /\ Abstract!Done(p, Abstract!Assets(FeeEscrow, a, b), Abstract!Assets(0, x, y))
           /\ paid'[p]["a"] - paid[p]["a"] = x /\ paid'[p]["b"] - paid[p]["b"] = y
  <1> DEFINE due == Purse(FeeEscrow, a, b)
             out == Purse(0, x, y)
  <1>1. due \in Purses /\ out \in Purses /\ out["a"] = x /\ out["b"] = y /\ Moves(p, due, out)
    <2>1. FeeEscrow \in Nat
      OBVIOUS
    <2> QED BY <2>1, PurseTypes, PurseCoins
  <1>2. due = Abstract!Assets(FeeEscrow, a, b) /\ out = Abstract!Assets(0, x, y)
    BY AssetsArePurses
  <1> HIDE DEF due, out
  <1>3. Abstract!Done(p, due, out)
    BY <1>1, DoneMaps
  <1>4. Got(p, "a") = x /\ Got(p, "b") = y
    <2>1. "a" \in Coins /\ "b" \in Coins
      BY DEF Coins
    <2>2. \A c \in Coins : Got(p, c) = out[c]
      BY <1>1, MovesMoney
    <2> QED BY <1>1, <2>1, <2>2
  <1> QED BY <1>2, <1>3, <1>4 DEF Got

LEMMA StepFair ==
    ASSUME AmmInv, NEW p \in Payers, PoolStep(p)
    PROVE  Abstract!Fair
  <1>1. CASE total_shares > 0
    BY <1>1, WorthStays DEF Abstract!Fair
  <1>2. CASE total_shares = 0
    <2>1. reserve_a = 0 /\ reserve_b = 0
      BY <1>2 DEF AmmInv, PoolIsWhole
    <2>2. AmmInv'
      BY PoolStepInv
    <2>3. /\ reserve_a' \in Nat /\ reserve_b' \in Nat /\ total_shares' \in Nat
      BY <2>2 DEF AmmInv, PoolType
    <2>4. \A w \in Nat : w * 0 * 0 = 0
      OBVIOUS
    <2>5. \A t \in Nat : 0 * 0 * t * t = 0
      OBVIOUS
    <2> DEFINE w == reserve_a' * reserve_b'
               t == total_shares'
    <2>6. w \in Nat /\ t \in Nat
      <3>1. \A x, y \in Nat : x * y \in Nat
        OBVIOUS
      <3> QED BY <2>3, <3>1
    <2>7. w * 0 * 0 >= 0 * 0 * t * t
      <3> HIDE DEF w, t
      <3> QED BY <2>4, <2>5, <2>6
    <2> QED BY <1>2, <2>1, <2>7 DEF Abstract!Fair
  <1> QED BY <1>1, <1>2 DEF AmmInv, PoolType

LEMMA StepMaps ==
    ASSUME AmmInv, NEW p \in Payers, PoolStep(p)
    PROVE  Abstract!PoolNext
  <1> DEFINE o == order[p]
             gotA == paid'[p]["a"] - paid[p]["a"]
             gotB == paid'[p]["b"] - paid[p]["b"]
             minted == shares'[p] - shares[p]
  <1>0. /\ o \in Slots /\ o.x \in Nat /\ o.y \in Nat /\ o.z \in Nat /\ shares[p] \in Nat
        /\ shares \in [Payers -> 0..MaxAmount] /\ 0 \in Nat
        /\ total_shares \in Nat
    BY SlotNumbers DEF AmmInv, PoolType
  <1>1. Abstract!Fair
    BY StepFair
  <1>2. PoolIsWhole' /\ PoolIsWhole
    BY PoolStepInv DEF AmmInv
  <1>3. ASSUME NEW output \in Nat, Swapped0(p, output) PROVE Abstract!Trade(p, gotB)
    <2>1. Moves(p, Purse(FeeEscrow, o.x, 0), Purse(0, 0, output))
      BY <1>3, SamePurse DEF Swapped0, SwapDue0
    <2>2. gotB = output /\ Abstract!Done(p, Abstract!Assets(FeeEscrow, o.x, 0), Abstract!Assets(0, 0, output))
      BY <1>0, <2>1, StepDone
    <2>3. reserve_a' > 0 /\ reserve_b' > 0
      <3>1. total_shares > 0 /\ total_shares' = total_shares
        BY <1>0, <1>2, <1>3 DEF Swapped0, PoolIsWhole
      <3> QED BY <1>2, <3>1 DEF PoolIsWhole
    <2> QED BY <1>1, <1>3, <2>2, <2>3 DEF Swapped0, Abstract!Trade
  <1>4. ASSUME NEW output \in Nat, Swapped1(p, output) PROVE Abstract!Trade(p, gotA)
    <2>1. Moves(p, Purse(FeeEscrow, 0, o.x), Purse(0, output, 0))
      BY <1>4, SamePurse DEF Swapped1, SwapDue1
    <2>2. gotA = output /\ Abstract!Done(p, Abstract!Assets(FeeEscrow, 0, o.x), Abstract!Assets(0, output, 0))
      BY <1>0, <2>1, StepDone
    <2>3. reserve_a' > 0 /\ reserve_b' > 0
      <3>1. total_shares > 0 /\ total_shares' = total_shares
        BY <1>0, <1>2, <1>4 DEF Swapped1, PoolIsWhole
      <3> QED BY <1>2, <3>1 DEF PoolIsWhole
    <2> QED BY <1>1, <1>4, <2>2, <2>3 DEF Swapped1, Abstract!Trade
  <1>5. ASSUME NEW m \in Nat, Added(p, m) PROVE Abstract!Provide(p, minted)
    <2>1. Moves(p, Purse(FeeEscrow, o.x, o.y), Purse(0, 0, 0))
      BY <1>5, SamePurse DEF Added, AddDue
    <2>2. Abstract!Done(p, Abstract!Assets(FeeEscrow, o.x, o.y), Abstract!Nothing)
      BY <1>0, <2>1, StepDone, AssetsArePurses
    <2>3. minted = m /\ shares' = [shares EXCEPT ![p] = shares[p] + m]
      BY <1>0, <1>5 DEF Added
    <2>4. IF total_shares = 0 THEN total_shares' > m ELSE total_shares' = total_shares + m
      BY <1>5 DEF Added
    <2> QED BY <1>1, <1>5, <2>2, <2>3, <2>4 DEF Added, Abstract!Provide
  <1>6. ASSUME NEW a \in Nat, NEW b \in Nat, Removed(p, a, b) PROVE Abstract!Redeem(p, gotA, gotB)
    <2>1. Moves(p, Purse(FeeEscrow, 0, 0), Purse(0, a, b))
      BY <1>6 DEF Removed, RemoveDue
    <2>2. /\ gotA = a /\ gotB = b
          /\ Abstract!Done(p, Abstract!Assets(FeeEscrow, 0, 0), Abstract!Assets(0, a, b))
      BY <1>0, <2>1, StepDone
    <2>3. o.x < total_shares /\ total_shares' > 0
      BY <1>0, <1>6 DEF Removed
    <2>4. reserve_a' > 0 /\ reserve_b' > 0
      BY <1>2, <2>3 DEF PoolIsWhole
    <2> QED BY <1>1, <1>6, <2>2, <2>3, <2>4 DEF Removed, Abstract!Redeem
  <1>7. ASSUME Returned(p) PROVE Abstract!GiveBack(p)
    <2>1. CASE o.kind = 1 /\ o.side = 0 /\ Moves(p, SwapDue0(o), Only("a", o.x))
      <3>1. Moves(p, Purse(FeeEscrow, o.x, 0), Purse(0, o.x, 0))
        BY <2>1, SamePurse DEF SwapDue0
      <3> QED BY <1>0, <1>7, <2>1, <3>1, StepDone DEF Returned, Abstract!GiveBack, Abstract!poolState, poolVars
    <2>2. CASE o.kind = 1 /\ o.side = 1 /\ Moves(p, SwapDue1(o), Only("b", o.x))
      <3>1. Moves(p, Purse(FeeEscrow, 0, o.x), Purse(0, 0, o.x))
        BY <2>2, SamePurse DEF SwapDue1
      <3> QED BY <1>0, <1>7, <2>2, <3>1, StepDone DEF Returned, Abstract!GiveBack, Abstract!poolState, poolVars
    <2>3. CASE o.kind = 2 /\ Moves(p, AddDue(o), Purse(0, o.x, o.y))
      <3>1. Moves(p, Purse(FeeEscrow, o.x, o.y), Purse(0, o.x, o.y))
        BY <2>3 DEF AddDue
      <3> QED BY <1>0, <1>7, <2>3, <3>1, StepDone DEF Returned, Abstract!GiveBack, Abstract!poolState, poolVars
    <2>4. CASE o.kind = 3 /\ Moves(p, RemoveDue(o), Empty)
      <3>1. Moves(p, Purse(FeeEscrow, 0, 0), Purse(0, 0, 0))
        BY <2>4, SamePurse DEF RemoveDue
      <3> QED BY <1>0, <1>7, <2>4, <3>1, StepDone, AssetsArePurses DEF Returned, Abstract!GiveBack, Abstract!poolState, poolVars
    <2> QED BY <1>7, <2>1, <2>2, <2>3, <2>4 DEF Returned
  <1> QED BY <1>3, <1>4, <1>5, <1>6, <1>7 DEF PoolStep, Abstract!PoolNext

(* The pool of old views implements the pool of the present: every step is *)
(* a deposit, a leave, a fair trade, a fair issue or redemption of shares, *)
(* a refund, or nothing.                                                   *)
THEOREM RefinesPool == Spec => ImplementsPool
  <1>1. AmmInv /\ [Next]_vars => [Abstract!PoolNext]_(Abstract!lpVars)
    <2> SUFFICES ASSUME AmmInv, [Next]_vars PROVE Abstract!PoolNext \/ UNCHANGED Abstract!lpVars
      OBVIOUS
    <2>1. ASSUME NEW p \in Payers, Payer(p) PROVE Abstract!PoolNext
      BY <2>1, PayerMaps DEF Abstract!PoolNext
    <2>2. ASSUME NEW p \in Payers, PoolStep(p) PROVE Abstract!PoolNext
      BY <2>2, StepMaps
    <2>3. CASE NewCheckpoint /\ UNCHANGED poolVars
      BY <2>3 DEF NewCheckpoint, payerVars, vaultVars, poolVars, Held, Abstract!lpVars, Abstract!poolState
    <2>4. CASE UNCHANGED vars
      BY <2>4 DEF vars, marketVars, payerVars, vaultVars, poolVars, Held, Abstract!lpVars, Abstract!poolState
    <2> QED BY <2>1, <2>2, <2>3, <2>4, Steps
  <1> QED BY <1>1, InitMaps, AmmCorrect, PTL DEF Spec, ImplementsPool, Abstract!PoolSpec

-----------------------------------------------------------------------------
(* Nothing is stuck: what a careful payer has with the pool is nothing, or *)
(* exactly what its unsettled order needs.                                 *)
Even(p) == \A c \in Coins : Held[p][c] = 0

Whole(p) ==
    /\ order[p].kind # 0 /\ order[p].nonce > consumed[p]
    /\ \A c \in Coins : Held[p][c] = Due(order[p])[c]

CarefulInv == \A p \in Payers \ Careless : Even(p) \/ Whole(p)

LEMMA DuePurse ==
    ASSUME NEW o \in Slots
    PROVE  Due(o) \in Purses /\ Due(o)["fee"] > 0 /\ \A c \in Coins : Due(o)[c] \in Nat
  <1>1. Due(o) \in Purses /\ Due(o)["fee"] > 0
    BY DueFacts DEF Due
  <1> QED BY <1>1 DEF Purses

LEMMA StepTakesDue ==
    ASSUME AmmInv, NEW p \in Payers, PoolStep(p)
    PROVE  order[p].kind # 0 /\ \E out \in Purses : Moves(p, Due(order[p]), out)
  <1>1. order[p] \in Slots /\ order[p].x \in Nat /\ order[p].y \in Nat /\ 0 \in Nat
    BY SlotNumbers
  <1>2. \A x, y \in Nat : Purse(0, x, y) \in Purses /\ Only("a", x) \in Purses /\ Only("b", x) \in Purses
    BY PurseTypes
  <1> QED BY <1>1, <1>2, PurseTypes DEF PoolStep, Swapped0, Swapped1, Added, Removed, Returned, Due

LEMMA InitCareful == Init => CarefulInv
  <1> SUFFICES ASSUME Init, NEW p \in Payers, NEW c \in Coins PROVE Held[p][c] = 0
    BY DEF CarefulInv, Even
  <1> QED BY PurseCoins DEF Init, MarketInit, Held

(* The step leaves p's money and order as they are.                        *)
LEMMA Untouched ==
    ASSUME NEW p \in Payers, Even(p) \/ Whole(p), sent'[p] = sent[p], settled'[p] = settled[p],
           order'[p] = order[p], consumed'[p] = consumed[p]
    PROVE  (Even(p) \/ Whole(p))'
  <1>1. \A c \in Coins : Held'[p][c] = Held[p][c]
    BY DEF Held
  <1>2. Due(order[p])' = Due(order[p])
    BY DEF Due, SwapDue0, SwapDue1, AddDue, RemoveDue
  <1> QED BY <1>1, <1>2 DEF Even, Whole

LEMMA CarefulStep ==
    ASSUME AmmInv, CarefulInv, NEW p \in Payers, PoolStep(p)
    PROVE  CarefulInv'
  <1>1. PICK out \in Purses : Moves(p, Due(order[p]), out)
    BY StepTakesDue
  <1>2. /\ settled \in [Payers -> Purses] /\ consumed \in [Payers -> Nat]
        /\ order' = order /\ sent' = sent
    BY <1>1 DEF AmmInv, MarketInv, MarketType, Moves, payerVars
  <1>3. ASSUME NEW q \in Payers \ Careless PROVE (Even(q) \/ Whole(q))'
    <2>1. CASE q # p
      <3>1. settled'[q] = settled[q] /\ consumed'[q] = consumed[q]
        BY <1>1, <1>2, <2>1 DEF Moves
      <3> QED BY <1>2, <3>1, Untouched DEF CarefulInv
    <2>2. CASE q = p
      <3> DEFINE due == Due(order[p])
      <3>1. due \in Purses /\ due["fee"] > 0 /\ \A c \in Coins : due[c] \in Nat
        BY DuePurse, SlotNumbers
      <3>2. \A c \in Coins : Held[p][c] >= due[c] /\ Held'[p][c] = Held[p][c] - due[c]
        <4> HIDE DEF due
        <4>1. Moves(p, due, out)
          BY <1>1 DEF due
        <4>2. Abstract!Done(p, due, out)
          BY <3>1, <4>1, DoneMaps
        <4> QED BY <4>2 DEF Abstract!Done, Coins, Held
      <3>3. ~ Even(p)
        <4>1. "fee" \in Coins
          BY PurseTypes
        <4> QED BY <3>1, <3>2, <4>1 DEF Even
      <3>4. \A c \in Coins : Held'[p][c] = 0
        BY <2>2, <3>1, <3>2, <3>3 DEF CarefulInv, Whole
      <3> QED BY <2>2, <3>4 DEF Even
    <2> QED BY <2>1, <2>2
  <1> QED BY <1>3 DEF CarefulInv

LEMMA CarefulPayer ==
    ASSUME AmmInv, CarefulInv, NEW p \in Payers, Payer(p)
    PROVE  CarefulInv'
  <1>1. settled' = settled /\ consumed' = consumed
    BY PayerInv DEF vaultVars
  <1>2. sent \in [Payers -> Purses] /\ order \in [Payers -> Slots]
    BY DEF AmmInv, MarketInv, MarketType
  <1>3. \A q \in Payers : q # p => sent'[q] = sent[q] /\ order'[q] = order[q]
    <2>1. \/ sent' = sent \/ \E purse : sent' = [sent EXCEPT ![p] = Plus(sent[p], purse)]
      BY DEF Payer, OpenSwap, OpenAdd, OpenRemove, OpenFunded, OpenUnfunded, Pay, Pays,
             CloseSwap0, CloseSwap1, CloseAdd, CloseRemove, Closes
    <2>2. \/ order' = order \/ \E o : order' = [order EXCEPT ![p] = o]
      BY DEF Payer, OpenSwap, OpenAdd, OpenRemove, OpenFunded, OpenUnfunded, Pay, Opens,
             CloseSwap0, CloseSwap1, CloseAdd, CloseRemove, Closes
    <2> QED BY <1>2, <2>1, <2>2
  <1>4. ASSUME p \notin Careless PROVE (Even(p) \/ Whole(p))'
    <2>1. Even(p) \/ Whole(p)
      BY <1>4 DEF CarefulInv
    <2>2. ASSUME NEW o \in Orders, OpenSwap(p, o) \/ OpenAdd(p, o) \/ OpenRemove(p, o) PROVE Whole(p)'
      <3>1. o \in Slots /\ o.kind \in 1..3 /\ o.kind # 0
        BY SlotFacts, <2>2 DEF OpenSwap, OpenAdd, OpenRemove
      <3>2. Opens(p, o) /\ Pays(p, Due(o))
        BY <1>4, <2>2, <3>1 DEF OpenSwap, OpenAdd, OpenRemove, OpenUnfunded, OpenFunded, Due
      <3>3. Even(p) /\ order'[p] = o /\ sent'[p] = Plus(sent[p], Due(o)) /\ o.nonce > order[p].nonce
        BY <1>2, <2>1, <3>2 DEF Opens, Pays, Whole
      <3>4. consumed[p] <= order[p].nonce /\ consumed[p] \in Nat /\ order[p].nonce \in Nat /\ o.nonce \in Nat
        BY <3>1, SlotNumbers DEF AmmInv, MarketInv, ProofsAreOld, Slots
      <3>5. ASSUME NEW c \in Coins PROVE Held'[p][c] = Due(o)[c]
        <4>1. sent[p][c] \in Nat /\ settled[p][c] \in Nat /\ Due(o)[c] \in Nat /\ sent[p][c] - settled[p][c] = 0
          BY <3>1, <3>3, HeldFacts, DuePurse DEF Even
        <4>2. sent'[p][c] = sent[p][c] + Due(o)[c]
          BY <3>3 DEF Plus
        <4> QED BY <1>1, <4>1, <4>2 DEF Held
      <3>6. Due(order[p])' = Due(o)
        BY <3>3 DEF Due, SwapDue0, SwapDue1, AddDue, RemoveDue
      <3> QED BY <1>1, <3>1, <3>3, <3>4, <3>5, <3>6 DEF Whole
    <2>3. ~ \E payment \in Payments : Pay(p, payment)
      BY <1>4 DEF Pay
    <2>4. ASSUME NEW coins, "fee" \in coins, Closes(p, coins) PROVE Even(p)'
      <3>1. PICK r \in seen[p] : sent[p]["fee"] = r.settled["fee"]
        BY <2>4 DEF Closes, NothingUnsettled
      <3>2. "fee" \in Coins
        BY PurseTypes
      <3>3. r.settled["fee"] <= settled[p]["fee"]
        BY <3>2 DEF AmmInv, MarketInv, ProofsAreOld
      <3>4. Held[p]["fee"] = 0
        <4>1. /\ sent[p]["fee"] \in Nat /\ settled[p]["fee"] \in Nat
              /\ Held[p]["fee"] = sent[p]["fee"] - settled[p]["fee"] /\ Held[p]["fee"] \in Nat
          BY <3>2, HeldFacts
        <4> QED BY <3>1, <3>3, <4>1
      <3>5. Even(p)
        <4>1. Due(order[p])["fee"] > 0
          BY DuePurse, SlotNumbers
        <4> QED BY <2>1, <3>2, <3>4, <4>1 DEF Whole
      <3>6. sent' = sent
        BY <2>4 DEF Closes
      <3> QED BY <1>1, <3>5, <3>6 DEF Even, Held
    <2>5. CASE CloseSwap0(p) \/ CloseSwap1(p) \/ CloseAdd(p) \/ CloseRemove(p)
      BY <2>4, <2>5 DEF CloseSwap0, CloseSwap1, CloseAdd, CloseRemove
    <2> QED BY <2>2, <2>3, <2>5 DEF Payer
  <1>5. ASSUME NEW q \in Payers \ Careless PROVE (Even(q) \/ Whole(q))'
    <2>1. CASE q = p
      BY <1>4, <2>1
    <2>2. CASE q # p
      BY <1>1, <1>3, <2>2, Untouched DEF CarefulInv
    <2> QED BY <2>1, <2>2
  <1> QED BY <1>5 DEF CarefulInv

LEMMA CarefulNext == AmmInv /\ CarefulInv /\ [Next]_vars => CarefulInv'
  <1> SUFFICES ASSUME AmmInv, CarefulInv, [Next]_vars PROVE CarefulInv'
    OBVIOUS
  <1>1. CASE UNCHANGED <<sent, settled, order, consumed>>
    BY <1>1, Untouched DEF CarefulInv
  <1>2. CASE NewCheckpoint
    BY <1>1, <1>2 DEF NewCheckpoint, payerVars, vaultVars
  <1>3. CASE UNCHANGED vars
    BY <1>1, <1>3 DEF vars, marketVars, payerVars, vaultVars
  <1> QED BY <1>2, <1>3, Steps, CarefulStep, CarefulPayer

(* An order opened by the clients' stack can always be refunded or closed. *)
THEOREM Unstuck == Spec => []NothingStuck
  <1>1. AmmInv /\ CarefulInv => NothingStuck
    <2> SUFFICES ASSUME AmmInv, CarefulInv, NEW p \in Payers \ Careless, order[p].kind # 0
                 PROVE  CanRefund(p) \/ CanClose(p)
      BY DEF NothingStuck
    <2>0. \A c \in Coins : sent[p][c] \in Nat /\ settled[p][c] \in Nat /\ Held[p][c] = sent[p][c] - settled[p][c]
      BY HeldFacts
    <2>1. CASE Even(p)
      <3>1. \A c \in Coins : sent[p][c] = settled[p][c]
        BY <2>0, <2>1 DEF Even
      <3> QED BY <3>1 DEF CanClose, NothingUnsettled, Receipt
    <2>2. CASE Whole(p)
      <3>1. \A c \in Coins : sent[p][c] = settled[p][c] + Due(order[p])[c]
        <4>1. \A c \in Coins : Due(order[p])[c] \in Nat
          BY DuePurse, SlotNumbers
        <4> QED BY <2>0, <2>2, <4>1 DEF Whole
      <3> QED BY <2>2, <3>1 DEF CanRefund, IsOpen, IsFunded, Now, View, Whole
    <2> QED BY <2>1, <2>2 DEF CarefulInv
  <1>2. Spec => [](AmmInv /\ CarefulInv)
    BY AmmCorrect, InitCareful, CarefulNext, InitInv, PTL DEF Spec
  <1> QED BY <1>1, <1>2, PTL

-----------------------------------------------------------------------------
(* The shares add up.                                                      *)
Issued(f, p, n) == [f EXCEPT ![p] = f[p] + n]

AllShares == Sum(shares, Payers)

LEMMA AllIsSum == \A f : AllOf(f) = Sum(f, Payers)
  BY DEF AllOf, Sum

LEMMA SumOfShares == SharesAddUp <=> total_shares = (IF total_shares = 0 THEN 0 ELSE LockedShares) + AllShares
  BY AllIsSum DEF SharesAddUp, AllShares

LEMMA SharesAreInts == AmmInv => shares \in [Payers -> Int] /\ total_shares \in Int
  BY DEF AmmInv, PoolType

LEMMA IssuedAdds ==
    ASSUME NEW f \in [Payers -> Int], NEW p \in Payers, NEW n \in Int
    PROVE  Sum(Issued(f, p, n), Payers) = Sum(f, Payers) + n
  <1> DEFINE h == Issued(f, p, n)
  <1>1. h \in [Payers -> Int] /\ h[p] = f[p] + n /\ \A q \in Payers \ {p} : h[q] = f[q]
    BY DEF Issued
  <1> HIDE DEF h
  <1>2. Sum(h, Payers) = Sum(f, Payers) + (h[p] - f[p])
    BY <1>1, PayersAssumption, SumChanges
  <1>3. f[p] \in Int /\ h[p] - f[p] = n
    BY <1>1
  <1> QED BY <1>2, <1>3 DEF h

LEMMA StepAddsUp ==
    ASSUME AmmInv, SharesAddUp, NEW p \in Payers, PoolStep(p)
    PROVE  SharesAddUp'
  <1>1. shares \in [Payers -> Int] /\ total_shares \in Int /\ AllShares \in Int
    BY SharesAreInts, SumType, PayersAssumption DEF AllShares
  <1>2. total_shares = (IF total_shares = 0 THEN 0 ELSE LockedShares) + AllShares
    BY SumOfShares
  <1>3. LockedShares \in Nat /\ LockedShares > 0
    OBVIOUS
  <1>4. SUFFICES total_shares' = (IF total_shares' = 0 THEN 0 ELSE LockedShares) + Sum(shares', Payers)
    BY AllIsSum DEF SharesAddUp
  <1>5. ASSUME UNCHANGED <<total_shares, shares>>
        PROVE  total_shares' = (IF total_shares' = 0 THEN 0 ELSE LockedShares) + Sum(shares', Payers)
    BY <1>2, <1>5 DEF AllShares
  <1>6. ASSUME NEW minted \in Nat, Added(p, minted)
        PROVE  total_shares' = (IF total_shares' = 0 THEN 0 ELSE LockedShares) + Sum(shares', Payers)
    <2>1. shares' = Issued(shares, p, minted)
      BY <1>6 DEF Added, Issued
    <2>2. Sum(shares', Payers) = AllShares + minted
      BY <1>1, <2>1, IssuedAdds DEF AllShares
    <2>3. CASE total_shares = 0
      <3>1. total_shares' = minted + LockedShares
        BY <1>6, <2>3 DEF Added
      <3>2. AllShares = 0
        BY <1>1, <1>2, <2>3
      <3> QED BY <1>3, <2>2, <3>1, <3>2
    <2>4. CASE total_shares # 0
      <3>1. total_shares' = total_shares + minted /\ total_shares > 0
        BY <1>6, <2>4 DEF Added
      <3> QED BY <1>1, <1>2, <1>3, <2>2, <2>4, <3>1
    <2> QED BY <2>3, <2>4
  <1>7. ASSUME NEW a \in Nat, NEW b \in Nat, Removed(p, a, b)
        PROVE  total_shares' = (IF total_shares' = 0 THEN 0 ELSE LockedShares) + Sum(shares', Payers)
    <2> DEFINE n == order[p].x
    <2>1. n \in Nat /\ shares[p] \in Int
      BY <1>1, SlotNumbers
    <2>2. /\ shares' = [shares EXCEPT ![p] = shares[p] - n] /\ total_shares' = total_shares - n
          /\ LockedShares <= total_shares - n
      BY <1>7 DEF Removed
    <2> HIDE DEF n
    <2>3. shares' = Issued(shares, p, -n)
      <3>1. shares[p] - n = shares[p] + (-n)
        BY <2>1
      <3> QED BY <2>2, <3>1 DEF Issued
    <2>4. -n \in Int
      BY <2>1
    <2>5. Sum(shares', Payers) = AllShares + (-n)
      BY <1>1, <2>3, <2>4, IssuedAdds DEF AllShares
    <2>6. total_shares # 0 /\ total_shares' # 0
      BY <1>1, <1>3, <2>1, <2>2
    <2> QED BY <1>1, <1>2, <1>3, <2>1, <2>2, <2>5, <2>6
  <1> QED BY <1>5, <1>6, <1>7 DEF PoolStep, Swapped0, Swapped1, Returned, poolVars

(* The payers' shares and the locked ones are all there are, however many  *)
(* payers add and remove liquidity on however old a view.                  *)
THEOREM SharesStayWhole == Spec => []SharesAddUp
  <1>1. Init => SharesAddUp
    <2> SUFFICES ASSUME Init PROVE SharesAddUp
      OBVIOUS
    <2>1. total_shares = 0 /\ shares \in [Payers -> Int] /\ \A p \in Payers : shares[p] = 0
      BY DEF Init
    <2>2. Sum(shares, Payers) = 0
      BY <2>1, SumOfZeros, PayersAssumption
    <2> QED BY <2>1, <2>2, SumOfShares DEF AllShares
  <1>2. AmmInv /\ SharesAddUp /\ [Next]_vars => SharesAddUp'
    <2> SUFFICES ASSUME AmmInv, SharesAddUp, [Next]_vars PROVE SharesAddUp'
      OBVIOUS
    <2>1. CASE UNCHANGED poolVars
      BY <2>1 DEF SharesAddUp, poolVars
    <2>2. CASE UNCHANGED vars
      BY <2>1, <2>2 DEF vars
    <2> QED BY <2>1, <2>2, Steps, PayerInv, StepAddsUp
  <1> QED BY <1>1, <1>2, AmmCorrect, PTL DEF Spec
=============================================================================
