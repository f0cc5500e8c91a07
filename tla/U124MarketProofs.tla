-------------------------- MODULE U124MarketProofs --------------------------
(***************************************************************************)
(* What every U124 market rests on, for any payers, amounts and orders and *)
(* for proofs of any age: the market's invariant is kept by whatever a     *)
(* payer does and by every stack that serves an order, and a funded order  *)
(* in an old view is the order its owner has now.                          *)
(***************************************************************************)
EXTENDS U124Market, TLAPS

USE MarketAssumption

(* Slots whose nonces can be compared.                                     *)
AreSlots(slots) == \A o \in slots : o.nonce \in Nat

LEMMA PurseTypes ==
    /\ "fee" \in Coins /\ "a" \in Coins /\ "b" \in Coins
    /\ Empty \in Purses
    /\ \A f, x, y \in Nat : Purse(f, x, y) \in Purses
    /\ \A c \in Coins, x \in Nat : Only(c, x) \in Purses
    /\ \A p, q \in Purses : Plus(p, q) \in Purses
  BY DEF Coins, Purses, Purse, Empty, Only, Plus

LEMMA PurseCoins ==
    /\ \A f, x, y : Purse(f, x, y)["fee"] = f /\ Purse(f, x, y)["a"] = x /\ Purse(f, x, y)["b"] = y
    /\ \A x : Only("fee", x)["fee"] = x /\ Only("fee", x)["a"] = 0 /\ Only("fee", x)["b"] = 0
    /\ \A x : Only("a", x)["fee"] = 0 /\ Only("a", x)["a"] = x /\ Only("a", x)["b"] = 0
    /\ \A x : Only("b", x)["fee"] = 0 /\ Only("b", x)["a"] = 0 /\ Only("b", x)["b"] = x
    /\ \A c \in Coins : Empty[c] = 0
  BY DEF Coins, Purse, Only, Empty

LEMMA InitCorrect ==
    ASSUME NEW slots, NEW none \in slots, none.nonce = 0, none.kind = 0, MarketInit(none)
    PROVE  MarketInv(slots)
  <1>1. [p \in Payers |-> Empty] \in [Payers -> Purses]
    BY PurseTypes
  <1>2. Receipt(0, Empty) \in Receipts
    BY PurseTypes DEF Receipt, Receipts
  <1>3. View(0, order, sent) \in Views(slots)
    BY <1>1 DEF MarketInit, View, Views
  <1>4. MarketType(slots)
    BY <1>1, <1>2, <1>3, PurseTypes DEF MarketInit, MarketType
  <1>5. CursorsAreClaims /\ ProofsAreOld /\ PaidOrdersStay
    BY PurseCoins DEF MarketInit, CursorsAreClaims, ProofsAreOld, PaidOrdersStay, View, Receipt, Empty, Purse, Coins
  <1> QED BY <1>4, <1>5 DEF MarketInv

(* An order that a view shows active and funded is still in its slot.      *)
LEMMA FundedIsPresent ==
    ASSUME NEW slots, MarketInv(slots), NEW v \in views, NEW p \in Payers,
           v.order[p].kind # 0, NEW due \in Purses, due["fee"] > 0, IsFunded(v, p, due)
    PROVE  order[p] = v.order[p]
  <1>1. v \in Views(slots)
    BY DEF MarketInv, MarketType
  <1>2. v.sent[p]["fee"] = settled[p]["fee"] + due["fee"]
    BY PurseTypes DEF IsFunded
  <1>3. settled[p]["fee"] \in Nat /\ due["fee"] \in Nat
    BY PurseTypes DEF MarketInv, MarketType, Purses
  <1>4. v.sent[p]["fee"] > settled[p]["fee"]
    BY <1>2, <1>3
  <1> QED BY <1>4 DEF MarketInv, PaidOrdersStay

-----------------------------------------------------------------------------
(* What a payer does keeps the invariant if totals and nonces only grow    *)
(* and an order changes only when it is inactive or its fee was settled.   *)
LEMMA PayerKeeps ==
    ASSUME NEW slots, MarketInv(slots), AreSlots(slots), NEW p \in Payers, PayerMoves(p),
           order' \in [Payers -> slots], sent' \in [Payers -> Purses],
           \A x \in Payers :
               /\ \A c \in Coins : sent[x][c] <= sent'[x][c]
               /\ order[x].nonce <= order'[x].nonce
               /\ order'[x] # order[x] => order[x].kind = 0 \/ sent[x]["fee"] <= settled[x]["fee"]
    PROVE  MarketInv(slots)'
  <1> DEFINE new == View(checkpoint, order', sent')
  <1>1. new \in Views(slots) /\ views' = views \cup {new}
    BY DEF MarketInv, MarketType, PayerMoves, View, Views
  <1>2. Receipt(checkpoint, settled[p]) \in Receipts
    BY DEF MarketInv, MarketType, Receipt, Receipts
  <1>3. MarketType(slots)'
    BY <1>1, <1>2 DEF MarketInv, MarketType, PayerMoves, vaultVars, Views
  <1>4. CursorsAreClaims'
    BY DEF MarketInv, CursorsAreClaims, PayerMoves, vaultVars
  <1>5. ASSUME NEW x \in Payers
        PROVE  /\ consumed'[x] <= order'[x].nonce
               /\ \A c \in Coins : settled'[x][c] <= sent'[x][c]
               /\ \A r \in seen'[x], c \in Coins : r.settled[c] <= settled'[x][c]
    <2>1. ASSUME NEW c \in Coins PROVE settled[x][c] <= sent'[x][c]
      <3>1. settled[x] \in Purses /\ sent[x] \in Purses /\ sent'[x] \in Purses
        BY DEF MarketInv, MarketType
      <3>2. settled[x][c] <= sent[x][c] /\ sent[x][c] <= sent'[x][c]
        BY DEF MarketInv, ProofsAreOld
      <3> QED BY <3>1, <3>2 DEF Purses
    <2>2. consumed[x] <= order'[x].nonce
      <3>1. consumed[x] \in Nat /\ order[x].nonce \in Nat /\ order'[x].nonce \in Nat
        BY DEF MarketInv, MarketType, AreSlots
      <3>2. consumed[x] <= order[x].nonce /\ order[x].nonce <= order'[x].nonce
        BY DEF MarketInv, ProofsAreOld
      <3> QED BY <3>1, <3>2
    <2>3. ASSUME NEW r \in seen'[x], NEW c \in Coins PROVE r.settled[c] <= settled[x][c]
      <3>1. CASE r \in seen[x]
        BY <3>1 DEF MarketInv, ProofsAreOld
      <3>2. CASE r = Receipt(checkpoint, settled[p]) /\ x = p
        <4>1. settled[x] \in Purses
          BY DEF MarketInv, MarketType
        <4> QED BY <3>2, <4>1 DEF Receipt, Purses
      <3> QED BY <3>1, <3>2 DEF PayerMoves, MarketInv, MarketType
    <2> QED BY <2>1, <2>2, <2>3 DEF PayerMoves, vaultVars
  <1>6. ASSUME NEW v \in views', NEW x \in Payers
        PROVE  /\ \A c \in Coins : v.sent[x][c] <= sent'[x][c]
               /\ (v.order[x].kind # 0 /\ v.sent[x]["fee"] > settled'[x]["fee"]) => order'[x] = v.order[x]
    <2>0. settled[x] \in Purses /\ sent[x] \in Purses /\ sent'[x] \in Purses
      BY DEF MarketInv, MarketType
    <2>1. CASE v = new
      BY <2>0, <2>1 DEF View, Purses
    <2>2. CASE v \in views
      <3>1. v.sent[x] \in Purses
        BY <2>2 DEF MarketInv, MarketType, Views
      <3>2. \A c \in Coins : v.sent[x][c] <= sent[x][c] /\ sent[x][c] <= sent'[x][c]
        BY <2>2 DEF MarketInv, ProofsAreOld
      <3>3. \A c \in Coins : v.sent[x][c] <= sent'[x][c]
        BY <2>0, <3>1, <3>2 DEF Purses
      <3>4. ASSUME v.order[x].kind # 0, v.sent[x]["fee"] > settled[x]["fee"]
            PROVE  order'[x] = v.order[x]
        <4>1. order[x] = v.order[x] /\ order[x].kind # 0
          BY <2>2, <3>4 DEF MarketInv, PaidOrdersStay
        <4>2. "fee" \in Coins
          BY DEF Coins
        <4>3. v.sent[x]["fee"] \in Nat /\ sent[x]["fee"] \in Nat /\ settled[x]["fee"] \in Nat
          BY <2>0, <3>1, <4>2 DEF Purses
        <4>4. v.sent[x]["fee"] <= sent[x]["fee"]
          BY <3>2, <4>2
        <4>5. ~(sent[x]["fee"] <= settled[x]["fee"])
          BY <3>4, <4>3, <4>4
        <4> QED BY <4>1, <4>5
      <3> QED BY <3>3, <3>4 DEF PayerMoves, vaultVars
    <2> QED BY <1>1, <2>1, <2>2
  <1>7. ProofsAreOld' /\ PaidOrdersStay'
    BY <1>5, <1>6 DEF ProofsAreOld, PaidOrdersStay
  <1> QED BY <1>3, <1>4, <1>7 DEF MarketInv

(* The open methods fill an inactive slot, with a higher nonce.            *)
LEMMA OpensIsSafe ==
    ASSUME NEW slots, MarketInv(slots), AreSlots(slots), NEW p \in Payers, NEW o \in slots, Opens(p, o)
    PROVE  /\ order' \in [Payers -> slots]
           /\ \A x \in Payers :
               /\ order[x].nonce <= order'[x].nonce
               /\ order'[x] # order[x] => order[x].kind = 0
  <1>1. order \in [Payers -> slots]
    BY DEF MarketInv, MarketType
  <1>2. order[p].kind = 0 /\ o.nonce > order[p].nonce /\ order' = [order EXCEPT ![p] = o]
    BY DEF Opens
  <1>3. order' \in [Payers -> slots]
    BY <1>1, <1>2
  <1>4. ASSUME NEW x \in Payers
        PROVE  order[x].nonce <= order'[x].nonce /\ (order'[x] # order[x] => order[x].kind = 0)
    <2>1. order[x].nonce \in Nat /\ o.nonce \in Nat
      BY <1>1 DEF AreSlots
    <2>2. CASE x = p
      BY <1>1, <1>2, <2>1, <2>2
    <2>3. CASE x # p
      BY <1>1, <1>2, <2>1, <2>3
    <2> QED BY <2>2, <2>3
  <1> QED BY <1>3, <1>4

LEMMA PaysIsSafe ==
    ASSUME NEW slots, MarketInv(slots), NEW p \in Payers, NEW purse \in Purses, Pays(p, purse)
    PROVE  /\ sent' \in [Payers -> Purses]
           /\ \A x \in Payers, c \in Coins : sent[x][c] <= sent'[x][c]
  <1>1. sent \in [Payers -> Purses]
    BY DEF MarketInv, MarketType
  <1>2. sent' = [sent EXCEPT ![p] = Plus(sent[p], purse)]
    BY DEF Pays
  <1>3. Plus(sent[p], purse) \in Purses
    BY <1>1 DEF Plus, Purses
  <1>4. ASSUME NEW x \in Payers, NEW c \in Coins PROVE sent[x][c] <= sent'[x][c]
    <2>1. sent[x][c] \in Nat /\ purse[c] \in Nat
      BY <1>1 DEF Purses
    <2>2. CASE x = p
      BY <1>1, <1>2, <2>1, <2>2 DEF Plus
    <2>3. CASE x # p
      BY <1>1, <1>2, <2>1, <2>3
    <2> QED BY <2>2, <2>3
  <1> QED BY <1>1, <1>2, <1>3, <1>4

LEMMA SentStays ==
    ASSUME NEW slots, MarketInv(slots), UNCHANGED sent
    PROVE  /\ sent' \in [Payers -> Purses]
           /\ \A x \in Payers, c \in Coins : sent[x][c] <= sent'[x][c]
  <1>1. \A x \in Payers : sent[x] \in Purses
    BY DEF MarketInv, MarketType
  <1>2. \A x \in Payers, c \in Coins : sent[x][c] \in Nat
    BY <1>1 DEF Purses
  <1> QED BY <1>2 DEF MarketInv, MarketType

(* An order and its payments, one without the other, or a closed slot.     *)
LEMMA OpenFundedKeeps ==
    ASSUME NEW slots, MarketInv(slots), AreSlots(slots), NEW p \in Payers, NEW o \in slots,
           NEW due \in Purses, OpenFunded(p, o, due)
    PROVE  MarketInv(slots)'
  BY OpensIsSafe, PaysIsSafe, PayerKeeps DEF OpenFunded

LEMMA OpenUnfundedKeeps ==
    ASSUME NEW slots, MarketInv(slots), AreSlots(slots), NEW p \in Payers, NEW o \in slots,
           OpenUnfunded(p, o)
    PROVE  MarketInv(slots)'
  BY OpensIsSafe, SentStays, PayerKeeps DEF OpenUnfunded

LEMMA PayKeeps ==
    ASSUME NEW slots, MarketInv(slots), AreSlots(slots), NEW p \in Payers, NEW payment \in Payments,
           Pay(p, payment)
    PROVE  MarketInv(slots)'
  <1>1. payment \in Purses
    OBVIOUS
  <1>2. order' = order /\ order \in [Payers -> slots]
    BY DEF Pay, MarketInv, MarketType
  <1>3. \A x \in Payers : order[x].nonce \in Nat
    BY <1>2 DEF AreSlots
  <1> QED BY <1>1, <1>2, <1>3, PaysIsSafe, PayerKeeps DEF Pay

LEMMA ClosesKeeps ==
    ASSUME NEW slots, MarketInv(slots), AreSlots(slots), NEW p \in Payers, NEW coins, "fee" \in coins,
           \A o \in slots : [o EXCEPT !.kind = 0] \in slots /\ [o EXCEPT !.kind = 0].nonce = o.nonce,
           Closes(p, coins)
    PROVE  MarketInv(slots)'
  <1>1. PICK r \in seen[p] : NothingUnsettled(p, r, coins)
    BY DEF Closes
  <1>2. sent[p]["fee"] <= settled[p]["fee"]
    <2>1. "fee" \in Coins
      BY DEF Coins
    <2>2. sent[p]["fee"] = r.settled["fee"]
      BY <1>1 DEF NothingUnsettled
    <2>3. r.settled["fee"] <= settled[p]["fee"]
      BY <2>1 DEF MarketInv, ProofsAreOld
    <2> QED BY <2>2, <2>3
  <1>3. order \in [Payers -> slots] /\ order' = [order EXCEPT ![p] = [order[p] EXCEPT !.kind = 0]]
    BY DEF Closes, MarketInv, MarketType
  <1> DEFINE closed == [order[p] EXCEPT !.kind = 0]
  <1>4. closed \in slots /\ closed.nonce = order[p].nonce
    BY <1>3
  <1>5. order' = [order EXCEPT ![p] = closed]
    BY <1>3
  <1> HIDE DEF closed
  <1>6. order' \in [Payers -> slots]
    BY <1>3, <1>4, <1>5
  <1>7. ASSUME NEW x \in Payers
        PROVE  order[x].nonce <= order'[x].nonce /\ (order'[x] # order[x] => x = p)
    <2>1. order[x].nonce \in Nat
      BY <1>3 DEF AreSlots
    <2>2. CASE x = p
      BY <1>3, <1>4, <1>5, <2>1, <2>2
    <2>3. CASE x # p
      BY <1>3, <1>5, <2>1, <2>3
    <2> QED BY <2>2, <2>3
  <1>8. UNCHANGED sent /\ PayerMoves(p)
    BY DEF Closes
  <1> QED BY <1>2, <1>6, <1>7, <1>8, SentStays, PayerKeeps

-----------------------------------------------------------------------------
(* What the vault does keeps it if cursors only grow, up to what was sent. *)
LEMMA VaultKeeps ==
    ASSUME NEW slots, MarketInv(slots), VaultMoves, claimed' = settled',
           settled' \in [Payers -> Purses], paid' \in [Payers -> Purses], vault' \in Purses,
           consumed' \in [Payers -> Nat],
           \A x \in Payers :
               /\ consumed'[x] <= order[x].nonce
               /\ \A c \in Coins : settled[x][c] <= settled'[x][c] /\ settled'[x][c] <= sent[x][c]
    PROVE  MarketInv(slots)'
  <1>1. View(checkpoint, order, sent) \in Views(slots)
    BY DEF MarketInv, MarketType, View, Views
  <1>2. \A x \in Payers : Receipt(checkpoint, settled'[x]) \in Receipts
    BY DEF MarketInv, MarketType, Receipt, Receipts
  <1>3. seen' \in [Payers -> SUBSET Receipts]
    BY <1>2 DEF MarketInv, MarketType, VaultMoves
  <1>4. MarketType(slots)'
    BY <1>1, <1>3 DEF MarketInv, MarketType, VaultMoves, payerVars, Views
  <1>5. CursorsAreClaims'
    BY DEF CursorsAreClaims
  <1>6. ASSUME NEW x \in Payers, NEW r \in seen'[x], NEW c \in Coins
        PROVE  r.settled[c] <= settled'[x][c]
    <2>0. settled[x] \in Purses /\ settled'[x] \in Purses
      BY DEF MarketInv, MarketType
    <2>1. CASE r \in seen[x]
      <3>1. r \in Receipts
        BY <2>1 DEF MarketInv, MarketType
      <3>2. r.settled[c] <= settled[x][c] /\ settled[x][c] <= settled'[x][c]
        BY <2>1 DEF MarketInv, ProofsAreOld
      <3> QED BY <2>0, <3>1, <3>2 DEF Receipts, Purses
    <2>2. CASE r = Receipt(checkpoint, settled'[x])
      BY <2>0, <2>2 DEF Receipt, Purses
    <2> QED BY <2>1, <2>2 DEF VaultMoves
  <1>7. ASSUME NEW v \in views', NEW x \in Payers
        PROVE  /\ \A c \in Coins : v.sent[x][c] <= sent'[x][c]
               /\ order'[x] = v.order[x]
    <2>1. v = View(checkpoint, order, sent) /\ sent' = sent /\ order' = order
      BY DEF VaultMoves, payerVars
    <2>2. sent[x] \in Purses
      BY DEF MarketInv, MarketType
    <2> QED BY <2>1, <2>2 DEF View, Purses
  <1>8. ProofsAreOld' /\ PaidOrdersStay'
    BY <1>6, <1>7 DEF ProofsAreOld, PaidOrdersStay, VaultMoves, payerVars
  <1> QED BY <1>4, <1>5, <1>8 DEF MarketInv

(* The cursors move by exactly what was due, whatever view was shown.      *)
LEMMA CursorsMoveByDue ==
    ASSUME NEW slots, MarketInv(slots), NEW v \in views, NEW p \in Payers,
           NEW due \in Purses, IsFunded(v, p, due), MovesCursors(v, p, due), Claims(v, p, due)
    PROVE  /\ claimed' = settled'
           /\ settled' \in [Payers -> Purses]
           /\ settled' = [settled EXCEPT ![p] = Plus(settled[p], due)]
           /\ \A x \in Payers, c \in Coins :
                settled[x][c] <= settled'[x][c] /\ settled'[x][c] <= sent[x][c]
           /\ \A c \in Coins : Brought(v, p, due, c) = due[c]
  <1>1. v \in Views(slots) /\ settled \in [Payers -> Purses] /\ sent \in [Payers -> Purses]
    BY DEF MarketInv, MarketType
  <1>2. v.sent[p] \in Purses
    BY <1>1 DEF Views
  <1>3. ASSUME NEW c \in Coins
        PROVE  /\ settled[p][c] \in Nat /\ due[c] \in Nat /\ sent[p][c] \in Nat
               /\ (IF due[c] > 0 THEN v.sent[p][c] ELSE settled[p][c]) = settled[p][c] + due[c]
               /\ settled[p][c] + due[c] <= sent[p][c]
    <2>1. settled[p][c] \in Nat /\ due[c] \in Nat /\ v.sent[p][c] \in Nat /\ sent[p][c] \in Nat
      BY <1>1, <1>2 DEF Purses
    <2>2. v.sent[p][c] <= sent[p][c] /\ settled[p][c] <= sent[p][c]
      BY DEF MarketInv, ProofsAreOld
    <2>3. due[c] > 0 => v.sent[p][c] = settled[p][c] + due[c]
      BY DEF IsFunded
    <2> QED BY <2>1, <2>2, <2>3
  <1> DEFINE new == [c \in Coins |-> IF due[c] > 0 THEN v.sent[p][c] ELSE settled[p][c]]
  <1>4. new = Plus(settled[p], due) /\ new \in Purses
    BY <1>3 DEF Plus, Purses
  <1>5. settled' = [settled EXCEPT ![p] = new]
    BY DEF MovesCursors
  <1>6. claimed = settled
    BY DEF MarketInv, CursorsAreClaims
  <1>7. claimed' = [settled EXCEPT ![p] = new]
    BY <1>6 DEF Claims
  <1>8. \A c \in Coins : new[c] = settled[p][c] + due[c]
    BY <1>3
  <1>9. \A c \in Coins : Brought(v, p, due, c) = due[c]
    BY <1>3, <1>6 DEF Brought
  <1> HIDE DEF new
  <1>10. ASSUME NEW x \in Payers, NEW c \in Coins
         PROVE  settled[x][c] <= settled'[x][c] /\ settled'[x][c] <= sent[x][c]
    <2>1. CASE x = p
      BY <1>1, <1>3, <1>5, <1>8, <2>1
    <2>2. CASE x # p
      <3>1. settled'[x] = settled[x]
        BY <1>1, <1>5, <2>2
      <3>2. settled[x][c] <= sent[x][c] /\ settled[x][c] \in Nat
        BY <1>1 DEF MarketInv, ProofsAreOld, Purses
      <3> QED BY <3>1, <3>2
    <2> QED BY <2>1, <2>2
  <1>11. settled' \in [Payers -> Purses]
    BY <1>1, <1>4, <1>5
  <1> QED BY <1>4, <1>5, <1>7, <1>9, <1>10, <1>11

(* The vault gains what was due and loses what it sends and burns.         *)
LEMMA SpendsMoves ==
    ASSUME vault \in Purses, NEW v, NEW p, NEW due \in Purses, NEW out \in Purses, NEW fee \in Nat,
           \A c \in Coins : Brought(v, p, due, c) = due[c],
           Spends(v, p, due, out, fee)
    PROVE  /\ vault' \in Purses
           /\ vault'["fee"] = vault["fee"] + due["fee"] - out["fee"] - fee
           /\ vault'["a"] = vault["a"] + due["a"] - out["a"]
           /\ vault'["b"] = vault["b"] + due["b"] - out["b"]
  <1>1. \A c \in Coins : Only("fee", fee)[c] \in Nat /\ out[c] \in Nat /\ due[c] \in Nat /\ vault[c] \in Nat
    BY PurseTypes DEF Purses
  <1>2. vault' = [c \in Coins |-> vault[c] + due[c] - out[c] - Only("fee", fee)[c]]
    BY DEF Spends
  <1>3. \A c \in Coins : vault[c] + due[c] - out[c] - Only("fee", fee)[c] \in Nat
    BY <1>1 DEF Spends
  <1>4. vault' \in Purses
    BY <1>2, <1>3 DEF Purses
  <1>5. "fee" \in Coins /\ "a" \in Coins /\ "b" \in Coins
    BY DEF Coins
  <1>6. Only("fee", fee)["fee"] = fee /\ Only("fee", fee)["a"] = 0 /\ Only("fee", fee)["b"] = 0
    BY PurseCoins
  <1>7. /\ vault'["fee"] = vault["fee"] + due["fee"] - out["fee"] - fee
        /\ vault'["a"] = vault["a"] + due["a"] - out["a"] - 0
        /\ vault'["b"] = vault["b"] + due["b"] - out["b"] - 0
    BY <1>2, <1>5, <1>6
  <1> QED BY <1>1, <1>4, <1>5, <1>7

(* One stack for an order: the owner's present order, exactly its payment, *)
(* and the invariant again.                                                *)
LEMMA ServesMoves ==
    ASSUME NEW slots, MarketInv(slots), AreSlots(slots), NEW v \in views, NEW p \in Payers,
           v.order[p].kind # 0, NEW due \in Purses, due["fee"] > 0, NEW out \in Purses, NEW fee \in Nat,
           Serves(v, p, due, out, fee)
    PROVE  /\ order[p] = v.order[p]
           /\ settled' = [settled EXCEPT ![p] = Plus(settled[p], due)]
           /\ paid' = [paid EXCEPT ![p] = Plus(paid[p], out)]
           /\ consumed' = [consumed EXCEPT ![p] = order[p].nonce]
           /\ vault'["fee"] = vault["fee"] + due["fee"] - out["fee"] - fee
           /\ vault'["a"] = vault["a"] + due["a"] - out["a"]
           /\ vault'["b"] = vault["b"] + due["b"] - out["b"]
           /\ UNCHANGED <<checkpoint, payerVars>>
           /\ MarketInv(slots)'
  <1>1. IsFunded(v, p, due) /\ MovesCursors(v, p, due) /\ Claims(v, p, due) /\ VaultMoves
    BY DEF Serves, Settles
  <1>2. order[p] = v.order[p]
    BY <1>1, FundedIsPresent
  <1>3. /\ claimed' = settled'
        /\ settled' \in [Payers -> Purses]
        /\ settled' = [settled EXCEPT ![p] = Plus(settled[p], due)]
        /\ \A x \in Payers, c \in Coins :
             settled[x][c] <= settled'[x][c] /\ settled'[x][c] <= sent[x][c]
        /\ \A c \in Coins : Brought(v, p, due, c) = due[c]
    BY <1>1, CursorsMoveByDue
  <1>4. consumed' = [consumed EXCEPT ![p] = order[p].nonce]
    BY <1>2 DEF Serves, Settles
  <1>5. order[p].nonce \in Nat /\ order \in [Payers -> slots] /\ consumed \in [Payers -> Nat]
    BY DEF MarketInv, MarketType, AreSlots
  <1>6. consumed' \in [Payers -> Nat] /\ \A x \in Payers : consumed'[x] <= order[x].nonce
    BY <1>4, <1>5 DEF MarketInv, ProofsAreOld
  <1>7. Plus(paid[p], out) \in Purses
    BY DEF MarketInv, MarketType, Plus, Purses
  <1>8. paid' = [paid EXCEPT ![p] = Plus(paid[p], out)] /\ paid' \in [Payers -> Purses]
    BY <1>7 DEF Serves, MarketInv, MarketType
  <1>9. Spends(v, p, due, out, fee) /\ vault \in Purses
    BY DEF Serves, MarketInv, MarketType
  <1>10. /\ vault' \in Purses
         /\ vault'["fee"] = vault["fee"] + due["fee"] - out["fee"] - fee
         /\ vault'["a"] = vault["a"] + due["a"] - out["a"]
         /\ vault'["b"] = vault["b"] + due["b"] - out["b"]
    BY <1>3, <1>9, SpendsMoves
  <1>11. UNCHANGED <<checkpoint, payerVars>>
    BY <1>1 DEF VaultMoves
  <1>12. MarketInv(slots)'
    BY <1>1, <1>3, <1>6, <1>8, <1>10, VaultKeeps
  <1> QED BY <1>2, <1>3, <1>4, <1>8, <1>10, <1>11, <1>12

LEMMA NewCheckpointKeeps ==
    ASSUME NEW slots, MarketInv(slots), NewCheckpoint
    PROVE  MarketInv(slots)'
  <1>1. View(checkpoint', order, sent) \in Views(slots) /\ checkpoint' \in Nat
    BY DEF MarketInv, MarketType, View, Views, NewCheckpoint
  <1>2. \A x \in Payers : Receipt(checkpoint', settled[x]) \in Receipts
    BY <1>1 DEF MarketInv, MarketType, Receipt, Receipts
  <1>3. seen' \in [Payers -> SUBSET Receipts]
    BY <1>2 DEF MarketInv, MarketType, NewCheckpoint
  <1>4. MarketType(slots)'
    BY <1>1, <1>3 DEF MarketInv, MarketType, NewCheckpoint, payerVars, vaultVars, Views
  <1>5. CursorsAreClaims'
    BY DEF MarketInv, CursorsAreClaims, NewCheckpoint, vaultVars
  <1>6. ASSUME NEW x \in Payers, NEW r \in seen'[x], NEW c \in Coins
        PROVE  r.settled[c] <= settled[x][c]
    <2>1. CASE r \in seen[x]
      BY <2>1 DEF MarketInv, ProofsAreOld
    <2>2. CASE r = Receipt(checkpoint', settled[x])
      BY <2>2 DEF MarketInv, MarketType, Receipt, Purses
    <2> QED BY <2>1, <2>2 DEF NewCheckpoint
  <1>7. ASSUME NEW v \in views', NEW x \in Payers
        PROVE  /\ \A c \in Coins : v.sent[x][c] <= sent[x][c]
               /\ (v.order[x].kind # 0 /\ v.sent[x]["fee"] > settled[x]["fee"]) => order[x] = v.order[x]
    <2>1. CASE v \in views
      BY <2>1 DEF MarketInv, ProofsAreOld, PaidOrdersStay
    <2>2. CASE v = View(checkpoint', order, sent)
      BY <2>2 DEF MarketInv, MarketType, View, Purses
    <2> QED BY <2>1, <2>2 DEF NewCheckpoint
  <1>8. UNCHANGED <<order, sent, consumed, settled>>
    BY DEF NewCheckpoint, payerVars, vaultVars
  <1>9. ProofsAreOld' /\ PaidOrdersStay'
    BY <1>6, <1>7, <1>8 DEF MarketInv, ProofsAreOld, PaidOrdersStay
  <1> QED BY <1>4, <1>5, <1>9 DEF MarketInv
=============================================================================
