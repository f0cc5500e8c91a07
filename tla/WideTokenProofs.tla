--------------------------- MODULE WideTokenProofs ---------------------------
(***************************************************************************)
(* Proofs of WideTokenProps for any base, any users and any slots: limb    *)
(* arithmetic is integer arithmetic, so each call is the call of PsyToken  *)
(* on the numbers.                                                         *)
(***************************************************************************)
EXTENDS WideTokenProps, TLAPS

USE UsersAssumption, BaseAssumption

-----------------------------------------------------------------------------
(* Limb arithmetic.                                                        *)

LEMMA TimesBase ==
    ASSUME NEW x \in Nat, NEW y \in Nat
    PROVE  /\ Base * x \in Nat
           /\ Base * (x + y) = Base * x + Base * y
           /\ x < y => Base * x + Base <= Base * y
           /\ x <= y => Base * x <= Base * y
<1>1. ASSUME NEW k \in Nat PROVE Base * k \in Nat
  OBVIOUS
<1>2. Base * (x + y) = Base * x + Base * y
  OBVIOUS
<1>3. x < y => Base * x + Base <= Base * y
  <2> SUFFICES ASSUME x < y PROVE Base * x + Base <= Base * y
    OBVIOUS
  <2> DEFINE d == y - x - 1
  <2>1. d \in Nat /\ y = x + 1 + d
    OBVIOUS
  <2> HIDE DEF d
  <2>2. Base * y = Base * x + Base + Base * d
    BY <2>1
  <2> QED BY <2>1, <2>2, <1>1
<1>4. x <= y => Base * x <= Base * y
  BY <1>1, <1>3
<1> QED BY <1>1, <1>2, <1>3, <1>4

(* A sum of canonical pairs may have a high limb that is too large.        *)
Loose == [lo : Limb, hi : Nat]

LEMMA WideIsLoose == \A a \in Wide : a \in Loose
    BY DEF Wide, Loose, Limb

LEMMA LooseVal ==
    ASSUME NEW a \in Loose
    PROVE  Val(a) \in Nat /\ (Val(a) = 0 <=> a = Zero)
    BY TimesBase DEF Loose, Limb, Val, Zero

LEMMA CompareLoose ==
    ASSUME NEW a \in Loose, NEW b \in Loose
    PROVE  /\ Less(a, b) <=> Val(a) < Val(b)
           /\ Leq(a, b) <=> Val(a) <= Val(b)
           /\ a = b <=> Val(a) = Val(b)
<1> /\ a.lo \in Nat /\ a.hi \in Nat /\ b.lo \in Nat /\ b.hi \in Nat
    /\ a.lo < Base /\ b.lo < Base
  BY DEF Loose, Limb
<1>1. CASE a.hi < b.hi
  BY <1>1, TimesBase DEF Less, Leq, Val
<1>2. CASE a.hi = b.hi
  <2>1. Base * a.hi \in Nat
    BY TimesBase
  <2>2. (a.lo = b.lo) <=> (a = b)
    BY <1>2 DEF Loose
  <2> QED BY <1>2, <2>1, <2>2 DEF Less, Leq, Val
<1>3. CASE b.hi < a.hi
  <2>1. Base * b.hi + Base <= Base * a.hi /\ Base * b.hi \in Nat /\ Base * a.hi \in Nat
    BY <1>3, TimesBase
  <2>2. a # b
    BY <1>3
  <2> QED BY <1>3, <2>1, <2>2 DEF Less, Leq, Val
<1> QED BY <1>1, <1>2, <1>3

LEMMA PlusIsSum ==
    ASSUME NEW a \in Loose, NEW b \in Loose
    PROVE  Plus(a, b) \in Loose /\ Val(Plus(a, b)) = Val(a) + Val(b)
<1> /\ a.lo \in Nat /\ a.hi \in Nat /\ b.lo \in Nat /\ b.hi \in Nat
    /\ a.lo < Base /\ b.lo < Base
  BY DEF Loose, Limb
<1> DEFINE c == Carry(a, b)
<1>1. c \in {0, 1} /\ a.lo + b.lo - c * Base \in Limb
  BY DEF Carry, Limb
<1>2. a.hi + b.hi + c \in Nat
  BY <1>1
<1>3. Base * (a.hi + b.hi + c) = Base * a.hi + Base * b.hi + Base * c
  BY <1>1
<1>4. Base * a.hi \in Nat /\ Base * b.hi \in Nat
  BY TimesBase
<1>5. /\ Plus(a, b).lo = a.lo + b.lo - c * Base
      /\ Plus(a, b).hi = a.hi + b.hi + c
  BY DEF Plus
<1>6. Plus(a, b) \in Loose
  BY <1>1, <1>2 DEF Plus, Loose
<1>7. Base * c = c * Base
  BY <1>1
<1> HIDE DEF c
<1>8. Val(Plus(a, b)) = Val(a) + Val(b)
  BY <1>1, <1>3, <1>4, <1>5, <1>7 DEF Val
<1> QED BY <1>6, <1>8

LEMMA MinusIsDifference ==
    ASSUME NEW a \in Wide, NEW b \in Wide, Leq(b, a)
    PROVE  Minus(a, b) \in Wide /\ Val(Minus(a, b)) = Val(a) - Val(b)
<1> /\ a.lo \in Nat /\ a.hi \in Nat /\ b.lo \in Nat /\ b.hi \in Nat
    /\ a.lo < Base /\ b.lo < Base /\ a.hi < Base /\ b.hi < Base
  BY DEF Wide, Limb
<1> DEFINE c == Borrow(a, b)
<1>1. c \in {0, 1} /\ a.lo + c * Base - b.lo \in Limb
  BY DEF Borrow, Limb
<1>2. a.hi - b.hi - c \in Limb
  BY DEF Leq, Less, Borrow, Limb
<1>3. /\ Minus(a, b).lo = a.lo + c * Base - b.lo
      /\ Minus(a, b).hi = a.hi - b.hi - c
  BY DEF Minus
<1>4. Minus(a, b) \in Wide
  BY <1>1, <1>2 DEF Minus, Wide
<1>5. Base * a.hi = Base * b.hi + Base * (a.hi - b.hi - c) + Base * c
  BY <1>1
<1>6. Base * c = c * Base
  BY <1>1
<1>7. Base * a.hi \in Nat /\ Base * b.hi \in Nat /\ Base * (a.hi - b.hi - c) \in Nat
  BY <1>2, TimesBase DEF Limb
<1> DEFINE h == a.hi - b.hi - c
           k == c * Base
<1>8. k \in Nat
  BY <1>1
<1>9. Val(Minus(a, b)) = (a.lo + k - b.lo) + Base * h
  BY <1>3 DEF Val
<1>10. Base * a.hi = Base * b.hi + Base * h + k
  BY <1>5, <1>6
<1>11. Base * a.hi \in Nat /\ Base * b.hi \in Nat /\ Base * h \in Nat
  BY <1>7
<1>12. Val(a) - Val(b) = (a.lo + Base * a.hi) - (b.lo + Base * b.hi)
  BY DEF Val
<1> HIDE DEF c, h, k
<1>13. Val(Minus(a, b)) = Val(a) - Val(b)
  BY <1>8, <1>9, <1>10, <1>11, <1>12
<1> QED BY <1>4, <1>13

(* The range check of the high limb is the comparison with MaxWide.        *)
LEMMA WideIsBounded ==
    ASSUME NEW a \in Loose
    PROVE  a \in Wide <=> Val(a) <= MaxWide
<1> a.lo \in Nat /\ a.hi \in Nat /\ a.lo < Base
  BY DEF Loose, Limb
<1>1. CASE a.hi < Base
  <2>1. Base * a.hi + Base <= Base * Base
    BY <1>1, TimesBase
  <2>2. Base * a.hi \in Nat /\ Base * Base \in Nat
    BY TimesBase
  <2>3. Val(a) <= MaxWide
    BY <2>1, <2>2 DEF Val, MaxWide
  <2>4. a \in Wide
    BY <1>1 DEF Wide, Loose, Limb
  <2> QED BY <2>3, <2>4
<1>2. CASE a.hi >= Base
  <2>1. Base * Base <= Base * a.hi /\ Base * a.hi \in Nat /\ Base * Base \in Nat
    BY <1>2, TimesBase
  <2>2. ~ (Val(a) <= MaxWide)
    BY <2>1 DEF Val, MaxWide
  <2>3. a \notin Wide
    BY <1>2 DEF Wide, Limb
  <2> QED BY <2>2, <2>3
<1> QED BY <1>1, <1>2
-----------------------------------------------------------------------------
(* The helpers, on pairs and on numbers.                                   *)

(* A function of the users read as numbers.                                *)
Flat(f) == [v \in Users |-> Val(f[v])]
Flat2(f) == [u \in Users |-> [v \in Users |-> Val(f[u][v])]]
FlatVals(f) == [u \in Users |-> Vals(f[u])]
FlatVals2(f) == [u \in Users |-> [v \in Users |-> Vals(f[u][v])]]

LEMMA AmountFacts ==
    ASSUME NEW a \in Wide
    PROVE  /\ a \in Loose /\ Val(a) \in Nat /\ Val(a) <= MaxWide
           /\ a # Zero <=> Val(a) > 0
    BY WideIsLoose, LooseVal, WideIsBounded

LEMMA ZeroFacts == Zero \in Wide /\ Zero \in Loose /\ Val(Zero) = 0
<1>1. Zero \in Wide /\ Zero \in Loose
  BY DEF Zero, Wide, Loose, Limb
<1> QED BY <1>1, LooseVal

LEMMA DebitMaps ==
    ASSUME balance \in [Users -> Wide], NEW u \in Users, NEW a \in Wide, Debit(u, a)
    PROVE  /\ balance' \in [Users -> Wide]
           /\ Val(a) <= Val(balance[u])
           /\ Flat(balance)' = [Flat(balance) EXCEPT ![u] = @ - Val(a)]
<1>1. balance[u] \in Wide /\ Leq(a, balance[u])
  BY DEF Debit, Holds
<1>2. Minus(balance[u], a) \in Wide /\ Val(Minus(balance[u], a)) = Val(balance[u]) - Val(a)
  BY <1>1, MinusIsDifference
<1>3. Val(a) <= Val(balance[u])
  BY <1>1, WideIsLoose, CompareLoose
<1>4. balance' = [balance EXCEPT ![u] = Minus(balance[u], a)]
  BY DEF Debit
<1> QED BY <1>1, <1>2, <1>3, <1>4 DEF Flat

LEMMA DepositMaps ==
    ASSUME balance \in [Users -> Wide], NEW u \in Users, NEW a \in Wide, Deposit(u, a)
    PROVE  /\ balance' \in [Users -> Wide]
           /\ Val(a) <= MaxWide - Val(balance[u])
           /\ Flat(balance)' = [Flat(balance) EXCEPT ![u] = @ + Val(a)]
<1>1. balance[u] \in Loose /\ a \in Loose
  BY WideIsLoose
<1>2. Plus(balance[u], a) \in Wide /\ Val(Plus(balance[u], a)) = Val(balance[u]) + Val(a)
  BY <1>1, PlusIsSum DEF Deposit, HasRoom
<1>3. Val(balance[u]) \in Nat /\ Val(a) \in Nat /\ MaxWide \in Int
  BY <1>1, LooseVal DEF MaxWide
<1>4. Val(a) <= MaxWide - Val(balance[u])
  BY <1>2, <1>3, AmountFacts
<1>5. balance' = [balance EXCEPT ![u] = Plus(balance[u], a)]
  BY DEF Deposit
<1> QED BY <1>2, <1>4, <1>5 DEF Flat

LEMMA CreditMaps ==
    ASSUME NEW box \in [Users -> Loose], NEW r, NEW a \in Wide, a # Zero => r \in Users
    PROVE  /\ Credit(box, r, a) \in [Users -> Loose]
           /\ Flat(Credit(box, r, a)) = Narrow!Credit(Flat(box), r, Val(a))
<1>1. CASE a = Zero
  <2>1. ~ (Val(a) > 0)
    BY <1>1, AmountFacts
  <2> QED BY <1>1, <2>1 DEF Credit, Narrow!Credit
<1>2. CASE a # Zero
  <2>1. Val(a) > 0 /\ r \in Users /\ a \in Loose
    BY <1>2, AmountFacts
  <2>2. Plus(box[r], a) \in Loose /\ Val(Plus(box[r], a)) = Val(box[r]) + Val(a)
    BY <2>1, PlusIsSum
  <2>3. Credit(box, r, a) = [box EXCEPT ![r] = Plus(box[r], a)]
    BY <1>2 DEF Credit
  <2>4. Narrow!Credit(Flat(box), r, Val(a)) = [Flat(box) EXCEPT ![r] = Val(box[r]) + Val(a)]
    BY <2>1 DEF Narrow!Credit, Flat
  <2> QED BY <2>1, <2>2, <2>3, <2>4 DEF Flat
<1> QED BY <1>1, <1>2

LEMMA ValsGrow ==
    ASSUME NEW S, NEW x
    PROVE  Vals(S \cup {x}) = Vals(S) \cup {Val(x)}
    BY DEF Vals

OutboxType ==
    /\ amount_sent \in [Users -> [Users -> Wide]]
    /\ past_sent \in [Users -> [Users -> SUBSET Wide]]

LEMMA WriteOutboxMaps ==
    ASSUME OutboxType, NEW u \in Users, NEW box \in [Users -> Loose], WriteOutbox(u, box)
    PROVE  /\ OutboxType'
           /\ \A v \in Users : Val(box[v]) <= MaxWide
           /\ Flat2(amount_sent)' = [Flat2(amount_sent) EXCEPT ![u] = Flat(box)]
           /\ FlatVals2(past_sent)' =
                [FlatVals2(past_sent) EXCEPT ![u] = [v \in Users |-> @[v] \cup {Flat(box)[v]}]]
<1>1. /\ \A v \in Users : box[v] \in Wide
      /\ amount_sent' = [amount_sent EXCEPT ![u] = box]
      /\ past_sent' = [past_sent EXCEPT ![u] = [v \in Users |-> past_sent[u][v] \cup {box[v]}]]
  BY DEF WriteOutbox, Fits
<1>2. box \in [Users -> Wide]
  BY <1>1
<1>3. OutboxType'
  BY <1>1, <1>2 DEF OutboxType
<1>4. \A v \in Users : Val(box[v]) <= MaxWide
  BY <1>1, AmountFacts
<1>5. Flat2(amount_sent)' = [Flat2(amount_sent) EXCEPT ![u] = Flat(box)]
  BY <1>1 DEF OutboxType, Flat2, Flat
<1>6. \A v \in Users : Vals(past_sent[u][v] \cup {box[v]}) = Vals(past_sent[u][v]) \cup {Val(box[v])}
  BY ValsGrow
<1>7. \A w, v \in Users : past_sent'[w][v] =
        IF w = u THEN past_sent[u][v] \cup {box[v]} ELSE past_sent[w][v]
  BY <1>1 DEF OutboxType
<1>8. FlatVals2(past_sent)' =
        [w \in Users |-> [v \in Users |->
            IF w = u THEN Vals(past_sent[u][v]) \cup {Val(box[v])} ELSE Vals(past_sent[w][v])]]
  <2>1. ASSUME NEW w \in Users, NEW v \in Users
        PROVE  Vals(past_sent'[w][v]) =
                IF w = u THEN Vals(past_sent[u][v]) \cup {Val(box[v])} ELSE Vals(past_sent[w][v])
    <3>1. CASE w = u
      BY <3>1, <1>6, <1>7
    <3>2. CASE w # u
      BY <3>2, <1>7
    <3> QED BY <3>1, <3>2
  <2> QED BY <2>1 DEF FlatVals2
<1>9. [FlatVals2(past_sent) EXCEPT ![u] = [v \in Users |-> @[v] \cup {Flat(box)[v]}]] =
        [w \in Users |-> [v \in Users |->
            IF w = u THEN Vals(past_sent[u][v]) \cup {Val(box[v])} ELSE Vals(past_sent[w][v])]]
  BY DEF FlatVals2, Flat
<1> QED BY <1>3, <1>4, <1>5, <1>8, <1>9

LEMMA PayMaps ==
    ASSUME OutboxType, NEW u \in Users, NEW r \in Users, NEW a \in Wide, a # Zero, Pay(u, r, a)
    PROVE  /\ OutboxType'
           /\ Val(a) <= MaxWide - Val(amount_sent[u][r])
           /\ Narrow!WriteOutbox(u, Narrow!Credit(Flat(amount_sent[u]), r, Val(a)))
<1> DEFINE box == Credit(amount_sent[u], r, a)
<1>1. amount_sent[u] \in [Users -> Loose] /\ amount_sent[u][r] \in Wide
  BY WideIsLoose DEF OutboxType
<1>2. /\ box \in [Users -> Loose]
      /\ Flat(box) = Narrow!Credit(Flat(amount_sent[u]), r, Val(a))
  BY <1>1, CreditMaps
<1>3. Val(box[r]) = Val(amount_sent[u][r]) + Val(a)
  BY <1>1, WideIsLoose, PlusIsSum DEF Credit
<1>4. WriteOutbox(u, box)
  BY DEF Pay
<1> HIDE DEF box
<1>5. /\ OutboxType' /\ Val(box[r]) <= MaxWide
      /\ Flat2(amount_sent)' = [Flat2(amount_sent) EXCEPT ![u] = Flat(box)]
      /\ FlatVals2(past_sent)' =
            [FlatVals2(past_sent) EXCEPT ![u] = [v \in Users |-> @[v] \cup {Flat(box)[v]}]]
  BY <1>2, <1>4, WriteOutboxMaps
<1>6. Narrow!WriteOutbox(u, Flat(box))
  BY <1>5 DEF Narrow!WriteOutbox, Flat2, FlatVals2
<1>7. Val(a) <= MaxWide - Val(amount_sent[u][r])
  BY <1>1, <1>3, <1>5, AmountFacts DEF MaxWide
<1> QED BY <1>2, <1>5, <1>6, <1>7

SlotType ==
    /\ delegations \in [Users -> [Channels -> DelegationChannel]]
    /\ delegation_spends \in [Users -> [Users -> [Channels -> DelegationSpend]]]
    /\ past_delegations \in [Users -> [Channels -> SUBSET DelegationChannel]]
    /\ past_spends \in [Users -> [Users -> [Channels -> SUBSET DelegationSpend]]]

NarrowChannels(S) == {NarrowChannel(ch) : ch \in S}
NarrowSpends(S) == {NarrowSpend(ledger) : ledger \in S}

LEMMA WriteChannelMaps ==
    ASSUME SlotType, NEW o \in Users, NEW c \in Channels, NEW ch \in DelegationChannel,
           WriteChannel(o, c, ch)
    PROVE  SlotType' /\ Narrow!WriteChannel(o, c, NarrowChannel(ch))
<1>1. /\ delegations' = [delegations EXCEPT ![o][c] = ch]
      /\ past_delegations' = [past_delegations EXCEPT ![o][c] = past_delegations[o][c] \cup {ch}]
      /\ delegation_spends' = delegation_spends /\ past_spends' = past_spends
  BY DEF WriteChannel
<1>2. past_delegations[o][c] \cup {ch} \in SUBSET DelegationChannel
  BY DEF SlotType
<1>3. SlotType'
  BY <1>1, <1>2 DEF SlotType
<1> DEFINE now(f) == [x \in Users |-> [y \in Channels |-> NarrowChannel(f[x][y])]]
           past(f) == [x \in Users |-> [y \in Channels |-> NarrowChannels(f[x][y])]]
<1>4. now(delegations') = [now(delegations) EXCEPT ![o][c] = NarrowChannel(ch)]
  <2>1. \A x \in Users, y \in Channels :
            delegations'[x][y] = IF x = o /\ y = c THEN ch ELSE delegations[x][y]
    BY <1>1 DEF SlotType
  <2>2. \A x \in Users, y \in Channels : NarrowChannel(delegations'[x][y]) =
            IF x = o /\ y = c THEN NarrowChannel(ch) ELSE NarrowChannel(delegations[x][y])
    BY <2>1
  <2> QED BY <2>2
<1>5. past(past_delegations') =
        [past(past_delegations) EXCEPT ![o][c] = @ \cup {NarrowChannel(ch)}]
  <2>1. \A x \in Users, y \in Channels : past_delegations'[x][y] =
            IF x = o /\ y = c THEN past_delegations[o][c] \cup {ch} ELSE past_delegations[x][y]
    BY <1>1 DEF SlotType
  <2>2. NarrowChannels(past_delegations[o][c] \cup {ch}) =
            NarrowChannels(past_delegations[o][c]) \cup {NarrowChannel(ch)}
    BY DEF NarrowChannels
  <2>3. \A x \in Users, y \in Channels : NarrowChannels(past_delegations'[x][y]) =
            IF x = o /\ y = c THEN NarrowChannels(past_delegations[o][c]) \cup {NarrowChannel(ch)}
                               ELSE NarrowChannels(past_delegations[x][y])
    BY <2>1, <2>2
  <2> QED BY <2>3
<1>6. Narrow!WriteChannel(o, c, NarrowChannel(ch))
  BY <1>1, <1>4, <1>5 DEF Narrow!WriteChannel, NarrowChannels
<1> QED BY <1>3, <1>6

(* A function of three arguments changed at one point.                     *)
LEMMA ChangedAt ==
    ASSUME NEW D, NEW g \in [Users -> [Users -> [Channels -> D]]],
           NEW h \in [Users -> [Users -> [Channels -> D]]],
           NEW s \in Users, NEW o \in Users, NEW c \in Channels, NEW v,
           h[s][o][c] = v,
           \A x, y \in Users, z \in Channels :
                ~ (x = s /\ y = o /\ z = c) => h[x][y][z] = g[x][y][z]
    PROVE  h = [g EXCEPT ![s][o][c] = v]
<1>1. h[s][o] = [g[s][o] EXCEPT ![c] = v]
  <2>1. h[s][o] \in [Channels -> D] /\ g[s][o] \in [Channels -> D]
    OBVIOUS
  <2>2. \A z \in Channels : z # c => h[s][o][z] = g[s][o][z]
    OBVIOUS
  <2> DEFINE hh == h[s][o]
             gg == g[s][o]
  <2>3. hh \in [Channels -> D] /\ gg \in [Channels -> D] /\ hh[c] = v
    BY <2>1
  <2>4. \A z \in Channels : z # c => hh[z] = gg[z]
    BY <2>2
  <2> HIDE DEF hh, gg
  <2>5. hh = [gg EXCEPT ![c] = v]
    BY <2>3, <2>4
  <2> QED BY <2>5 DEF hh, gg
<1>2. h[s] = [g[s] EXCEPT ![o] = h[s][o]]
  <2>1. h[s] \in [Users -> [Channels -> D]] /\ g[s] \in [Users -> [Channels -> D]]
    OBVIOUS
  <2>2. ASSUME NEW y \in Users, y # o PROVE h[s][y] = g[s][y]
    <3>1. h[s][y] \in [Channels -> D] /\ g[s][y] \in [Channels -> D]
      BY <2>1
    <3> QED BY <2>2, <3>1
  <2> QED BY <2>1, <2>2
<1>3. h = [g EXCEPT ![s] = h[s]]
  <2>1. ASSUME NEW x \in Users, x # s PROVE h[x] = g[x]
    <3>1. h[x] \in [Users -> [Channels -> D]] /\ g[x] \in [Users -> [Channels -> D]]
      OBVIOUS
    <3>2. ASSUME NEW y \in Users PROVE h[x][y] = g[x][y]
      <4>1. h[x][y] \in [Channels -> D] /\ g[x][y] \in [Channels -> D]
        BY <3>1
      <4> QED BY <2>1, <4>1
    <3> QED BY <3>1, <3>2
  <2> QED BY <2>1
<1> QED BY <1>1, <1>2, <1>3

LEMMA WriteLedgerMaps ==
    ASSUME SlotType, NEW s \in Users, NEW o \in Users, NEW c \in Channels,
           NEW l \in DelegationSpend, WriteLedger(s, o, c, l)
    PROVE  SlotType' /\ Narrow!WriteLedger(s, o, c, NarrowSpend(l))
<1>1. /\ delegation_spends' = [delegation_spends EXCEPT ![s][o][c] = l]
      /\ past_spends' = [past_spends EXCEPT ![s][o][c] = past_spends[s][o][c] \cup {l}]
      /\ delegations' = delegations /\ past_delegations' = past_delegations
  BY DEF WriteLedger
<1>2. past_spends[s][o][c] \cup {l} \in SUBSET DelegationSpend
  BY DEF SlotType
<1>3. SlotType'
  BY <1>1, <1>2 DEF SlotType
<1> DEFINE now(f) == [x \in Users |-> [y \in Users |-> [z \in Channels |-> NarrowSpend(f[x][y][z])]]]
           past(f) == [x \in Users |-> [y \in Users |-> [z \in Channels |-> NarrowSpends(f[x][y][z])]]]
           here(x, y, z) == x = s /\ y = o /\ z = c
<1>4. now(delegation_spends') = [now(delegation_spends) EXCEPT ![s][o][c] = NarrowSpend(l)]
  <2> DEFINE D == NarrowSpends(DelegationSpend)
             g == now(delegation_spends)
             h == now(delegation_spends')
  <2>1. \A x, y \in Users, z \in Channels :
            /\ delegation_spends'[x][y][z] \in DelegationSpend
            /\ delegation_spends[x][y][z] \in DelegationSpend
            /\ ~ here(x, y, z) => delegation_spends'[x][y][z] = delegation_spends[x][y][z]
    BY <1>1 DEF SlotType
  <2>2. \A a \in DelegationSpend : NarrowSpend(a) \in D
    BY DEF NarrowSpends
  <2>3. /\ g \in [Users -> [Users -> [Channels -> D]]]
        /\ h \in [Users -> [Users -> [Channels -> D]]]
    <3> HIDE DEF D
    <3> QED BY <2>1, <2>2
  <2>4. delegation_spends'[s][o][c] = l
    BY <1>1 DEF SlotType
  <2>5. h[s][o][c] = NarrowSpend(l)
    BY <2>4
  <2>6. \A x, y \in Users, z \in Channels : ~ here(x, y, z) => h[x][y][z] = g[x][y][z]
    BY <2>1
  <2> HIDE DEF D, g, h
  <2>7. h = [g EXCEPT ![s][o][c] = NarrowSpend(l)]
    BY <2>3, <2>5, <2>6, ChangedAt
  <2> QED BY <2>7 DEF g, h
<1>5. past(past_spends') = [past(past_spends) EXCEPT ![s][o][c] = @ \cup {NarrowSpend(l)}]
  <2> DEFINE D == SUBSET NarrowSpends(DelegationSpend)
             g == past(past_spends)
             h == past(past_spends')
  <2>1. \A x, y \in Users, z \in Channels :
            /\ past_spends'[x][y][z] \in SUBSET DelegationSpend
            /\ past_spends[x][y][z] \in SUBSET DelegationSpend
            /\ ~ here(x, y, z) => past_spends'[x][y][z] = past_spends[x][y][z]
    BY <1>1, <1>2 DEF SlotType
  <2>2. \A S \in SUBSET DelegationSpend : NarrowSpends(S) \in D
    BY DEF NarrowSpends
  <2>3. /\ g \in [Users -> [Users -> [Channels -> D]]]
        /\ h \in [Users -> [Users -> [Channels -> D]]]
    <3> HIDE DEF D
    <3> QED BY <2>1, <2>2
  <2>4. past_spends'[s][o][c] = past_spends[s][o][c] \cup {l}
    BY <1>1 DEF SlotType
  <2>5. NarrowSpends(past_spends[s][o][c] \cup {l}) =
            NarrowSpends(past_spends[s][o][c]) \cup {NarrowSpend(l)}
    BY DEF NarrowSpends
  <2>6. h[s][o][c] = g[s][o][c] \cup {NarrowSpend(l)}
    BY <2>4, <2>5
  <2>7. \A x, y \in Users, z \in Channels : ~ here(x, y, z) => h[x][y][z] = g[x][y][z]
    BY <2>1
  <2> HIDE DEF D, g, h
  <2>8. h = [g EXCEPT ![s][o][c] = g[s][o][c] \cup {NarrowSpend(l)}]
    BY <2>3, <2>6, <2>7, ChangedAt
  <2> QED BY <2>8 DEF g, h
<1>6. Narrow!WriteLedger(s, o, c, NarrowSpend(l))
  BY <1>1, <1>4, <1>5 DEF Narrow!WriteLedger, NarrowSpends
<1> QED BY <1>3, <1>6

-----------------------------------------------------------------------------
(* What a call leaves alone stays the same when read as numbers.           *)
LEMMA AdminSame == UNCHANGED adminVars => UNCHANGED Narrow!adminVars
    BY DEF adminVars, Narrow!adminVars
LEMMA SupplySame == UNCHANGED supplyVars => UNCHANGED Narrow!supplyVars
    BY DEF supplyVars, Narrow!supplyVars
LEMMA BurnSame == UNCHANGED burnVars => UNCHANGED Narrow!burnVars
    BY DEF burnVars, Narrow!burnVars
LEMMA PaySame == UNCHANGED payVars => UNCHANGED Narrow!payVars
    BY DEF payVars, Narrow!payVars
LEMMA DelegSame == UNCHANGED delegVars => UNCHANGED Narrow!delegVars
    BY DEF delegVars, Narrow!delegVars
LEMMA BalanceSame == UNCHANGED balance => UNCHANGED Flat(balance)
    BY DEF Flat

LEMMA AllSame == UNCHANGED vars => UNCHANGED Narrow!vars
    BY AdminSame, SupplySame, BurnSame, PaySame, DelegSame
       DEF vars, Narrow!vars

LEMMA TypeParts == WideType => OutboxType /\ SlotType
    BY DEF WideType, OutboxType, SlotType

-----------------------------------------------------------------------------
(* One lemma per call: the state keeps its type and the call on numbers    *)
(* takes the same step.                                                    *)

LEMMA SetMetadataMaps ==
    ASSUME WideType, NEW u \in Users, NEW s \in Symbols, NEW d \in Decimals, SetMetadata(u, s, d)
    PROVE  WideType' /\ Narrow!SetMetadata(u, s, d)
<1>1. d \in 0..MaxDecimals
  BY AmountsAssumption DEF SetMetadata, MaxDecimals
<1>2. metadata' \in Metadata
  BY <1>1 DEF SetMetadata, WideType, Metadata
<1>3. WideType'
  BY <1>2 DEF SetMetadata, WideType, supplyVars, burnVars, payVars, delegVars
<1>4. Narrow!SetMetadata(u, s, d)
  BY SupplySame, BurnSame, PaySame, DelegSame
     DEF SetMetadata, Narrow!SetMetadata, Narrow!MaxDecimals, MaxDecimals
<1> QED BY <1>3, <1>4

LEMMA SetExtendedMetadataMaps ==
    ASSUME WideType, NEW u \in Users, NEW s \in Symbols, SetExtendedMetadata(u, s)
    PROVE  WideType' /\ Narrow!SetExtendedMetadata(u, s)
<1>1. metadata' \in Metadata
  BY DEF SetExtendedMetadata, WideType, Metadata
<1>2. WideType'
  BY <1>1 DEF SetExtendedMetadata, WideType, supplyVars, burnVars, payVars, delegVars
<1>3. Narrow!SetExtendedMetadata(u, s)
  BY SupplySame, BurnSame, PaySame, DelegSame DEF SetExtendedMetadata, Narrow!SetExtendedMetadata
<1> QED BY <1>2, <1>3

LEMMA SetMaxSupplyMaps ==
    ASSUME WideType, NEW u \in Users, NEW cap \in Amounts, SetMaxSupply(u, cap)
    PROVE  WideType' /\ Narrow!SetMaxSupply(u, Val(cap))
<1>1. cap \in Wide /\ Val(cap) > 0
  BY AmountsAssumption, AmountFacts DEF SetMaxSupply
<1>2. Val(total_minted) = 0 /\ Val(max_supply) = 0
  BY ZeroFacts DEF SetMaxSupply
<1>3. WideType'
  BY <1>1 DEF SetMaxSupply, WideType, supplyVars, burnVars, payVars, delegVars
<1>4. Narrow!SetMaxSupply(u, Val(cap))
  BY <1>1, <1>2, SupplySame, BurnSame, PaySame, DelegSame DEF SetMaxSupply, Narrow!SetMaxSupply
<1> QED BY <1>3, <1>4

LEMMA SetMintAuthorityMaps ==
    ASSUME WideType, NEW u \in Users, NEW v \in Users, SetMintAuthority(u, v)
    PROVE  WideType' /\ Narrow!SetMintAuthority(u, v)
<1>1. WideType'
  BY DEF SetMintAuthority, WideType, supplyVars, burnVars, payVars, delegVars
<1>2. Narrow!SetMintAuthority(u, v)
  BY SupplySame, BurnSame, PaySame, DelegSame DEF SetMintAuthority, Narrow!SetMintAuthority
<1> QED BY <1>1, <1>2

LEMMA RenounceMaps ==
    ASSUME WideType, NEW u \in Users, RenounceMintAuthority(u)
    PROVE  WideType' /\ Narrow!RenounceMintAuthority(u)
<1>1. WideType'
  BY DEF RenounceMintAuthority, WideType, supplyVars, burnVars, payVars, delegVars
<1>2. Narrow!RenounceMintAuthority(u)
  BY SupplySame, BurnSame, PaySame, DelegSame DEF RenounceMintAuthority, Narrow!RenounceMintAuthority
<1> QED BY <1>1, <1>2

LEMMA IssueMaps ==
    ASSUME WideType, NEW u \in Users, NEW a \in Wide, Issue(u, a)
    PROVE  /\ total_minted' \in Wide /\ total_supply' \in Wide
           /\ Narrow!CanIssue(u, Val(a)) /\ Narrow!Issue(Val(a))
<1>1. /\ total_minted \in Wide /\ total_supply \in Wide /\ max_supply \in Wide
      /\ total_minted' = Plus(total_minted, a) /\ total_supply' = Plus(total_supply, a)
      /\ total_minted' \in Wide /\ total_supply' \in Wide
  BY DEF WideType, Issue
<1>2. /\ Val(total_minted') = Val(total_minted) + Val(a)
      /\ Val(total_supply') = Val(total_supply) + Val(a)
  BY <1>1, AmountFacts, PlusIsSum
<1> DEFINE m == Val(total_minted)
           t == Val(total_supply)
           x == Val(max_supply)
           y == Val(a)
<1>3. /\ m \in Nat /\ t \in Nat /\ x \in Nat /\ y \in Nat /\ MaxWide \in Int
      /\ m + y <= MaxWide /\ t + y <= MaxWide
  BY <1>1, <1>2, AmountFacts DEF MaxWide
<1>4. y > 0
  BY AmountFacts DEF Issue
<1>5. x = 0 \/ m + y <= x
  <2>1. CASE max_supply = Zero
    BY <2>1, ZeroFacts
  <2>2. CASE Leq(total_minted', max_supply)
    BY <2>2, <1>1, <1>2, WideIsLoose, CompareLoose
  <2> QED BY <1>1, <2>1, <2>2 DEF Issue
<1>6. u = Issuer /\ is_mint_renounced = 0 /\ mint_authority = u
  BY DEF Issue
<1>7. m' = m + y /\ t' = t + y
  BY <1>2
<1> HIDE DEF m, t, x, y
<1>8. y <= MaxWide - m /\ y <= MaxWide - t /\ (x = 0 \/ (m <= x /\ y <= x - m))
  BY <1>3, <1>5
<1>9. Narrow!UnderCap(y)
  BY <1>8 DEF Narrow!UnderCap, Narrow!FSub, m, x
<1>10. Narrow!CanIssue(u, y)
  BY <1>4, <1>6, <1>8, <1>9 DEF Narrow!CanIssue, m, t
<1>11. Narrow!Issue(y)
  BY <1>7 DEF Narrow!Issue, m, t
<1> QED BY <1>1, <1>10, <1>11 DEF y

LEMMA MintMaps ==
    ASSUME WideType, NEW u \in Users, NEW a \in Amounts, Mint(u, a)
    PROVE  WideType' /\ Narrow!Mint(u, Val(a))
<1>1. a \in Wide /\ balance \in [Users -> Wide]
  BY AmountsAssumption DEF WideType
<1>2. /\ total_minted' \in Wide /\ total_supply' \in Wide
      /\ Narrow!CanIssue(u, Val(a)) /\ Narrow!Issue(Val(a))
  BY <1>1, IssueMaps DEF Mint
<1>3. /\ balance' \in [Users -> Wide] /\ Val(a) <= MaxWide - Val(balance[u])
      /\ Flat(balance)' = [Flat(balance) EXCEPT ![u] = @ + Val(a)]
  BY <1>1, DepositMaps DEF Mint
<1>4. WideType'
  BY <1>2, <1>3 DEF Mint, WideType, adminVars, burnVars, payVars, delegVars
<1>5. Narrow!Mint(u, Val(a))
  BY <1>2, <1>3, AdminSame, BurnSame, PaySame, DelegSame DEF Mint, Narrow!Mint, Flat
<1> QED BY <1>4, <1>5

LEMMA MintToMaps ==
    ASSUME WideType, NEW u \in Users, NEW r \in Users, NEW a \in Amounts, MintTo(u, r, a)
    PROVE  WideType' /\ Narrow!MintTo(u, r, Val(a))
<1>1. a \in Wide /\ a # Zero /\ OutboxType
  BY AmountsAssumption, TypeParts DEF MintTo, Issue
<1>2. /\ total_minted' \in Wide /\ total_supply' \in Wide
      /\ Narrow!CanIssue(u, Val(a)) /\ Narrow!Issue(Val(a))
  BY <1>1, IssueMaps DEF MintTo
<1>3. /\ OutboxType' /\ Val(a) <= MaxWide - Val(amount_sent[u][r])
      /\ Narrow!WriteOutbox(u, Narrow!Credit(Flat(amount_sent[u]), r, Val(a)))
  BY <1>1, PayMaps DEF MintTo
<1>4. WideType'
  BY <1>2, <1>3 DEF MintTo, WideType, OutboxType, adminVars, burnVars, delegVars
<1>5. Narrow!MintTo(u, r, Val(a))
  BY <1>2, <1>3, AdminSame, BurnSame, DelegSame DEF MintTo, Narrow!MintTo, Flat
<1> QED BY <1>4, <1>5
LEMMA BurnMaps ==
    ASSUME WideType, NEW u \in Users, NEW a \in Amounts, Burn(u, a)
    PROVE  WideType' /\ Narrow!Burn(u, Val(a))
<1> DEFINE next == Plus(burn_requested[u], a)
<1>1. /\ a \in Wide /\ Val(a) > 0 /\ Val(a) \in Nat /\ balance \in [Users -> Wide]
      /\ burn_requested[u] \in Wide /\ next \in Wide
  BY AmountsAssumption, AmountFacts DEF WideType, Burn
<1>2. /\ balance' \in [Users -> Wide] /\ Val(a) <= Val(balance[u])
      /\ Flat(balance)' = [Flat(balance) EXCEPT ![u] = @ - Val(a)]
  BY <1>1, DebitMaps DEF Burn
<1>3. Val(next) = Val(burn_requested[u]) + Val(a) /\ Val(next) <= MaxWide
  BY <1>1, AmountFacts, PlusIsSum
<1>4. Val(a) <= MaxWide - Val(burn_requested[u])
  BY <1>1, <1>3, AmountFacts DEF MaxWide
<1>5. /\ burn_requested' = [burn_requested EXCEPT ![u] = next]
      /\ past_burn' = [past_burn EXCEPT ![u] = past_burn[u] \cup {next}]
  BY DEF Burn
<1> HIDE DEF next
<1>6. past_burn[u] \cup {next} \in SUBSET Wide
  BY <1>1 DEF WideType
<1>13. burn_requested' \in [Users -> Wide] /\ past_burn' \in [Users -> SUBSET Wide]
  BY <1>1, <1>5, <1>6 DEF WideType
<1>7. WideType'
  BY <1>2, <1>13 DEF Burn, WideType, adminVars, supplyVars, payVars, delegVars
<1>8. Flat(burn_requested)' = [Flat(burn_requested) EXCEPT ![u] = Val(burn_requested[u]) + Val(a)]
  BY <1>3, <1>5 DEF Flat, WideType
<1>9. FlatVals(past_burn)' = [FlatVals(past_burn) EXCEPT ![u] = @ \cup {Val(next)}]
  <2>1. ASSUME NEW w \in Users
        PROVE  Vals(past_burn'[w]) =
                IF w = u THEN Vals(past_burn[u]) \cup {Val(next)} ELSE Vals(past_burn[w])
    <3>1. past_burn'[w] = IF w = u THEN past_burn[u] \cup {next} ELSE past_burn[w]
      BY <1>5 DEF WideType
    <3>2. CASE w = u
      BY <3>1, <3>2, ValsGrow
    <3>3. CASE w # u
      BY <3>1, <3>3
    <3> QED BY <3>2, <3>3
  <2> QED BY <2>1 DEF FlatVals
<1>10. Narrow!WriteBurnRequest(u, Val(burn_requested[u]) + Val(a))
  BY <1>3, <1>8, <1>9 DEF Narrow!WriteBurnRequest, Flat, FlatVals
<1>11. UNCHANGED Flat(burn_settled)
  BY DEF Burn, Flat
<1>12. Narrow!Burn(u, Val(a))
  BY <1>1, <1>2, <1>4, <1>10, <1>11, AdminSame, SupplySame, PaySame, DelegSame
     DEF Burn, Narrow!Burn, Flat
<1> QED BY <1>7, <1>12

LEMMA SettleBurnMaps ==
    ASSUME WideType, NEW u \in Users, NEW sender \in Users, SettleBurn(u, sender)
    PROVE  WideType' /\ Narrow!SettleBurn(u, sender)
<1> PICK requested \in past_burn[sender] :
        LET amount == Minus(requested, burn_settled[sender]) IN
        /\ Less(burn_settled[sender], requested)
        /\ Leq(amount, total_supply)
        /\ burn_settled' = [burn_settled EXCEPT ![sender] = requested]
        /\ total_supply' = Minus(total_supply, amount)
  BY DEF SettleBurn, CanSettle
<1> DEFINE amount == Minus(requested, burn_settled[sender])
<1>1. requested \in Wide /\ burn_settled[sender] \in Wide /\ total_supply \in Wide
  BY DEF WideType
<1>2. Val(requested) > Val(burn_settled[sender])
  BY <1>1, WideIsLoose, CompareLoose
<1>3. amount \in Wide /\ Val(amount) = Val(requested) - Val(burn_settled[sender])
  BY <1>1, MinusIsDifference DEF Leq
<1>4. Leq(amount, total_supply) /\ total_supply' = Minus(total_supply, amount)
  OBVIOUS
<1> HIDE DEF amount
<1>5. Val(amount) <= Val(total_supply)
  BY <1>1, <1>3, <1>4, WideIsLoose, CompareLoose
<1>6. total_supply' \in Wide /\ Val(total_supply') = Val(total_supply) - Val(amount)
  BY <1>1, <1>3, <1>4, MinusIsDifference
<1>7. burn_settled' \in [Users -> Wide]
  BY <1>1 DEF WideType
<1>8. WideType'
  BY <1>6, <1>7 DEF SettleBurn, WideType, adminVars, payVars, delegVars
<1>9. Flat(burn_settled)' = [Flat(burn_settled) EXCEPT ![sender] = Val(requested)]
  BY DEF Flat, WideType
<1>10. Val(requested) \in FlatVals(past_burn)[sender]
  BY DEF FlatVals, Vals
<1>11. /\ UNCHANGED Flat(burn_requested) /\ UNCHANGED FlatVals(past_burn)
       /\ UNCHANGED Flat(balance) /\ UNCHANGED Val(total_minted)
  BY DEF SettleBurn, Flat, FlatVals
<1>12. Val(total_supply)' = Val(total_supply) - (Val(requested) - Val(burn_settled[sender]))
  BY <1>3, <1>6
<1>13. Narrow!SettleBurn(u, sender)
  BY <1>2, <1>3, <1>5, <1>9, <1>10, <1>11, <1>12, AdminSame, PaySame, DelegSame
     DEF SettleBurn, CanSettle, Narrow!SettleBurn, Narrow!CanSettle, Flat, FlatVals
<1> QED BY <1>8, <1>13

LEMMA TransferMaps ==
    ASSUME WideType, NEW u \in Users, NEW r \in Users, NEW a \in Amounts, Transfer(u, r, a)
    PROVE  WideType' /\ Narrow!Transfer(u, r, Val(a))
<1>1. a \in Wide /\ a # Zero /\ Val(a) > 0 /\ balance \in [Users -> Wide] /\ OutboxType
  BY AmountsAssumption, AmountFacts, TypeParts DEF WideType, Transfer, CanTransfer
<1>2. /\ balance' \in [Users -> Wide] /\ Val(a) <= Val(balance[u])
      /\ Flat(balance)' = [Flat(balance) EXCEPT ![u] = @ - Val(a)]
  BY <1>1, DebitMaps DEF Transfer
<1>3. /\ OutboxType' /\ Val(a) <= MaxWide - Val(amount_sent[u][r])
      /\ Narrow!WriteOutbox(u, Narrow!Credit(Flat(amount_sent[u]), r, Val(a)))
  BY <1>1, PayMaps DEF Transfer
<1>4. WideType'
  BY <1>2, <1>3 DEF Transfer, WideType, OutboxType, adminVars, supplyVars, burnVars, delegVars
<1>5. UNCHANGED Flat2(amount_claimed)
  BY DEF Transfer, Flat2
<1>6. Narrow!Transfer(u, r, Val(a))
  BY <1>1, <1>2, <1>3, <1>5, AmountFacts, AdminSame, SupplySame, BurnSame, DelegSame
     DEF Transfer, CanTransfer, Narrow!Transfer, Flat, Flat2
<1> QED BY <1>4, <1>6

(* What a claim or a cancellation takes from the sender's counter.         *)
Fresh(u, sender, t) == Minus(t, amount_claimed[u][sender])
News(u, sender, t) ==
    /\ t \in past_sent[sender][u]
    /\ Less(amount_claimed[u][sender], t)
    /\ amount_claimed' = [amount_claimed EXCEPT ![u][sender] = t]

NewsOnNumbers(u, sender, t) ==
    /\ t \in Wide /\ Fresh(u, sender, t) \in Wide /\ Fresh(u, sender, t) # Zero
    /\ Val(Fresh(u, sender, t)) = Val(t) - Val(amount_claimed[u][sender])
    /\ Val(t) > Val(amount_claimed[u][sender])
    /\ Val(t) \in FlatVals2(past_sent)[sender][u]
    /\ amount_claimed' \in [Users -> [Users -> Wide]]
    /\ Flat2(amount_claimed)' = [Flat2(amount_claimed) EXCEPT ![u][sender] = Val(t)]

LEMMA NewsMaps ==
    ASSUME WideType, NEW u \in Users, NEW sender \in Users, NEW t, News(u, sender, t)
    PROVE  NewsOnNumbers(u, sender, t)
<1>1. t \in Wide /\ amount_claimed[u][sender] \in Wide
  BY DEF WideType, News
<1>2. Val(t) > Val(amount_claimed[u][sender])
  BY <1>1, WideIsLoose, CompareLoose DEF News
<1>3. Fresh(u, sender, t) \in Wide /\ Val(Fresh(u, sender, t)) = Val(t) - Val(amount_claimed[u][sender])
  BY <1>1, MinusIsDifference DEF Leq, News, Fresh
<1>4. Fresh(u, sender, t) # Zero
  BY <1>1, <1>2, <1>3, AmountFacts, ZeroFacts
<1>5. Val(t) \in FlatVals2(past_sent)[sender][u]
  BY DEF FlatVals2, Vals, News
<1>6. amount_claimed' \in [Users -> [Users -> Wide]]
  BY <1>1 DEF WideType, News
<1>7. Flat2(amount_claimed)' = [Flat2(amount_claimed) EXCEPT ![u][sender] = Val(t)]
  BY DEF Flat2, WideType, News
<1> QED BY <1>1, <1>2, <1>3, <1>4, <1>5, <1>6, <1>7 DEF NewsOnNumbers

LEMMA ClaimMaps ==
    ASSUME WideType, NEW u \in Users, NEW sender \in Users, Claim(u, sender)
    PROVE  WideType' /\ Narrow!Claim(u, sender)
<1> PICK t \in past_sent[sender][u] :
        /\ Less(amount_claimed[u][sender], t)
        /\ Deposit(u, Minus(t, amount_claimed[u][sender]))
        /\ amount_claimed' = [amount_claimed EXCEPT ![u][sender] = t]
  BY DEF Claim, CanClaim
<1> DEFINE n == Fresh(u, sender, t)
<1>8. News(u, sender, t)
  BY DEF News
<1>9. NewsOnNumbers(u, sender, t)
  BY <1>8, NewsMaps
<1>2. Deposit(u, n) /\ balance \in [Users -> Wide]
  BY DEF WideType, Fresh
<1>1. /\ t \in Wide /\ n \in Wide
      /\ Val(n) = Val(t) - Val(amount_claimed[u][sender])
      /\ Val(t) > Val(amount_claimed[u][sender])
      /\ Val(t) \in FlatVals2(past_sent)[sender][u]
      /\ amount_claimed' \in [Users -> [Users -> Wide]]
      /\ Flat2(amount_claimed)' = [Flat2(amount_claimed) EXCEPT ![u][sender] = Val(t)]
  BY <1>9 DEF NewsOnNumbers
<1> HIDE DEF n
<1>3. /\ balance' \in [Users -> Wide] /\ Val(n) <= MaxWide - Val(balance[u])
      /\ Flat(balance)' = [Flat(balance) EXCEPT ![u] = @ + Val(n)]
  BY <1>1, <1>2, DepositMaps
<1>4. WideType'
  BY <1>1, <1>3 DEF Claim, WideType, adminVars, supplyVars, burnVars, delegVars
<1>5. UNCHANGED Flat2(amount_sent) /\ UNCHANGED FlatVals2(past_sent)
  BY DEF Claim, Flat2, FlatVals2
<1>7. /\ Narrow!IsNews(Val(t), Flat2(amount_claimed)[u][sender])
      /\ Val(t) - Flat2(amount_claimed)[u][sender] <= MaxWide - Flat(balance)[u]
      /\ Flat2(amount_claimed)' = [Flat2(amount_claimed) EXCEPT ![u][sender] = Val(t)]
      /\ Flat(balance)' = [Flat(balance) EXCEPT ![u] = @ + (Val(t) - Flat2(amount_claimed)[u][sender])]
  BY <1>1, <1>3 DEF Narrow!IsNews, Flat, Flat2
<1>6. Narrow!Claim(u, sender)
  BY <1>1, <1>7, <1>5, AdminSame, SupplySame, BurnSame, DelegSame
     DEF Claim, CanClaim, Narrow!Claim, Narrow!CanClaim, Narrow!ClaimedNow, Flat, Flat2, FlatVals2
<1> QED BY <1>4, <1>6

LEMMA CancelMaps ==
    ASSUME WideType, NEW u \in Users, NEW sender \in Users, CancelUnclaimedPayment(u, sender)
    PROVE  WideType' /\ Narrow!CancelUnclaimedPayment(u, sender)
<1> PICK t \in past_sent[sender][u] :
        /\ Less(amount_claimed[u][sender], t)
        /\ Pay(u, sender, Minus(t, amount_claimed[u][sender]))
        /\ amount_claimed' = [amount_claimed EXCEPT ![u][sender] = t]
  BY DEF CancelUnclaimedPayment
<1> DEFINE n == Fresh(u, sender, t)
<1>8. News(u, sender, t)
  BY DEF News
<1>9. NewsOnNumbers(u, sender, t)
  BY <1>8, NewsMaps
<1>2. Pay(u, sender, n) /\ OutboxType
  BY TypeParts DEF Fresh
<1>1. /\ t \in Wide /\ n \in Wide /\ n # Zero
      /\ Val(n) = Val(t) - Val(amount_claimed[u][sender])
      /\ Val(t) > Val(amount_claimed[u][sender])
      /\ Val(t) \in FlatVals2(past_sent)[sender][u]
      /\ amount_claimed' \in [Users -> [Users -> Wide]]
      /\ Flat2(amount_claimed)' = [Flat2(amount_claimed) EXCEPT ![u][sender] = Val(t)]
  BY <1>9 DEF NewsOnNumbers
<1> HIDE DEF n
<1>3. /\ OutboxType' /\ Val(n) <= MaxWide - Val(amount_sent[u][sender])
      /\ Narrow!WriteOutbox(u, Narrow!Credit(Flat(amount_sent[u]), sender, Val(n)))
  BY <1>1, <1>2, PayMaps
<1>4. WideType'
  BY <1>1, <1>3 DEF CancelUnclaimedPayment, WideType, OutboxType, adminVars, supplyVars, burnVars, delegVars
<1>5. UNCHANGED Flat(balance)
  BY DEF CancelUnclaimedPayment, Flat
<1>6. Narrow!CancelUnclaimedPayment(u, sender)
  BY <1>1, <1>3, <1>5, AdminSame, SupplySame, BurnSame, DelegSame
     DEF CancelUnclaimedPayment, Narrow!CancelUnclaimedPayment, Flat, Flat2, FlatVals2
<1> QED BY <1>4, <1>6

LEMMA RefundMaps ==
    ASSUME WideType, NEW u \in Users, NEW sender \in Users, NEW a \in Amounts,
           RefundClaimedPayment(u, sender, a)
    PROVE  WideType' /\ Narrow!RefundClaimedPayment(u, sender, Val(a))
<1> DEFINE credit == Minus(amount_claimed[u][sender], amount_sent[u][sender])
<1>1. /\ a \in Wide /\ a # Zero /\ Val(a) > 0 /\ balance \in [Users -> Wide] /\ OutboxType
      /\ amount_claimed[u][sender] \in Wide /\ amount_sent[u][sender] \in Wide
  BY AmountsAssumption, AmountFacts, TypeParts DEF WideType, RefundClaimedPayment
<1>2. Leq(amount_sent[u][sender], amount_claimed[u][sender]) /\ Leq(a, credit)
  BY DEF RefundClaimedPayment
<1>3. /\ credit \in Wide
      /\ Val(credit) = Val(amount_claimed[u][sender]) - Val(amount_sent[u][sender])
  BY <1>1, <1>2, MinusIsDifference
<1> HIDE DEF credit
<1>4. /\ Val(amount_claimed[u][sender]) >= Val(amount_sent[u][sender])
      /\ Val(a) <= Val(amount_claimed[u][sender]) - Val(amount_sent[u][sender])
  BY <1>1, <1>2, <1>3, AmountFacts, CompareLoose
<1>5. /\ balance' \in [Users -> Wide] /\ Val(a) <= Val(balance[u])
      /\ Flat(balance)' = [Flat(balance) EXCEPT ![u] = @ - Val(a)]
  BY <1>1, DebitMaps DEF RefundClaimedPayment
<1>6. /\ OutboxType'
      /\ Narrow!WriteOutbox(u, Narrow!Credit(Flat(amount_sent[u]), sender, Val(a)))
  BY <1>1, PayMaps DEF RefundClaimedPayment
<1>7. WideType'
  BY <1>5, <1>6 DEF RefundClaimedPayment, WideType, OutboxType, adminVars, supplyVars, burnVars, delegVars
<1>8. UNCHANGED Flat2(amount_claimed)
  BY DEF RefundClaimedPayment, Flat2
<1>9. Narrow!RefundClaimedPayment(u, sender, Val(a))
  BY <1>1, <1>4, <1>5, <1>6, <1>8, AmountFacts, AdminSame, SupplySame, BurnSame, DelegSame
     DEF RefundClaimedPayment, Narrow!RefundClaimedPayment, Flat, Flat2
<1> QED BY <1>7, <1>9
(* The batch, whose sums are taken before any range check.                 *)
LEMMA BatchTotalMaps ==
    ASSUME NEW a, NEW na, \A i \in 1..5 : a[i] \in Loose /\ na[i] = Val(a[i])
    PROVE  /\ BatchTotal(a) \in Loose
           /\ Val(BatchTotal(a)) = Narrow!BatchTotal(na)
<1> DEFINE t2 == Plus(a[1], a[2])
           t3 == Plus(t2, a[3])
           t4 == Plus(t3, a[4])
           t5 == Plus(t4, a[5])
<1>1. /\ a[1] \in Loose /\ a[2] \in Loose /\ a[3] \in Loose /\ a[4] \in Loose /\ a[5] \in Loose
      /\ na[1] = Val(a[1]) /\ na[2] = Val(a[2]) /\ na[3] = Val(a[3])
      /\ na[4] = Val(a[4]) /\ na[5] = Val(a[5])
  OBVIOUS
<1>2. t2 \in Loose /\ Val(t2) = na[1] + na[2]
  BY <1>1, PlusIsSum
<1> HIDE DEF t2
<1>3. t3 \in Loose /\ Val(t3) = Val(t2) + na[3]
  BY <1>1, <1>2, PlusIsSum
<1> HIDE DEF t3
<1>4. t4 \in Loose /\ Val(t4) = Val(t3) + na[4]
  BY <1>1, <1>3, PlusIsSum
<1> HIDE DEF t4
<1>5. t5 \in Loose /\ Val(t5) = Val(t4) + na[5]
  BY <1>1, <1>4, PlusIsSum
<1> HIDE DEF t5
<1>6. BatchTotal(a) = t5
  BY DEF BatchTotal, t2, t3, t4, t5
<1>7. Val(t5) = na[1] + na[2] + na[3] + na[4] + na[5]
  BY <1>2, <1>3, <1>4, <1>5
<1> QED BY <1>5, <1>6, <1>7 DEF Narrow!BatchTotal

LEMMA BatchOutboxMaps ==
    ASSUME NEW box \in [Users -> Loose], NEW r, NEW a, NEW na,
           \A i \in 1..5 : a[i] \in Wide /\ na[i] = Val(a[i]) /\ (a[i] # Zero => r[i] \in Users)
    PROVE  /\ BatchOutbox(box, r, a) \in [Users -> Loose]
           /\ Flat(BatchOutbox(box, r, a)) = Narrow!BatchOutbox(Flat(box), r, na)
<1> DEFINE b1 == Credit(box, r[1], a[1])
           b2 == Credit(b1, r[2], a[2])
           b3 == Credit(b2, r[3], a[3])
           b4 == Credit(b3, r[4], a[4])
           b5 == Credit(b4, r[5], a[5])
<1>1. /\ a[1] \in Wide /\ a[2] \in Wide /\ a[3] \in Wide /\ a[4] \in Wide /\ a[5] \in Wide
      /\ na[1] = Val(a[1]) /\ na[2] = Val(a[2]) /\ na[3] = Val(a[3])
      /\ na[4] = Val(a[4]) /\ na[5] = Val(a[5])
      /\ a[1] # Zero => r[1] \in Users
      /\ a[2] # Zero => r[2] \in Users
      /\ a[3] # Zero => r[3] \in Users
      /\ a[4] # Zero => r[4] \in Users
      /\ a[5] # Zero => r[5] \in Users
  OBVIOUS
<1>2. b1 \in [Users -> Loose] /\ Flat(b1) = Narrow!Credit(Flat(box), r[1], na[1])
  BY <1>1, CreditMaps
<1> HIDE DEF b1
<1>3. b2 \in [Users -> Loose] /\ Flat(b2) = Narrow!Credit(Flat(b1), r[2], na[2])
  BY <1>1, <1>2, CreditMaps
<1> HIDE DEF b2
<1>4. b3 \in [Users -> Loose] /\ Flat(b3) = Narrow!Credit(Flat(b2), r[3], na[3])
  BY <1>1, <1>3, CreditMaps
<1> HIDE DEF b3
<1>5. b4 \in [Users -> Loose] /\ Flat(b4) = Narrow!Credit(Flat(b3), r[4], na[4])
  BY <1>1, <1>4, CreditMaps
<1> HIDE DEF b4
<1>6. b5 \in [Users -> Loose] /\ Flat(b5) = Narrow!Credit(Flat(b4), r[5], na[5])
  BY <1>1, <1>5, CreditMaps
<1> HIDE DEF b5
<1>7. BatchOutbox(box, r, a) = b5
  BY DEF BatchOutbox, b1, b2, b3, b4, b5
<1> QED BY <1>2, <1>3, <1>4, <1>5, <1>6, <1>7 DEF Narrow!BatchOutbox

LEMMA BatchTransferMaps ==
    ASSUME WideType, NEW u \in Users, NEW r, NEW a, NEW na, BatchTransfer(u, r, a),
           \A i \in 1..5 : a[i] \in Wide /\ na[i] = Val(a[i])
    PROVE  WideType' /\ Narrow!BatchTransfer(u, r, na)
<1> DEFINE total == BatchTotal(a)
           box == BatchOutbox(amount_sent[u], r, a)
<1>1. /\ total \in Wide /\ Debit(u, total) /\ WriteOutbox(u, box)
      /\ \A i \in 1..5 : a[i] # Zero => r[i] \in Users \ {u}
      /\ UNCHANGED <<amount_claimed, adminVars, supplyVars, burnVars, delegVars>>
  BY DEF BatchTransfer
<1>2. balance \in [Users -> Wide] /\ OutboxType /\ amount_sent[u] \in [Users -> Loose]
  BY TypeParts, WideIsLoose DEF WideType
<1>3. \A i \in 1..5 : a[i] \in Loose /\ na[i] = Val(a[i])
  BY WideIsLoose
<1>4. Val(total) = Narrow!BatchTotal(na)
  BY <1>3, BatchTotalMaps
<1>5. /\ box \in [Users -> Loose]
      /\ Flat(box) = Narrow!BatchOutbox(Flat(amount_sent[u]), r, na)
  BY <1>1, <1>2, BatchOutboxMaps
<1> HIDE DEF total, box
<1>6. /\ balance' \in [Users -> Wide] /\ Val(total) <= Val(balance[u])
      /\ Flat(balance)' = [Flat(balance) EXCEPT ![u] = @ - Val(total)]
  BY <1>1, <1>2, DebitMaps
<1>7. /\ OutboxType' /\ \A v \in Users : Val(box[v]) <= MaxWide
      /\ Flat2(amount_sent)' = [Flat2(amount_sent) EXCEPT ![u] = Flat(box)]
      /\ FlatVals2(past_sent)' =
            [FlatVals2(past_sent) EXCEPT ![u] = [v \in Users |-> @[v] \cup {Flat(box)[v]}]]
  BY <1>1, <1>2, <1>5, WriteOutboxMaps
<1>8. Narrow!WriteOutbox(u, Flat(box))
  BY <1>7 DEF Narrow!WriteOutbox, Flat2, FlatVals2
<1>9. \A i \in 1..5 : na[i] > 0 => r[i] \in Users \ {u}
  BY <1>1, AmountFacts
<1>10. WideType'
  BY <1>1, <1>6, <1>7 DEF WideType, OutboxType, adminVars, supplyVars, burnVars, delegVars
<1>11. Val(total) <= MaxWide
  BY <1>1, AmountFacts
<1>12. UNCHANGED Flat2(amount_claimed)
  BY <1>1 DEF Flat2
<1>13. \A v \in Users : Flat(box)[v] <= MaxWide
  BY <1>7 DEF Flat
<1>14. Narrow!BatchOutbox(Flat2(amount_sent)[u], r, na) = Flat(box)
  BY <1>5 DEF Flat, Flat2
<1>15. /\ Narrow!BatchTotal(na) <= MaxWide
       /\ Flat(balance)[u] >= Narrow!BatchTotal(na)
       /\ Flat(balance)' = [Flat(balance) EXCEPT ![u] = @ - Narrow!BatchTotal(na)]
  BY <1>4, <1>6, <1>11 DEF Flat
<1>16. UNCHANGED <<Flat2(amount_claimed), Narrow!adminVars, Narrow!supplyVars,
                   Narrow!burnVars, Narrow!delegVars>>
  BY <1>1, <1>12, AdminSame, SupplySame, BurnSame, DelegSame
<1>17. Narrow!BatchTransfer(u, r, na)
  BY <1>8, <1>9, <1>13, <1>14, <1>15, <1>16
     DEF Narrow!BatchTransfer, Flat, Flat2
<1> QED BY <1>10, <1>17

LEMMA BatchesMap ==
    ASSUME WideType, NEW u \in Users
    PROVE  /\ \A b \in Batches2 : BatchTransfer2(u, b) => WideType' /\
                \E nb \in NarrowBatches(2, Batches2) : Narrow!BatchTransfer2(u, nb)
           /\ \A b \in Batches5 : BatchTransfer5(u, b) => WideType' /\
                \E nb \in NarrowBatches(5, Batches5) : Narrow!BatchTransfer5(u, nb)
<1>1. ASSUME NEW b \in Batches2, BatchTransfer2(u, b)
      PROVE  WideType' /\ \E nb \in NarrowBatches(2, Batches2) : Narrow!BatchTransfer2(u, nb)
  <2> DEFINE nb == [to |-> b.to, amount |-> [i \in 1..2 |-> Val(b.amount[i])]]
             r == <<b.to[1], b.to[2], NoUser, NoUser, NoUser>>
             a == <<b.amount[1], b.amount[2], Zero, Zero, Zero>>
             na == <<nb.amount[1], nb.amount[2], 0, 0, 0>>
  <2>1. b.amount[1] \in Wide /\ b.amount[2] \in Wide
    BY BatchesAssumption DEF Batch
  <2>2. \A i \in 1..5 : a[i] \in Wide /\ na[i] = Val(a[i])
    BY <2>1, ZeroFacts
  <2>3. BatchTransfer(u, r, a)
    BY <1>1 DEF BatchTransfer2
  <2>4. nb \in NarrowBatches(2, Batches2)
    BY DEF NarrowBatches
  <2>5. nb.to = b.to
    OBVIOUS
  <2> HIDE DEF a
  <2>6. WideType' /\ Narrow!BatchTransfer(u, r, na)
    <3> HIDE DEF r, na
    <3> QED BY <2>2, <2>3, BatchTransferMaps
  <2>7. Narrow!BatchTransfer2(u, nb)
    BY <2>5, <2>6 DEF Narrow!BatchTransfer2
  <2> QED BY <2>4, <2>6, <2>7
<1>2. ASSUME NEW b \in Batches5, BatchTransfer5(u, b)
      PROVE  WideType' /\ \E nb \in NarrowBatches(5, Batches5) : Narrow!BatchTransfer5(u, nb)
  <2> DEFINE nb == [to |-> b.to, amount |-> [i \in 1..5 |-> Val(b.amount[i])]]
  <2>1. \A i \in 1..5 : b.amount[i] \in Wide /\ nb.amount[i] = Val(b.amount[i])
    BY BatchesAssumption DEF Batch
  <2>2. BatchTransfer(u, b.to, b.amount)
    BY <1>2 DEF BatchTransfer5
  <2>3. nb \in NarrowBatches(5, Batches5) /\ nb.to = b.to
    BY DEF NarrowBatches
  <2> HIDE DEF nb
  <2>4. WideType' /\ Narrow!BatchTransfer(u, b.to, nb.amount)
    BY <2>1, <2>2, BatchTransferMaps
  <2>5. Narrow!BatchTransfer5(u, nb)
    BY <2>3, <2>4 DEF Narrow!BatchTransfer5
  <2> QED BY <2>3, <2>4, <2>5
<1> QED BY <1>1, <1>2
LEMMA OpenMaps ==
    ASSUME WideType, NEW u \in Users, NEW c \in Channels, NEW v \in Users, NEW a \in Amounts,
           OpenDelegationChannel(u, c, v, a)
    PROVE  WideType' /\ Narrow!OpenDelegationChannel(u, c, v, Val(a))
<1> DEFINE ch == delegations[u][c]
<1> PICK new : new = [spender |-> v, allocated_amount |-> a,
                      channel_version |-> ch.channel_version + 1, status |-> ACTIVE]
  OBVIOUS
<1>1. /\ a \in Wide /\ Val(a) > 0 /\ balance \in [Users -> Wide] /\ SlotType
      /\ ch \in DelegationChannel
  BY AmountsAssumption, AmountFacts, TypeParts DEF WideType, OpenDelegationChannel
<1>2. /\ balance' \in [Users -> Wide] /\ Val(a) <= Val(balance[u])
      /\ Flat(balance)' = [Flat(balance) EXCEPT ![u] = @ - Val(a)]
  BY <1>1, DebitMaps DEF OpenDelegationChannel
<1>3. /\ ch.status \in {0, CLOSED} /\ ch.channel_version <= Base - 2
      /\ WriteChannel(u, c, new)
  BY DEF OpenDelegationChannel
<1>4. new \in DelegationChannel
  BY <1>1, <1>3 DEF DelegationChannel, Limb, ACTIVE
<1>5. NarrowChannel(new) = [spender |-> v, allocated_amount |-> Val(a),
                            channel_version |-> ch.channel_version + 1, status |-> ACTIVE]
  BY DEF NarrowChannel
<1>6. ch.channel_version < MaxWide
  <2>1. Base * 1 + Base <= Base * Base \/ Base <= 1
    BY TimesBase
  <2>2. ch.channel_version \in Nat /\ Base * Base \in Nat
    BY <1>1, TimesBase DEF DelegationChannel, Limb
  <2>3. Base <= Base * Base
    BY TimesBase
  <2> QED BY <1>3, <2>2, <2>3 DEF MaxWide
<1>7. SlotType' /\ Narrow!WriteChannel(u, c, NarrowChannel(new))
  BY <1>1, <1>3, <1>4, WriteChannelMaps
<1>8. WideType'
  BY <1>2, <1>7 DEF OpenDelegationChannel, WideType, SlotType, adminVars, supplyVars, burnVars, payVars
<1>9. NarrowChannel(ch).status \in {0, CLOSED} /\ NarrowChannel(ch).channel_version = ch.channel_version
  BY <1>3 DEF NarrowChannel
<1>10. Narrow!OpenDelegationChannel(u, c, v, Val(a))
  BY <1>1, <1>2, <1>5, <1>6, <1>7, <1>9, AmountFacts, AdminSame, SupplySame, BurnSame, PaySame
     DEF OpenDelegationChannel, Narrow!OpenDelegationChannel, Narrow!NextVersion,
         Narrow!CLOSED, Narrow!ACTIVE, CLOSED, ACTIVE, Flat, Narrow!WriteChannel
<1> QED BY <1>8, <1>10

(* What a spender's call reads of the owner's slot and its own ledger.     *)
LEMMA LedgerMaps ==
    ASSUME WideType, NEW u \in Users, NEW o \in Users, NEW c \in Channels,
           NEW ch \in past_delegations[o][c]
    PROVE  LET l == delegation_spends[u][o][c]
               nl == NarrowSpend(l)
               nch == NarrowChannel(ch)
           IN
           /\ ch \in DelegationChannel /\ l \in DelegationSpend
           /\ nch \in NarrowChannels(past_delegations[o][c])
           /\ nch.spender = ch.spender /\ nch.status = ch.status
           /\ nch.channel_version = ch.channel_version
           /\ nch.allocated_amount = Val(ch.allocated_amount)
           /\ LedgerFor(l, ch.channel_version) \in Wide
           /\ Narrow!LedgerFor(nl, nch.channel_version) = Val(LedgerFor(l, ch.channel_version))
           /\ LedgerAdmits(l, ch.channel_version) => Narrow!LedgerAdmits(nl, nch.channel_version)
<1> DEFINE l == delegation_spends[u][o][c]
<1>1. ch \in DelegationChannel /\ l \in DelegationSpend
  BY DEF WideType
<1>2. LedgerFor(l, ch.channel_version) \in Wide
  BY <1>1, ZeroFacts DEF LedgerFor, DelegationSpend
<1>3. /\ NarrowSpend(l).channel_version = l.channel_version
      /\ NarrowSpend(l).closed = l.closed /\ NarrowSpend(l).spent = Val(l.spent)
  BY DEF NarrowSpend
<1>4. /\ NarrowChannel(ch).spender = ch.spender /\ NarrowChannel(ch).status = ch.status
      /\ NarrowChannel(ch).channel_version = ch.channel_version
      /\ NarrowChannel(ch).allocated_amount = Val(ch.allocated_amount)
  BY DEF NarrowChannel
<1>5. NarrowChannel(ch) \in NarrowChannels(past_delegations[o][c])
  BY DEF NarrowChannels
<1> HIDE DEF l
<1>6. Narrow!LedgerFor(NarrowSpend(l), ch.channel_version) = Val(LedgerFor(l, ch.channel_version))
  BY <1>3, ZeroFacts DEF LedgerFor, Narrow!LedgerFor
<1>7. LedgerAdmits(l, ch.channel_version) => Narrow!LedgerAdmits(NarrowSpend(l), ch.channel_version)
  BY <1>3 DEF LedgerAdmits, Narrow!LedgerAdmits
<1> QED BY <1>1, <1>2, <1>4, <1>5, <1>6, <1>7 DEF l

LEMMA SpendMaps ==
    ASSUME WideType, NEW u \in Users, NEW o \in Users, NEW c \in Channels,
           NEW a \in Amounts, NEW r \in Users, SpendDelegation(u, o, c, a, r)
    PROVE  WideType' /\ Narrow!SpendDelegation(u, o, c, Val(a), r)
<1> DEFINE l == delegation_spends[u][o][c]
<1>1. PICK ch \in past_delegations[o][c] :
        LET next_spent == Plus(LedgerFor(l, ch.channel_version), a) IN
        /\ ch.spender = u
        /\ ch.status = ACTIVE
        /\ LedgerAdmits(l, ch.channel_version)
        /\ next_spent \in Wide
        /\ Leq(next_spent, ch.allocated_amount)
        /\ WriteLedger(u, o, c, [spent |-> next_spent, closed |-> 0,
                                  channel_version |-> ch.channel_version])
  BY DEF SpendDelegation
<1> DEFINE before == LedgerFor(l, ch.channel_version)
           next_spent == Plus(before, a)
           nch == NarrowChannel(ch)
           nl == NarrowSpend(l)
<1> PICK new : new = [spent |-> next_spent, closed |-> 0, channel_version |-> ch.channel_version]
  OBVIOUS
<1> PICK nnew : nnew = NarrowSpend(new)
  OBVIOUS
<1>2. /\ ch \in DelegationChannel /\ l \in DelegationSpend
      /\ nch \in NarrowChannels(past_delegations[o][c])
      /\ nch.spender = ch.spender /\ nch.status = ch.status
      /\ nch.channel_version = ch.channel_version
      /\ nch.allocated_amount = Val(ch.allocated_amount)
      /\ before \in Wide
      /\ Narrow!LedgerFor(nl, nch.channel_version) = Val(before)
      /\ LedgerAdmits(l, ch.channel_version) => Narrow!LedgerAdmits(nl, nch.channel_version)
  BY LedgerMaps
<1>3. /\ a \in Wide /\ a # Zero /\ Val(a) > 0 /\ Val(a) \in Nat /\ OutboxType /\ SlotType
      /\ r \in Users \ {u} /\ Pay(u, r, a)
      /\ UNCHANGED <<balance, amount_claimed, adminVars, supplyVars, burnVars>>
  BY AmountsAssumption, AmountFacts, TypeParts DEF SpendDelegation
<1>4. /\ ch.spender = u /\ ch.status = ACTIVE /\ LedgerAdmits(l, ch.channel_version)
      /\ next_spent \in Wide /\ Leq(next_spent, ch.allocated_amount)
      /\ WriteLedger(u, o, c, new)
  BY <1>1
<1>5. new \in DelegationSpend
  BY <1>2, <1>4 DEF DelegationSpend, DelegationChannel
<1>6. Val(next_spent) = Val(before) + Val(a)
  BY <1>2, <1>3, WideIsLoose, PlusIsSum
<1>7. NarrowSpend(new) = [spent |-> Val(before) + Val(a), closed |-> 0,
                          channel_version |-> nch.channel_version]
  BY <1>2, <1>6 DEF NarrowSpend
<1>8. ch.allocated_amount \in Wide
  BY <1>2 DEF DelegationChannel
<1> HIDE DEF l, before, next_spent, nch, nl
<1>9. Val(next_spent) <= Val(ch.allocated_amount)
  BY <1>4, <1>8, WideIsLoose, CompareLoose
<1>10. Val(before) \in Nat /\ Val(ch.allocated_amount) \in Nat
  BY <1>2, <1>8, AmountFacts
<1>11. Narrow!Allowed(nch, Val(before), Val(a))
  BY <1>2, <1>3, <1>6, <1>9, <1>10 DEF Narrow!Allowed
<1>12. SlotType' /\ Narrow!WriteLedger(u, o, c, nnew)
  BY <1>3, <1>4, <1>5, WriteLedgerMaps
<1>13. /\ OutboxType' /\ Val(a) <= MaxWide - Val(amount_sent[u][r])
       /\ Narrow!WriteOutbox(u, Narrow!Credit(Flat(amount_sent[u]), r, Val(a)))
  BY <1>3, PayMaps
<1>14. WideType'
  BY <1>3, <1>12, <1>13 DEF WideType, OutboxType, SlotType, adminVars, supplyVars, burnVars
<1>15. UNCHANGED <<Flat(balance), Flat2(amount_claimed), Narrow!adminVars,
                   Narrow!supplyVars, Narrow!burnVars>>
  BY <1>3, AdminSame, SupplySame, BurnSame DEF Flat, Flat2
<1>16. /\ nch.spender = u /\ nch.status = ACTIVE
       /\ Narrow!LedgerAdmits(nl, nch.channel_version)
       /\ Narrow!Allowed(nch, Narrow!LedgerFor(nl, nch.channel_version), Val(a))
       /\ Val(a) <= MaxWide - Val(amount_sent[u][r])
       /\ Narrow!WriteLedger(u, o, c, nnew)
       /\ nnew = [spent |-> Narrow!LedgerFor(nl, nch.channel_version) + Val(a), closed |-> 0,
                  channel_version |-> nch.channel_version]
  BY <1>2, <1>4, <1>7, <1>11, <1>12, <1>13
<1>17. Narrow!SpendDelegation(u, o, c, Val(a), r)
  BY <1>2, <1>3, <1>13, <1>15, <1>16
     DEF Narrow!SpendDelegation, Narrow!WriteLedger, Narrow!ACTIVE, ACTIVE,
         Flat, Flat2, NarrowChannels, nl, l
<1> QED BY <1>14, <1>17
LEMMA RequestMaps ==
    ASSUME WideType, NEW u \in Users, NEW c \in Channels, RequestRevokeDelegation(u, c)
    PROVE  WideType' /\ Narrow!RequestRevokeDelegation(u, c)
<1> DEFINE ch == delegations[u][c]
<1> PICK new : new = [ch EXCEPT !.status = REVOKE_PENDING]
  OBVIOUS
<1>1. SlotType /\ ch \in DelegationChannel
  BY TypeParts DEF WideType
<1>2. ch.status = ACTIVE /\ WriteChannel(u, c, new)
  BY DEF RequestRevokeDelegation
<1>3. new \in DelegationChannel
  BY <1>1 DEF DelegationChannel, REVOKE_PENDING
<1>4. /\ NarrowChannel(new) = [NarrowChannel(ch) EXCEPT !.status = REVOKE_PENDING]
      /\ NarrowChannel(ch).status = ACTIVE
  BY <1>1, <1>2 DEF NarrowChannel, DelegationChannel
<1>5. SlotType' /\ Narrow!WriteChannel(u, c, NarrowChannel(new))
  BY <1>1, <1>2, <1>3, WriteChannelMaps
<1>6. WideType'
  BY <1>5 DEF RequestRevokeDelegation, WideType, SlotType, adminVars, supplyVars, burnVars, payVars
<1>7. UNCHANGED Flat(balance)
  BY DEF RequestRevokeDelegation, Flat
<1>8. Narrow!RequestRevokeDelegation(u, c)
  BY <1>4, <1>5, <1>7, AdminSame, SupplySame, BurnSame, PaySame
     DEF RequestRevokeDelegation, Narrow!RequestRevokeDelegation, Narrow!WriteChannel,
         Narrow!ACTIVE, Narrow!REVOKE_PENDING, ACTIVE, REVOKE_PENDING, Flat
<1> QED BY <1>6, <1>8

LEMMA CloseMaps ==
    ASSUME WideType, NEW u \in Users, NEW o \in Users, NEW c \in Channels,
           CloseDelegationChannel(u, o, c)
    PROVE  WideType' /\ Narrow!CloseDelegationChannel(u, o, c)
<1> DEFINE l == delegation_spends[u][o][c]
<1>1. PICK ch \in past_delegations[o][c] :
        /\ ch.channel_version # 0
        /\ ch.spender = u
        /\ ch.status \in {ACTIVE, REVOKE_PENDING}
        /\ LedgerAdmits(l, ch.channel_version)
        /\ WriteLedger(u, o, c, [spent |-> LedgerFor(l, ch.channel_version),
                                  closed |-> 1, channel_version |-> ch.channel_version])
  BY DEF CloseDelegationChannel
<1> DEFINE before == LedgerFor(l, ch.channel_version)
           nch == NarrowChannel(ch)
           nl == NarrowSpend(l)
<1> PICK new : new = [spent |-> before, closed |-> 1, channel_version |-> ch.channel_version]
  OBVIOUS
<1> PICK nnew : nnew = NarrowSpend(new)
  OBVIOUS
<1>2. /\ ch \in DelegationChannel /\ l \in DelegationSpend
      /\ nch \in NarrowChannels(past_delegations[o][c])
      /\ nch.spender = ch.spender /\ nch.status = ch.status
      /\ nch.channel_version = ch.channel_version
      /\ before \in Wide
      /\ Narrow!LedgerFor(nl, nch.channel_version) = Val(before)
      /\ LedgerAdmits(l, ch.channel_version) => Narrow!LedgerAdmits(nl, nch.channel_version)
  BY LedgerMaps
<1>3. /\ SlotType /\ o # u
      /\ UNCHANGED <<balance, adminVars, supplyVars, burnVars, payVars>>
  BY TypeParts DEF CloseDelegationChannel
<1>4. /\ ch.channel_version # 0 /\ ch.spender = u /\ ch.status \in {ACTIVE, REVOKE_PENDING}
      /\ LedgerAdmits(l, ch.channel_version) /\ WriteLedger(u, o, c, new)
  BY <1>1
<1>5. new \in DelegationSpend
  BY <1>2 DEF DelegationSpend, DelegationChannel
<1>6. nnew = [spent |-> Val(before), closed |-> 1, channel_version |-> nch.channel_version]
  BY <1>2 DEF NarrowSpend
<1>7. nch.channel_version > 0
  BY <1>2, <1>4 DEF DelegationChannel, Limb
<1> HIDE DEF l, before, nch, nl
<1>8. SlotType' /\ Narrow!WriteLedger(u, o, c, nnew)
  BY <1>3, <1>4, <1>5, WriteLedgerMaps
<1>9. WideType'
  BY <1>3, <1>8 DEF WideType, SlotType, adminVars, supplyVars, burnVars, payVars
<1>10. UNCHANGED <<Flat(balance), Narrow!adminVars, Narrow!supplyVars,
                   Narrow!burnVars, Narrow!payVars>>
  BY <1>3, AdminSame, SupplySame, BurnSame, PaySame DEF Flat
<1>11. /\ nch.spender = u /\ nch.status \in {ACTIVE, REVOKE_PENDING}
       /\ Narrow!LedgerAdmits(nl, nch.channel_version)
       /\ nnew = [spent |-> Narrow!LedgerFor(nl, nch.channel_version), closed |-> 1,
                  channel_version |-> nch.channel_version]
  BY <1>2, <1>4, <1>6
<1>12. Narrow!CloseDelegationChannel(u, o, c)
  BY <1>2, <1>3, <1>7, <1>8, <1>10, <1>11
     DEF Narrow!CloseDelegationChannel, Narrow!CanClose, Narrow!WriteLedger, Narrow!ACTIVE, ACTIVE,
         Narrow!REVOKE_PENDING, REVOKE_PENDING, Flat, NarrowChannels, nl, l
<1> QED BY <1>9, <1>12

LEMMA FinalizeMaps ==
    ASSUME WideType, NEW u \in Users, NEW c \in Channels, NEW v \in Users,
           FinalizeRevokeDelegation(u, c, v)
    PROVE  WideType' /\ Narrow!FinalizeRevokeDelegation(u, c, v)
<1> DEFINE ch == delegations[u][c]
<1> PICK new : new = [spender |-> NoUser, allocated_amount |-> Zero,
                      channel_version |-> ch.channel_version, status |-> CLOSED]
  OBVIOUS
<1>1. PICK l \in past_spends[v][u][c] :
        /\ l.channel_version = ch.channel_version
        /\ l.closed = 1
        /\ Leq(l.spent, ch.allocated_amount)
        /\ Deposit(u, Minus(ch.allocated_amount, l.spent))
  BY DEF FinalizeRevokeDelegation
<1> PICK refund : refund = Minus(ch.allocated_amount, l.spent)
  OBVIOUS
<1>2. /\ ch.status = REVOKE_PENDING /\ ch.spender = v /\ WriteChannel(u, c, new)
      /\ UNCHANGED <<adminVars, supplyVars, burnVars, payVars>>
  BY DEF FinalizeRevokeDelegation
<1>3. /\ SlotType /\ balance \in [Users -> Wide]
      /\ ch \in DelegationChannel /\ l \in DelegationSpend
  BY TypeParts DEF WideType
<1>4. ch.allocated_amount \in Wide /\ l.spent \in Wide
  BY <1>3 DEF DelegationChannel, DelegationSpend
<1>5. /\ refund \in Wide /\ Val(refund) = Val(ch.allocated_amount) - Val(l.spent)
      /\ Val(l.spent) <= Val(ch.allocated_amount)
  BY <1>1, <1>4, MinusIsDifference, WideIsLoose, CompareLoose
<1>6. /\ balance' \in [Users -> Wide] /\ Val(refund) <= MaxWide - Val(balance[u])
      /\ Flat(balance)' = [Flat(balance) EXCEPT ![u] = @ + Val(refund)]
  BY <1>1, <1>3, <1>5, DepositMaps
<1>7. new \in DelegationChannel
  BY <1>3, ZeroFacts DEF DelegationChannel, CLOSED
<1>8. SlotType' /\ Narrow!WriteChannel(u, c, NarrowChannel(new))
  BY <1>2, <1>3, <1>7, WriteChannelMaps
<1>9. WideType'
  BY <1>2, <1>6, <1>8 DEF WideType, SlotType, adminVars, supplyVars, burnVars, payVars
<1>10. /\ NarrowChannel(ch).status = ch.status /\ NarrowChannel(ch).spender = ch.spender
       /\ NarrowChannel(ch).channel_version = ch.channel_version
       /\ NarrowChannel(ch).allocated_amount = Val(ch.allocated_amount)
       /\ NarrowSpend(l).channel_version = l.channel_version
       /\ NarrowSpend(l).closed = l.closed /\ NarrowSpend(l).spent = Val(l.spent)
  BY DEF NarrowChannel, NarrowSpend
<1>11. NarrowChannel(new) = [spender |-> NoUser, allocated_amount |-> 0,
                             channel_version |-> ch.channel_version, status |-> CLOSED]
  BY ZeroFacts DEF NarrowChannel
<1>12. NarrowSpend(l) \in NarrowSpends(past_spends[v][u][c])
  BY DEF NarrowSpends
<1> PICK nl : nl = NarrowSpend(l)
  OBVIOUS
<1> PICK nch : nch = NarrowChannel(ch)
  OBVIOUS
<1>13. /\ nch.status = REVOKE_PENDING /\ nch.spender = v
       /\ Narrow!IsSettled(nl, nch)
       /\ nl.spent <= nch.allocated_amount
       /\ nch.allocated_amount - nl.spent <= MaxWide - Flat(balance)[u]
       /\ Flat(balance)' = [Flat(balance) EXCEPT ![u] = @ + (nch.allocated_amount - nl.spent)]
       /\ NarrowChannel(new) = [spender |-> NoUser, allocated_amount |-> 0,
                                channel_version |-> nch.channel_version, status |-> CLOSED]
  BY <1>1, <1>2, <1>5, <1>6, <1>10, <1>11 DEF Narrow!IsSettled, Flat
<1>14. Narrow!FinalizeRevokeDelegation(u, c, v)
  BY <1>2, <1>8, <1>12, <1>13, AdminSame, SupplySame, BurnSame, PaySame
     DEF Narrow!FinalizeRevokeDelegation, Narrow!CanFinalize, Narrow!WriteChannel, Narrow!CLOSED, CLOSED,
         Narrow!REVOKE_PENDING, REVOKE_PENDING, Flat, NarrowSpends
<1> QED BY <1>9, <1>14
-----------------------------------------------------------------------------
LEMMA InitMaps == Init => WideType /\ Narrow!Init
<1> SUFFICES ASSUME Init PROVE WideType /\ Narrow!Init
  OBVIOUS
<1>1. /\ Zero \in Wide /\ Val(Zero) = 0
      /\ NoChannel \in DelegationChannel /\ NoSpend \in DelegationSpend
      /\ NarrowChannel(NoChannel) = Narrow!NoChannel /\ NarrowSpend(NoSpend) = Narrow!NoSpend
      /\ Vals({Zero}) = {0}
      /\ NarrowChannels({NoChannel}) = {Narrow!NoChannel}
      /\ NarrowSpends({NoSpend}) = {Narrow!NoSpend}
  BY ZeroFacts DEF NoChannel, NoSpend, Narrow!NoChannel, Narrow!NoSpend, NarrowChannel, NarrowSpend,
     DelegationChannel, DelegationSpend, Limb, Vals, NarrowChannels, NarrowSpends
<1>2. WideType
  BY <1>1 DEF Init, WideType, Metadata, MaxDecimals
<1>3. /\ Flat(balance) = [u \in Users |-> 0]
      /\ Flat(burn_requested) = [u \in Users |-> 0]
      /\ Flat(burn_settled) = [u \in Users |-> 0]
      /\ Flat2(amount_sent) = [u \in Users |-> [v \in Users |-> 0]]
      /\ Flat2(amount_claimed) = [u \in Users |-> [v \in Users |-> 0]]
  BY <1>1 DEF Init, Flat, Flat2
<1>4. /\ FlatVals(past_burn) = [u \in Users |-> {0}]
      /\ FlatVals2(past_sent) = [u \in Users |-> [v \in Users |-> {0}]]
  BY <1>1 DEF Init, FlatVals, FlatVals2
<1>5. /\ [o \in Users |-> [c \in Channels |-> NarrowChannel(delegations[o][c])]] =
            [o \in Users |-> [c \in Channels |-> Narrow!NoChannel]]
      /\ [o \in Users |-> [c \in Channels |-> NarrowChannels(past_delegations[o][c])]] =
            [o \in Users |-> [c \in Channels |-> {Narrow!NoChannel}]]
  BY <1>1 DEF Init
<1>6. /\ [s \in Users |-> [o \in Users |-> [c \in Channels |->
            NarrowSpend(delegation_spends[s][o][c])]]] =
            [s \in Users |-> [o \in Users |-> [c \in Channels |-> Narrow!NoSpend]]]
      /\ [s \in Users |-> [o \in Users |-> [c \in Channels |->
            NarrowSpends(past_spends[s][o][c])]]] =
            [s \in Users |-> [o \in Users |-> [c \in Channels |-> {Narrow!NoSpend}]]]
  BY <1>1 DEF Init
<1>7. Narrow!Init
  BY <1>1, <1>3, <1>4, <1>5, <1>6
     DEF Init, Narrow!Init, Flat, Flat2, FlatVals, FlatVals2, NarrowChannels, NarrowSpends
<1> QED BY <1>2, <1>7

LEMMA AdminMaps ==
    ASSUME WideType, NEW u \in Users, Admin(u)
    PROVE  WideType' /\ Narrow!Admin(u)
<1>1. ASSUME NEW s \in Symbols, NEW d \in Decimals, SetMetadata(u, s, d)
      PROVE  WideType' /\ Narrow!Admin(u)
  BY <1>1, SetMetadataMaps DEF Narrow!Admin
<1>2. ASSUME NEW s \in Symbols, SetExtendedMetadata(u, s)
      PROVE  WideType' /\ Narrow!Admin(u)
  BY <1>2, SetExtendedMetadataMaps DEF Narrow!Admin
<1>3. ASSUME NEW cap \in Amounts, SetMaxSupply(u, cap)
      PROVE  WideType' /\ Narrow!Admin(u)
  <2>1. Val(cap) \in Vals(Amounts)
    BY DEF Vals
  <2> QED BY <1>3, <2>1, SetMaxSupplyMaps DEF Narrow!Admin
<1>4. ASSUME NEW v \in Users, SetMintAuthority(u, v)
      PROVE  WideType' /\ Narrow!Admin(u)
  BY <1>4, SetMintAuthorityMaps DEF Narrow!Admin
<1>5. ASSUME RenounceMintAuthority(u)
      PROVE  WideType' /\ Narrow!Admin(u)
  BY <1>5, RenounceMaps DEF Narrow!Admin
<1> QED BY <1>1, <1>2, <1>3, <1>4, <1>5 DEF Admin

LEMMA SupplyMaps ==
    ASSUME WideType, NEW u \in Users, Supply(u)
    PROVE  WideType' /\ Narrow!Supply(u)
<1>0. \A a \in Amounts : Val(a) \in Vals(Amounts)
  BY DEF Vals
<1>1. ASSUME NEW a \in Amounts, Mint(u, a) PROVE WideType' /\ Narrow!Supply(u)
  BY <1>0, <1>1, MintMaps DEF Narrow!Supply
<1>2. ASSUME NEW v \in Users, NEW a \in Amounts, MintTo(u, v, a)
      PROVE  WideType' /\ Narrow!Supply(u)
  BY <1>0, <1>2, MintToMaps DEF Narrow!Supply
<1>3. ASSUME NEW a \in Amounts, Burn(u, a) PROVE WideType' /\ Narrow!Supply(u)
  BY <1>0, <1>3, BurnMaps DEF Narrow!Supply
<1>4. ASSUME NEW v \in Users, SettleBurn(u, v) PROVE WideType' /\ Narrow!Supply(u)
  BY <1>4, SettleBurnMaps DEF Narrow!Supply
<1> QED BY <1>1, <1>2, <1>3, <1>4 DEF Supply

LEMMA PaymentMaps ==
    ASSUME WideType, NEW u \in Users, Payment(u)
    PROVE  WideType' /\ Narrow!Payment(u)
<1>0. \A a \in Amounts : Val(a) \in Vals(Amounts)
  BY DEF Vals
<1>1. ASSUME NEW v \in Users, NEW a \in Amounts, Transfer(u, v, a)
      PROVE  WideType' /\ Narrow!Payment(u)
  BY <1>0, <1>1, TransferMaps DEF Narrow!Payment
<1>2. ASSUME NEW v \in Users, Claim(u, v) PROVE WideType' /\ Narrow!Payment(u)
  BY <1>2, ClaimMaps DEF Narrow!Payment
<1>3. ASSUME NEW v \in Users, CancelUnclaimedPayment(u, v)
      PROVE  WideType' /\ Narrow!Payment(u)
  BY <1>3, CancelMaps DEF Narrow!Payment
<1>4. ASSUME NEW v \in Users, NEW a \in Amounts, RefundClaimedPayment(u, v, a)
      PROVE  WideType' /\ Narrow!Payment(u)
  BY <1>0, <1>4, RefundMaps DEF Narrow!Payment
<1>5. ASSUME NEW b \in Batches2, BatchTransfer2(u, b) PROVE WideType' /\ Narrow!Payment(u)
  BY <1>5, BatchesMap DEF Narrow!Payment
<1>6. ASSUME NEW b \in Batches5, BatchTransfer5(u, b) PROVE WideType' /\ Narrow!Payment(u)
  BY <1>6, BatchesMap DEF Narrow!Payment
<1> QED BY <1>1, <1>2, <1>3, <1>4, <1>5, <1>6 DEF Payment

LEMMA DelegationMaps ==
    ASSUME WideType, NEW u \in Users, Delegation(u)
    PROVE  WideType' /\ Narrow!Delegation(u)
<1>0. \A a \in Amounts : Val(a) \in Vals(Amounts)
  BY DEF Vals
<1> PICK c \in Channels, v \in Users :
        \/ \E a \in Amounts : OpenDelegationChannel(u, c, v, a)
        \/ \E a \in Amounts, r \in Users : SpendDelegation(u, v, c, a, r)
        \/ RequestRevokeDelegation(u, c)
        \/ CloseDelegationChannel(u, v, c)
        \/ FinalizeRevokeDelegation(u, c, v)
  BY DEF Delegation
<1>1. ASSUME NEW a \in Amounts, OpenDelegationChannel(u, c, v, a)
      PROVE  WideType' /\ Narrow!Delegation(u)
  BY <1>0, <1>1, OpenMaps DEF Narrow!Delegation
<1>2. ASSUME NEW a \in Amounts, NEW r \in Users, SpendDelegation(u, v, c, a, r)
      PROVE  WideType' /\ Narrow!Delegation(u)
  BY <1>0, <1>2, SpendMaps DEF Narrow!Delegation
<1>3. ASSUME RequestRevokeDelegation(u, c) PROVE WideType' /\ Narrow!Delegation(u)
  BY <1>3, RequestMaps DEF Narrow!Delegation
<1>4. ASSUME CloseDelegationChannel(u, v, c) PROVE WideType' /\ Narrow!Delegation(u)
  BY <1>4, CloseMaps DEF Narrow!Delegation
<1>5. ASSUME FinalizeRevokeDelegation(u, c, v) PROVE WideType' /\ Narrow!Delegation(u)
  BY <1>5, FinalizeMaps DEF Narrow!Delegation
<1> QED BY <1>1, <1>2, <1>3, <1>4, <1>5

LEMMA StepMaps == WideType /\ [Next]_vars => WideType' /\ [Narrow!Next]_(Narrow!vars)
<1> SUFFICES ASSUME WideType, [Next]_vars
             PROVE  WideType' /\ [Narrow!Next]_(Narrow!vars)
  OBVIOUS
<1>1. ASSUME NEW u \in Users, Admin(u) \/ Supply(u) \/ Payment(u) \/ Delegation(u)
      PROVE  WideType' /\ Narrow!Next
  BY <1>1, AdminMaps, SupplyMaps, PaymentMaps, DelegationMaps DEF Narrow!Next
<1>2. CASE UNCHANGED vars
  <2>1. WideType'
    BY <1>2 DEF WideType, vars, adminVars, supplyVars, burnVars, payVars, delegVars
  <2> QED BY <1>2, <2>1, AllSame
<1> QED BY <1>1, <1>2 DEF Next

(* Every amount, counter and readable value stays a canonical pair.        *)
THEOREM LimbsStayCanonical == Spec => []WideType
<1>1. Init => WideType
  BY InitMaps
<1>2. WideType /\ [Next]_vars => WideType'
  BY StepMaps
<1> QED BY <1>1, <1>2, PTL DEF Spec

(* The wide contract implements the single-limb token over a field of      *)
(* Base * Base elements: no call on pairs does more or less than the call  *)
(* on numbers.                                                             *)
THEOREM RefinesToken == Spec => ImplementsToken
<1>1. Init => Narrow!Init
  BY InitMaps
<1>2. WideType /\ [Next]_vars => [Narrow!Next]_(Narrow!vars)
  BY StepMaps
<1> QED BY <1>1, <1>2, LimbsStayCanonical, PTL DEF Spec, ImplementsToken, Narrow!Spec
-----------------------------------------------------------------------------
(* No false refusal: the guards on pairs admit what the numbers admit, and *)
(* the present counter can be proved.                                      *)
PresentIsProvable ==
    /\ \A u, v \in Users : amount_sent[u][v] \in past_sent[u][v]
    /\ \A u \in Users : burn_requested[u] \in past_burn[u]

LEMMA OutboxProvable ==
    ASSUME OutboxType, PresentIsProvable, NEW u \in Users, NEW box, WriteOutbox(u, box)
    PROVE  \A w, v \in Users : amount_sent'[w][v] \in past_sent'[w][v]
<1>1. /\ amount_sent' = [amount_sent EXCEPT ![u] = box]
      /\ past_sent' = [past_sent EXCEPT ![u] = [v \in Users |-> past_sent[u][v] \cup {box[v]}]]
  BY DEF WriteOutbox
<1> QED BY <1>1 DEF OutboxType, PresentIsProvable

LEMMA OutboxStep ==
    ASSUME [Next]_vars
    PROVE  \/ UNCHANGED <<amount_sent, past_sent>>
           \/ \E u \in Users : \E box : WriteOutbox(u, box)
<1> USE DEF payVars
<1>1. ASSUME NEW u \in Users, Admin(u) \/ Supply(u) \/ Payment(u) \/ Delegation(u)
      PROVE  \/ UNCHANGED <<amount_sent, past_sent>>
             \/ \E box : WriteOutbox(u, box)
  <2>1. ASSUME Admin(u) PROVE UNCHANGED <<amount_sent, past_sent>>
    BY <2>1 DEF Admin, SetMetadata, SetExtendedMetadata, SetMaxSupply, SetMintAuthority,
                RenounceMintAuthority
  <2>2. ASSUME Supply(u)
        PROVE  \/ UNCHANGED <<amount_sent, past_sent>>
               \/ \E box : WriteOutbox(u, box)
    BY <2>2 DEF Supply, Mint, MintTo, Burn, SettleBurn, Pay
  <2>3. ASSUME Payment(u)
        PROVE  \/ UNCHANGED <<amount_sent, past_sent>>
               \/ \E box : WriteOutbox(u, box)
    BY <2>3 DEF Payment, Transfer, Claim, CancelUnclaimedPayment, RefundClaimedPayment,
                BatchTransfer2, BatchTransfer5, BatchTransfer, Pay
  <2>4. ASSUME Delegation(u)
        PROVE  \/ UNCHANGED <<amount_sent, past_sent>>
               \/ \E box : WriteOutbox(u, box)
    <3> PICK c \in Channels, v \in Users :
            \/ \E a \in Amounts : OpenDelegationChannel(u, c, v, a)
            \/ \E a \in Amounts, r \in Users : SpendDelegation(u, v, c, a, r)
            \/ RequestRevokeDelegation(u, c)
            \/ CloseDelegationChannel(u, v, c)
            \/ FinalizeRevokeDelegation(u, c, v)
      BY <2>4 DEF Delegation
    <3>1. ASSUME NEW a \in Amounts, NEW r \in Users, SpendDelegation(u, v, c, a, r)
          PROVE  \E box : WriteOutbox(u, box)
      BY <3>1 DEF SpendDelegation, Pay
    <3>2. ASSUME NEW a \in Amounts, OpenDelegationChannel(u, c, v, a)
          PROVE  UNCHANGED <<amount_sent, past_sent>>
      BY <3>2 DEF OpenDelegationChannel
    <3>3. ASSUME \/ RequestRevokeDelegation(u, c)
                 \/ CloseDelegationChannel(u, v, c)
                 \/ FinalizeRevokeDelegation(u, c, v)
          PROVE  UNCHANGED <<amount_sent, past_sent>>
      BY <3>3 DEF RequestRevokeDelegation, CloseDelegationChannel, FinalizeRevokeDelegation
    <3> QED BY <3>1, <3>2, <3>3
  <2> QED BY <1>1, <2>1, <2>2, <2>3, <2>4
<1>2. CASE UNCHANGED vars
  BY <1>2 DEF vars
<1> QED BY <1>1, <1>2 DEF Next

LEMMA BurnStep ==
    ASSUME [Next]_vars
    PROVE  \/ UNCHANGED <<burn_requested, past_burn>>
           \/ \E u \in Users, a \in Amounts : Burn(u, a)
<1> USE DEF burnVars
<1>1. ASSUME NEW u \in Users, Admin(u) \/ Payment(u) \/ Delegation(u)
      PROVE  UNCHANGED <<burn_requested, past_burn>>
  <2>1. ASSUME Admin(u) PROVE UNCHANGED burnVars
    BY <2>1 DEF Admin, SetMetadata, SetExtendedMetadata, SetMaxSupply, SetMintAuthority,
                RenounceMintAuthority
  <2>2. ASSUME Payment(u) PROVE UNCHANGED burnVars
    BY <2>2 DEF Payment, Transfer, Claim, CancelUnclaimedPayment, RefundClaimedPayment,
                BatchTransfer2, BatchTransfer5, BatchTransfer
  <2>3. ASSUME Delegation(u) PROVE UNCHANGED burnVars
    <3> PICK c \in Channels, v \in Users :
            \/ \E a \in Amounts : OpenDelegationChannel(u, c, v, a)
            \/ \E a \in Amounts, r \in Users : SpendDelegation(u, v, c, a, r)
            \/ RequestRevokeDelegation(u, c)
            \/ CloseDelegationChannel(u, v, c)
            \/ FinalizeRevokeDelegation(u, c, v)
      BY <2>3 DEF Delegation
    <3>1. ASSUME NEW a \in Amounts, NEW r \in Users,
                 OpenDelegationChannel(u, c, v, a) \/ SpendDelegation(u, v, c, a, r)
          PROVE  UNCHANGED burnVars
      BY <3>1 DEF OpenDelegationChannel, SpendDelegation
    <3>2. ASSUME \/ RequestRevokeDelegation(u, c)
                 \/ CloseDelegationChannel(u, v, c)
                 \/ FinalizeRevokeDelegation(u, c, v)
          PROVE  UNCHANGED burnVars
      BY <3>2 DEF RequestRevokeDelegation, CloseDelegationChannel, FinalizeRevokeDelegation
    <3> QED BY <3>1, <3>2
  <2> QED BY <1>1, <2>1, <2>2, <2>3
<1>2. ASSUME NEW u \in Users, Supply(u)
      PROVE  \/ UNCHANGED <<burn_requested, past_burn>>
             \/ \E a \in Amounts : Burn(u, a)
  BY <1>2 DEF Supply, Mint, MintTo, SettleBurn
<1>3. CASE UNCHANGED vars
  BY <1>3 DEF vars
<1> QED BY <1>1, <1>2, <1>3 DEF Next

LEMMA InitProvable == Init => PresentIsProvable
    BY DEF Init, PresentIsProvable

LEMMA NextProvable ==
    ASSUME WideType, PresentIsProvable, [Next]_vars
    PROVE  PresentIsProvable'
<1>1. \A w, v \in Users : amount_sent'[w][v] \in past_sent'[w][v]
  BY OutboxStep, OutboxProvable, TypeParts DEF PresentIsProvable
<1>2. \A w \in Users : burn_requested'[w] \in past_burn'[w]
  <2>1. ASSUME NEW u \in Users, NEW a \in Amounts, Burn(u, a)
        PROVE  \A w \in Users : burn_requested'[w] \in past_burn'[w]
    BY <2>1 DEF Burn, WideType, PresentIsProvable
  <2> QED BY <2>1, BurnStep DEF PresentIsProvable
<1> QED BY <1>1, <1>2 DEF PresentIsProvable

LEMMA TransferAdmitted ==
    ASSUME WideType, NEW u \in Users, NEW v \in Users \ {u}, NEW a \in Amounts, a # Zero,
           Val(a) <= Val(balance[u]), Val(amount_sent[u][v]) + Val(a) <= MaxWide
    PROVE  CanTransfer(u, v, a)
<1>1. a \in Wide /\ balance[u] \in Wide /\ amount_sent[u] \in [Users -> Wide]
  BY AmountsAssumption DEF WideType
<1>2. Holds(u, a)
  BY <1>1, WideIsLoose, CompareLoose DEF Holds
<1>3. Plus(amount_sent[u][v], a) \in Wide
  BY <1>1, WideIsLoose, PlusIsSum, WideIsBounded
<1>4. Fits(Credit(amount_sent[u], v, a))
  BY <1>1, <1>3 DEF Fits, Credit
<1> QED BY <1>2, <1>4 DEF CanTransfer

LEMMA ClaimAdmitted ==
    ASSUME WideType, PresentIsProvable, NEW u \in Users, NEW v \in Users \ {u},
           Val(amount_claimed[v][u]) < Val(amount_sent[u][v]),
           Val(balance[v]) + Val(amount_sent[u][v]) - Val(amount_claimed[v][u]) <= MaxWide
    PROVE  CanClaim(v, u, amount_sent[u][v]) /\ amount_sent[u][v] \in past_sent[u][v]
<1> DEFINE sent == amount_sent[u][v]
           claimed == amount_claimed[v][u]
           news == Minus(sent, claimed)
<1>1. sent \in Wide /\ claimed \in Wide /\ balance[v] \in Wide
  BY DEF WideType
<1>2. Less(claimed, sent) /\ Leq(claimed, sent)
  BY <1>1, WideIsLoose, CompareLoose DEF Leq
<1>3. news \in Wide /\ Val(news) = Val(sent) - Val(claimed)
  BY <1>1, <1>2, MinusIsDifference
<1>4. Val(balance[v]) \in Nat /\ Val(sent) \in Nat /\ Val(claimed) \in Nat
  BY <1>1, AmountFacts
<1> HIDE DEF news
<1>5. Plus(balance[v], news) \in Loose /\ Val(Plus(balance[v], news)) = Val(balance[v]) + Val(news)
  BY <1>1, <1>3, WideIsLoose, PlusIsSum
<1>6. Val(Plus(balance[v], news)) <= MaxWide
  BY <1>3, <1>4, <1>5
<1>7. HasRoom(v, news)
  BY <1>5, <1>6, WideIsBounded DEF HasRoom
<1>8. sent \in past_sent[u][v]
  BY DEF PresentIsProvable
<1> QED BY <1>2, <1>7, <1>8 DEF CanClaim, news

LEMMA SettlementAdmitted ==
    ASSUME WideType, PresentIsProvable, NEW v \in Users,
           Val(burn_settled[v]) < Val(burn_requested[v]),
           Val(burn_requested[v]) - Val(burn_settled[v]) <= Val(total_supply)
    PROVE  CanSettle(Issuer, v, burn_requested[v]) /\ burn_requested[v] \in past_burn[v]
<1> DEFINE requested == burn_requested[v]
           settled == burn_settled[v]
           due == Minus(requested, settled)
<1>1. requested \in Wide /\ settled \in Wide /\ total_supply \in Wide
  BY DEF WideType
<1>2. Less(settled, requested) /\ Leq(settled, requested)
  BY <1>1, WideIsLoose, CompareLoose DEF Leq
<1>3. due \in Wide /\ Val(due) = Val(requested) - Val(settled)
  BY <1>1, <1>2, MinusIsDifference
<1> HIDE DEF due
<1>4. Leq(due, total_supply)
  BY <1>1, <1>3, WideIsLoose, CompareLoose
<1>5. requested \in past_burn[v]
  BY DEF PresentIsProvable
<1> QED BY <1>2, <1>4, <1>5 DEF CanSettle, due

(* THEOREM: no false refusal, in any radix. A payment, a claim or a        *)
(* settlement that the numbers admit passes every comparison and range     *)
(* check on the limbs.                                                     *)
THEOREM NothingIsRefused == Spec => []NothingRefused
<1>1. WideType /\ PresentIsProvable => NothingRefused
  BY TransferAdmitted, ClaimAdmitted, SettlementAdmitted DEF NothingRefused
<1>2. WideType /\ PresentIsProvable /\ [Next]_vars => PresentIsProvable'
  BY NextProvable
<1> QED BY <1>1, <1>2, InitProvable, LimbsStayCanonical, PTL DEF Spec
=============================================================================
