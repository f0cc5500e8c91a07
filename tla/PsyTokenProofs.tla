--------------------------- MODULE PsyTokenProofs ---------------------------
(***************************************************************************)
(* Proofs of PsyTokenProps for any set of users, any slots, any amounts    *)
(* and any size of the field.                                              *)
(***************************************************************************)
EXTENDS PsyTokenProps, Sums

USE UsersAssumption, MaxFeltAssumption, AmountsAssumption DEF Felt

-----------------------------------------------------------------------------
(* Lemmas about the helpers.                                               *)

(* Crediting an outbox leaves a function of the users into the naturals    *)
(* and never lowers an entry.                                              *)
LEMMA CreditGrows ==
    ASSUME NEW box \in [Users -> Nat], NEW r, NEW a \in Nat, a > 0 => r \in Users
    PROVE  /\ Credit(box, r, a) \in [Users -> Nat]
           /\ \A v \in Users : box[v] <= Credit(box, r, a)[v]
    BY DEF Credit

LEMMA BatchOutboxGrows ==
    ASSUME NEW box \in [Users -> Nat], NEW r, NEW a \in [1..5 -> Felt],
           \A i \in 1..5 : a[i] > 0 => r[i] \in Users
    PROVE  /\ BatchOutbox(box, r, a) \in [Users -> Nat]
           /\ \A v \in Users : box[v] <= BatchOutbox(box, r, a)[v]
<1> DEFINE b1 == Credit(box, r[1], a[1])
           b2 == Credit(b1, r[2], a[2])
           b3 == Credit(b2, r[3], a[3])
           b4 == Credit(b3, r[4], a[4])
           b5 == Credit(b4, r[5], a[5])
<1>1. b1 \in [Users -> Nat] /\ \A v \in Users : box[v] <= b1[v]
  BY CreditGrows
<1> HIDE DEF b1
<1>2. b2 \in [Users -> Nat] /\ \A v \in Users : b1[v] <= b2[v]
  BY <1>1, CreditGrows
<1> HIDE DEF b2
<1>3. b3 \in [Users -> Nat] /\ \A v \in Users : b2[v] <= b3[v]
  BY <1>2, CreditGrows
<1> HIDE DEF b3
<1>4. b4 \in [Users -> Nat] /\ \A v \in Users : b3[v] <= b4[v]
  BY <1>3, CreditGrows
<1> HIDE DEF b4
<1>5. b5 \in [Users -> Nat] /\ \A v \in Users : b4[v] <= b5[v]
  BY <1>4, CreditGrows
<1> HIDE DEF b5
<1>6. BatchOutbox(box, r, a) = b5
  BY DEF BatchOutbox, b1, b2, b3, b4, b5
<1>7. ASSUME NEW v \in Users PROVE box[v] <= b5[v]
  <2>1. /\ box[v] \in Nat /\ b1[v] \in Nat /\ b2[v] \in Nat
        /\ b3[v] \in Nat /\ b4[v] \in Nat /\ b5[v] \in Nat
    BY <1>1, <1>2, <1>3, <1>4, <1>5
  <2>2. box[v] <= b1[v] /\ b1[v] <= b2[v] /\ b2[v] <= b3[v] /\ b3[v] <= b4[v] /\ b4[v] <= b5[v]
    BY <1>1, <1>2, <1>3, <1>4, <1>5
  <2> QED BY <2>1, <2>2
<1> QED BY <1>5, <1>6, <1>7

-----------------------------------------------------------------------------
(* Lemmas about the writes of remotely readable entries.                   *)

LEMMA WriteOutboxType ==
    ASSUME TypeOK, NEW u \in Users, NEW box \in [Users -> Felt], WriteOutbox(u, box)
    PROVE  /\ amount_sent' \in [Users -> [Users -> Felt]]
           /\ past_sent' \in [Users -> [Users -> SUBSET Felt]]
<1>1. amount_sent' \in [Users -> [Users -> Felt]]
  BY DEF TypeOK, WriteOutbox
<1>2. [v \in Users |-> past_sent[u][v] \cup {box[v]}] \in [Users -> SUBSET Felt]
  BY DEF TypeOK
<1>3. past_sent' = [past_sent EXCEPT ![u] = [v \in Users |-> past_sent[u][v] \cup {box[v]}]]
  BY DEF WriteOutbox
<1> QED BY <1>1, <1>2, <1>3 DEF TypeOK

LEMMA WriteChannelType ==
    ASSUME TypeOK, NEW o \in Users, NEW c \in Channels, NEW ch \in DelegationChannel,
           WriteChannel(o, c, ch)
    PROVE  /\ delegations' \in [Users -> [Channels -> DelegationChannel]]
           /\ past_delegations' \in [Users -> [Channels -> SUBSET DelegationChannel]]
           /\ delegation_spends' \in [Users -> [Users -> [Channels -> DelegationSpend]]]
           /\ past_spends' \in [Users -> [Users -> [Channels -> SUBSET DelegationSpend]]]
<1>1. [delegations[o] EXCEPT ![c] = ch] \in [Channels -> DelegationChannel]
  BY DEF TypeOK
<1>2. [past_delegations[o] EXCEPT ![c] = @ \cup {ch}] \in [Channels -> SUBSET DelegationChannel]
  BY DEF TypeOK
<1> QED BY <1>1, <1>2 DEF TypeOK, WriteChannel

LEMMA WriteLedgerType ==
    ASSUME TypeOK, NEW s \in Users, NEW o \in Users, NEW c \in Channels,
           NEW l \in DelegationSpend, WriteLedger(s, o, c, l)
    PROVE  /\ delegations' \in [Users -> [Channels -> DelegationChannel]]
           /\ past_delegations' \in [Users -> [Channels -> SUBSET DelegationChannel]]
           /\ delegation_spends' \in [Users -> [Users -> [Channels -> DelegationSpend]]]
           /\ past_spends' \in [Users -> [Users -> [Channels -> SUBSET DelegationSpend]]]
<1>1. [delegation_spends[s][o] EXCEPT ![c] = l] \in [Channels -> DelegationSpend]
  BY DEF TypeOK
<1>2. [past_spends[s][o] EXCEPT ![c] = @ \cup {l}] \in [Channels -> SUBSET DelegationSpend]
  BY DEF TypeOK
<1>3. [delegation_spends[s] EXCEPT ![o][c] = l] \in [Users -> [Channels -> DelegationSpend]]
  BY <1>1 DEF TypeOK
<1>4. [past_spends[s] EXCEPT ![o][c] = @ \cup {l}] \in [Users -> [Channels -> SUBSET DelegationSpend]]
  BY <1>2 DEF TypeOK
<1> QED BY <1>3, <1>4 DEF TypeOK, WriteLedger


(* A batch of two is a batch of five field elements.                       *)
LEMMA Batch2Entries ==
    ASSUME NEW b \in Batches2
    PROVE  <<b.amount[1], b.amount[2], 0, 0, 0>> \in [1..5 -> Felt]
<1>1. b.amount[1] \in Felt /\ b.amount[2] \in Felt
  BY BatchesAssumption DEF Batch
<1> QED BY <1>1

LEMMA Batch5Entries ==
    ASSUME NEW b \in Batches5
    PROVE  b.amount \in [1..5 -> Felt]
    BY BatchesAssumption DEF Batch

(* What a batch does to the caller's partition.                            *)
LEMMA BatchStep ==
    ASSUME TypeOK, NEW u \in Users, NEW r, NEW a \in [1..5 -> Felt], BatchTransfer(u, r, a)
    PROVE  \E box \in [Users -> Felt] :
              /\ WriteOutbox(u, box)
              /\ \A v \in Users : amount_sent[u][v] <= box[v]
              /\ BatchTotal(a) \in 0..balance[u]
<1> DEFINE box == BatchOutbox(amount_sent[u], r, a)
<1>1. amount_sent[u] \in [Users -> Nat]
  BY DEF TypeOK
<1>2. \A i \in 1..5 : a[i] > 0 => r[i] \in Users
  BY DEF BatchTransfer
<1>3. box \in [Users -> Nat] /\ \A v \in Users : amount_sent[u][v] <= box[v]
  BY <1>1, <1>2, BatchOutboxGrows
<1>4. WriteOutbox(u, box) /\ \A v \in Users : box[v] <= MaxFelt
  BY DEF BatchTransfer
<1> HIDE DEF box
<1>5. box \in [Users -> Felt]
  BY <1>3, <1>4
<1>6. BatchTotal(a) \in Nat
  <2>1. a[1] \in Nat /\ a[2] \in Nat /\ a[3] \in Nat /\ a[4] \in Nat /\ a[5] \in Nat
    OBVIOUS
  <2> QED BY <2>1 DEF BatchTotal
<1>7. BatchTotal(a) <= balance[u] /\ balance[u] \in Nat
  BY DEF BatchTransfer, TypeOK
<1> QED BY <1>3, <1>4, <1>5, <1>6, <1>7


-----------------------------------------------------------------------------
(* Type correctness.                                                       *)

LEMMA InitType == Init => TypeOK
    BY DEF Init, TypeOK, NoChannel, NoSpend, DelegationChannel, DelegationSpend,
           Metadata, MaxDecimals, ACTIVE, REVOKE_PENDING, CLOSED

LEMMA BatchType ==
    ASSUME TypeOK, NEW u \in Users, NEW r, NEW a \in [1..5 -> Felt], BatchTransfer(u, r, a)
    PROVE  TypeOK'
<1>1. PICK box \in [Users -> Felt] :
        WriteOutbox(u, box) /\ BatchTotal(a) \in 0..balance[u]
  BY BatchStep
<1>2. amount_sent' \in [Users -> [Users -> Felt]] /\ past_sent' \in [Users -> [Users -> SUBSET Felt]]
  BY <1>1, WriteOutboxType
<1>3. balance' \in [Users -> Felt]
  <2>1. balance[u] \in Felt /\ balance[u] - BatchTotal(a) \in Felt
    BY <1>1 DEF TypeOK
  <2>2. balance' = [balance EXCEPT ![u] = balance[u] - BatchTotal(a)]
    BY DEF BatchTransfer
  <2> QED BY <2>1, <2>2 DEF TypeOK
<1> QED BY <1>2, <1>3 DEF BatchTransfer, TypeOK, adminVars, supplyVars, burnVars, delegVars

LEMMA NextType == TypeOK /\ [Next]_vars => TypeOK'
<1> SUFFICES ASSUME TypeOK, [Next]_vars PROVE TypeOK'
  OBVIOUS
<1> USE DEF adminVars, supplyVars, burnVars, payVars, delegVars
<1>1. CASE UNCHANGED vars
  BY <1>1 DEF vars, TypeOK
<1>2. ASSUME NEW u \in Users, NEW s \in Symbols, NEW d \in Decimals, SetMetadata(u, s, d)
      PROVE  TypeOK'
  <2>1. metadata' = [metadata EXCEPT !.symbol = s, !.decimals = d] /\ d \in 0..MaxDecimals
    BY <1>2 DEF SetMetadata, MaxDecimals
  <2>2. metadata' \in Metadata
    BY <2>1 DEF TypeOK, Metadata
  <2> QED BY <1>2, <2>2 DEF SetMetadata, TypeOK
<1>3. ASSUME NEW u \in Users, NEW s \in Symbols, SetExtendedMetadata(u, s) PROVE TypeOK'
  BY <1>3 DEF SetExtendedMetadata, TypeOK, Metadata
<1>4. ASSUME NEW u \in Users, NEW cap \in Amounts, SetMaxSupply(u, cap) PROVE TypeOK'
  BY <1>4 DEF SetMaxSupply, TypeOK
<1>5. ASSUME NEW u \in Users, NEW v \in Users, SetMintAuthority(u, v) PROVE TypeOK'
  BY <1>5 DEF SetMintAuthority, TypeOK
<1>6. ASSUME NEW u \in Users, RenounceMintAuthority(u) PROVE TypeOK'
  BY <1>6 DEF RenounceMintAuthority, TypeOK
<1>7. ASSUME NEW u \in Users, NEW a \in Amounts, Mint(u, a) PROVE TypeOK'
  BY <1>7 DEF Mint, CanIssue, Issue, TypeOK
<1>8. ASSUME NEW u \in Users, NEW v \in Users, NEW a \in Amounts, MintTo(u, v, a) PROVE TypeOK'
  <2>1. Credit(amount_sent[u], v, a) \in [Users -> Felt]
    BY <1>8 DEF MintTo, Credit, TypeOK
  <2>2. WriteOutbox(u, Credit(amount_sent[u], v, a))
    BY <1>8 DEF MintTo
  <2>3. total_minted' \in Felt /\ total_supply' \in Felt
    BY <1>8 DEF MintTo, CanIssue, Issue, TypeOK
  <2> QED BY <1>8, <2>1, <2>2, <2>3, WriteOutboxType DEF MintTo, TypeOK
<1>9. ASSUME NEW u \in Users, NEW a \in Amounts, Burn(u, a) PROVE TypeOK'
  BY <1>9 DEF Burn, WriteBurnRequest, TypeOK
<1>10. ASSUME NEW u \in Users, NEW v \in Users, SettleBurn(u, v) PROVE TypeOK'
  BY <1>10 DEF SettleBurn, CanSettle, TypeOK
<1>11. ASSUME NEW u \in Users, NEW v \in Users, NEW a \in Amounts, Transfer(u, v, a)
       PROVE  TypeOK'
  <2>1. Credit(amount_sent[u], v, a) \in [Users -> Felt]
    BY <1>11 DEF Transfer, Credit, TypeOK
  <2>2. WriteOutbox(u, Credit(amount_sent[u], v, a))
    BY <1>11 DEF Transfer
  <2>3. balance' \in [Users -> Felt]
    BY <1>11 DEF Transfer, TypeOK
  <2> QED BY <1>11, <2>1, <2>2, <2>3, WriteOutboxType DEF Transfer, TypeOK
<1>12. ASSUME NEW u \in Users, NEW v \in Users, Claim(u, v) PROVE TypeOK'
  <2>1. PICK total \in past_sent[v][u] :
          /\ total > amount_claimed[u][v]
          /\ total - amount_claimed[u][v] <= MaxFelt - balance[u]
          /\ amount_claimed' = [amount_claimed EXCEPT ![u][v] = total]
          /\ balance' = [balance EXCEPT ![u] = @ + (total - amount_claimed[u][v])]
    BY <1>12 DEF Claim, CanClaim, IsNews, ClaimedNow
  <2>2. total \in Felt /\ amount_claimed[u][v] \in Felt /\ balance[u] \in Felt
    BY DEF TypeOK
  <2>3. balance' \in [Users -> Felt]
    BY <2>1, <2>2 DEF TypeOK
  <2>4. amount_claimed' \in [Users -> [Users -> Felt]]
    BY <2>1, <2>2 DEF TypeOK
  <2> QED BY <1>12, <2>3, <2>4 DEF Claim, CanClaim, TypeOK
<1>13. ASSUME NEW u \in Users, NEW v \in Users, CancelUnclaimedPayment(u, v) PROVE TypeOK'
  <2>1. PICK total \in past_sent[v][u] :
          /\ total > amount_claimed[u][v]
          /\ total - amount_claimed[u][v] <= MaxFelt - amount_sent[u][v]
          /\ amount_claimed' = [amount_claimed EXCEPT ![u][v] = total]
          /\ WriteOutbox(u, Credit(amount_sent[u], v, total - amount_claimed[u][v]))
    BY <1>13 DEF CancelUnclaimedPayment
  <2>2. total \in Felt /\ amount_claimed[u][v] \in Felt /\ amount_sent[u][v] \in Felt
    BY DEF TypeOK
  <2>3. Credit(amount_sent[u], v, total - amount_claimed[u][v]) \in [Users -> Felt]
    BY <2>1, <2>2 DEF Credit, TypeOK
  <2>4. amount_claimed' \in [Users -> [Users -> Felt]]
    BY <2>1, <2>2 DEF TypeOK
  <2> QED BY <1>13, <2>1, <2>3, <2>4, WriteOutboxType DEF CancelUnclaimedPayment, TypeOK
<1>14. ASSUME NEW u \in Users, NEW v \in Users, NEW a \in Amounts, RefundClaimedPayment(u, v, a)
       PROVE  TypeOK'
  <2>1. Credit(amount_sent[u], v, a) \in [Users -> Felt]
    BY <1>14 DEF RefundClaimedPayment, Credit, TypeOK
  <2>2. WriteOutbox(u, Credit(amount_sent[u], v, a))
    BY <1>14 DEF RefundClaimedPayment
  <2>3. balance' \in [Users -> Felt]
    BY <1>14 DEF RefundClaimedPayment, TypeOK
  <2> QED BY <1>14, <2>1, <2>2, <2>3, WriteOutboxType DEF RefundClaimedPayment, TypeOK
<1>15. ASSUME NEW u \in Users, NEW b \in Batches2, BatchTransfer2(u, b) PROVE TypeOK'
  BY <1>15, Batch2Entries, BatchType DEF BatchTransfer2
<1>16. ASSUME NEW u \in Users, NEW b \in Batches5, BatchTransfer5(u, b) PROVE TypeOK'
  BY <1>16, Batch5Entries, BatchType DEF BatchTransfer5
<1>17. ASSUME NEW u \in Users, NEW c \in Channels, NEW v \in Users, NEW a \in Amounts,
              OpenDelegationChannel(u, c, v, a)
       PROVE  TypeOK'
  <2> DEFINE ch == [spender |-> v, allocated_amount |-> a,
                    channel_version |-> NextVersion(delegations[u][c]), status |-> ACTIVE]
  <2>1. ch \in DelegationChannel
    <3>1. PICK now \in DelegationChannel : now = delegations[u][c]
      BY DEF TypeOK
    <3>2. now.channel_version < MaxFelt
      BY <1>17, <3>1 DEF OpenDelegationChannel
    <3>3. now.channel_version + 1 \in Felt /\ a \in Felt
      BY <3>2 DEF DelegationChannel
    <3> QED BY <3>1, <3>3 DEF NextVersion, DelegationChannel, ACTIVE
  <2>2. WriteChannel(u, c, ch)
    BY <1>17 DEF OpenDelegationChannel
  <2> HIDE DEF ch
  <2>3. balance' \in [Users -> Felt]
    BY <1>17 DEF OpenDelegationChannel, TypeOK
  <2> QED BY <1>17, <2>1, <2>2, <2>3, WriteChannelType DEF OpenDelegationChannel, TypeOK
<1>18. ASSUME NEW u \in Users, NEW c \in Channels, NEW v \in Users, NEW a \in Amounts,
              NEW r \in Users, SpendDelegation(u, v, c, a, r)
       PROVE  TypeOK'
  <2>1. PICK ch \in past_delegations[v][c] :
          LET ledger == delegation_spends[u][v][c]
              spent == LedgerFor(ledger, ch.channel_version)
          IN /\ Allowed(ch, spent, a)
             /\ a <= MaxFelt - amount_sent[u][r]
             /\ WriteLedger(u, v, c, [spent |-> spent + a, closed |-> 0,
                                      channel_version |-> ch.channel_version])
    BY <1>18 DEF SpendDelegation
  <2> DEFINE l == [spent |-> LedgerFor(delegation_spends[u][v][c], ch.channel_version) + a,
                   closed |-> 0, channel_version |-> ch.channel_version]
  <2>2. l \in DelegationSpend
    <3>1. ch \in DelegationChannel /\ delegation_spends[u][v][c] \in DelegationSpend
      BY DEF TypeOK
    <3> QED BY <2>1, <3>1 DEF DelegationChannel, DelegationSpend, LedgerFor, Allowed
  <2>3. WriteLedger(u, v, c, l)
    BY <2>1
  <2> HIDE DEF l
  <2>4. Credit(amount_sent[u], r, a) \in [Users -> Felt]
    BY <2>1 DEF Credit, TypeOK
  <2>5. WriteOutbox(u, Credit(amount_sent[u], r, a))
    BY <1>18 DEF SpendDelegation
  <2> QED BY <1>18, <2>2, <2>3, <2>4, <2>5, WriteLedgerType, WriteOutboxType
             DEF SpendDelegation, TypeOK
<1>19. ASSUME NEW u \in Users, NEW c \in Channels, RequestRevokeDelegation(u, c) PROVE TypeOK'
  <2> DEFINE ch == [delegations[u][c] EXCEPT !.status = REVOKE_PENDING]
  <2>1. ch \in DelegationChannel
    <3>1. delegations[u][c] \in DelegationChannel
      BY DEF TypeOK
    <3> QED BY <3>1 DEF DelegationChannel, REVOKE_PENDING
  <2>2. WriteChannel(u, c, ch)
    BY <1>19 DEF RequestRevokeDelegation
  <2> HIDE DEF ch
  <2> QED BY <1>19, <2>1, <2>2, WriteChannelType DEF RequestRevokeDelegation, TypeOK
<1>20. ASSUME NEW u \in Users, NEW c \in Channels, NEW v \in Users, CloseDelegationChannel(u, v, c)
       PROVE  TypeOK'
  <2>1. PICK ch \in past_delegations[v][c] :
          WriteLedger(u, v, c, [spent |-> LedgerFor(delegation_spends[u][v][c], ch.channel_version),
                                closed |-> 1, channel_version |-> ch.channel_version])
    BY <1>20 DEF CloseDelegationChannel, CanClose
  <2> DEFINE l == [spent |-> LedgerFor(delegation_spends[u][v][c], ch.channel_version),
                   closed |-> 1, channel_version |-> ch.channel_version]
  <2>2. l \in DelegationSpend
    <3>1. ch \in DelegationChannel /\ delegation_spends[u][v][c] \in DelegationSpend
      BY DEF TypeOK
    <3> QED BY <3>1 DEF DelegationChannel, DelegationSpend, LedgerFor
  <2>3. WriteLedger(u, v, c, l)
    BY <2>1
  <2> HIDE DEF l
  <2> QED BY <1>20, <2>2, <2>3, WriteLedgerType DEF CloseDelegationChannel, CanClose, TypeOK
<1>21. ASSUME NEW u \in Users, NEW c \in Channels, NEW v \in Users, FinalizeRevokeDelegation(u, c, v)
       PROVE  TypeOK'
  <2> DEFINE ch == [spender |-> NoUser, allocated_amount |-> 0,
                    channel_version |-> delegations[u][c].channel_version, status |-> CLOSED]
  <2>1. ch \in DelegationChannel
    BY DEF TypeOK, DelegationChannel
  <2>2. WriteChannel(u, c, ch)
    BY <1>21 DEF FinalizeRevokeDelegation, CanFinalize
  <2> HIDE DEF ch
  <2>3. balance' \in [Users -> Felt]
    <3>1. PICK l \in past_spends[v][u][c] :
            /\ l.spent <= delegations[u][c].allocated_amount
            /\ delegations[u][c].allocated_amount - l.spent <= MaxFelt - balance[u]
            /\ balance' = [balance EXCEPT ![u] = @ + (delegations[u][c].allocated_amount - l.spent)]
      BY <1>21 DEF FinalizeRevokeDelegation, CanFinalize
    <3>2. l \in DelegationSpend /\ delegations[u][c] \in DelegationChannel /\ balance[u] \in Felt
      BY DEF TypeOK
    <3>3. balance[u] + (delegations[u][c].allocated_amount - l.spent) \in Felt
      BY <3>1, <3>2 DEF DelegationSpend, DelegationChannel
    <3> QED BY <3>1, <3>3 DEF TypeOK
  <2> QED BY <1>21, <2>1, <2>2, <2>3, WriteChannelType DEF FinalizeRevokeDelegation, CanFinalize, TypeOK
<1> QED
  BY <1>1, <1>2, <1>3, <1>4, <1>5, <1>6, <1>7, <1>8, <1>9, <1>10, <1>11, <1>12, <1>13, <1>14,
     <1>15, <1>16, <1>17, <1>18, <1>19, <1>20, <1>21
  DEF Next, Admin, Supply, Payment, Delegation

(* Every balance, counter and supply figure of every partition stays a     *)
(* field element, so no guard ever compares a value that has wrapped.      *)
THEOREM TypeCorrect == Spec => []TypeOK
    BY InitType, NextType, PTL DEF Spec

-----------------------------------------------------------------------------
(* What each group of calls leaves alone.                                  *)

LEMMA AdminFrame ==
    ASSUME NEW u, Admin(u)
    PROVE  UNCHANGED <<balance, supplyVars, burnVars, payVars, delegVars>>
    BY DEF Admin, SetMetadata, SetExtendedMetadata, SetMaxSupply, SetMintAuthority,
           RenounceMintAuthority

LEMMA SupplyFrame ==
    ASSUME NEW u, Supply(u)
    PROVE  UNCHANGED <<adminVars, delegVars>>
    BY DEF Supply, Mint, MintTo, Burn, SettleBurn, CanSettle

LEMMA PaymentFrame ==
    ASSUME NEW u, Payment(u)
    PROVE  UNCHANGED <<adminVars, supplyVars, burnVars, delegVars>>
    BY DEF Payment, Transfer, Claim, CanClaim, CancelUnclaimedPayment, RefundClaimedPayment,
           BatchTransfer2, BatchTransfer5, BatchTransfer

LEMMA DelegationFrame ==
    ASSUME NEW u, Delegation(u)
    PROVE  UNCHANGED <<adminVars, supplyVars, burnVars>>
<1>1. PICK c \in Channels, v \in Users :
        \/ \E a \in Amounts : OpenDelegationChannel(u, c, v, a)
        \/ \E a \in Amounts, r \in Users : SpendDelegation(u, v, c, a, r)
        \/ RequestRevokeDelegation(u, c)
        \/ CloseDelegationChannel(u, v, c)
        \/ FinalizeRevokeDelegation(u, c, v)
  BY DEF Delegation
<1>2. CASE \E a \in Amounts : OpenDelegationChannel(u, c, v, a)
  BY <1>2 DEF OpenDelegationChannel
<1>3. CASE \E a \in Amounts, r \in Users : SpendDelegation(u, v, c, a, r)
  BY <1>3 DEF SpendDelegation
<1>4. CASE RequestRevokeDelegation(u, c)
  BY <1>4 DEF RequestRevokeDelegation
<1>5. CASE CloseDelegationChannel(u, v, c)
  BY <1>5 DEF CloseDelegationChannel, CanClose
<1>6. CASE FinalizeRevokeDelegation(u, c, v)
  BY <1>6 DEF FinalizeRevokeDelegation, CanFinalize
<1> QED BY <1>1, <1>2, <1>3, <1>4, <1>5, <1>6

-----------------------------------------------------------------------------
(* What any step does to the counters that claims and burns compare.       *)

OutboxesGrow ==
    \A u, v \in Users :
        /\ amount_sent[u][v] <= amount_sent'[u][v]
        /\ past_sent'[u][v] \subseteq past_sent[u][v] \cup {amount_sent'[u][v]}

ClaimsCatchUp ==
    \A u, v \in Users :
        \/ amount_claimed'[v][u] = amount_claimed[v][u]
        \/ /\ amount_claimed'[v][u] \in past_sent[u][v]
           /\ amount_claimed[v][u] <= amount_claimed'[v][u]

BurnsGrow ==
    \A u \in Users :
        /\ burn_requested[u] <= burn_requested'[u]
        /\ past_burn'[u] \subseteq past_burn[u] \cup {burn_requested'[u]}
        /\ \/ burn_settled'[u] = burn_settled[u]
           \/ /\ burn_settled'[u] \in past_burn[u]
              /\ burn_settled[u] <= burn_settled'[u]

LEMMA WriteOutboxGrows ==
    ASSUME TypeOK, NEW u \in Users, NEW box \in [Users -> Felt], WriteOutbox(u, box),
           \A v \in Users : amount_sent[u][v] <= box[v]
    PROVE  OutboxesGrow
<1> SUFFICES ASSUME NEW w \in Users, NEW v \in Users
             PROVE  /\ amount_sent[w][v] <= amount_sent'[w][v]
                    /\ past_sent'[w][v] \subseteq past_sent[w][v] \cup {amount_sent'[w][v]}
  BY DEF OutboxesGrow
<1> DEFINE past == [x \in Users |-> past_sent[u][x] \cup {box[x]}]
<1>1. amount_sent' = [amount_sent EXCEPT ![u] = box] /\ past_sent' = [past_sent EXCEPT ![u] = past]
  BY DEF WriteOutbox
<1>2. amount_sent[w][v] \in Felt
  BY DEF TypeOK
<1>3. CASE w = u
  <2>1. amount_sent'[w] = box /\ past_sent'[w] = past
    BY <1>1, <1>3 DEF TypeOK
  <2>2. past[v] = past_sent[w][v] \cup {box[v]}
    BY <1>3
  <2> HIDE DEF past
  <2> QED BY <1>3, <2>1, <2>2
<1>4. CASE w # u
  BY <1>1, <1>2, <1>4 DEF TypeOK
<1> QED BY <1>3, <1>4

LEMMA CreditOutboxGrows ==
    ASSUME TypeOK, NEW u \in Users, NEW r \in Users, NEW a \in Felt,
           a <= MaxFelt - amount_sent[u][r],
           WriteOutbox(u, Credit(amount_sent[u], r, a))
    PROVE  OutboxesGrow
<1>1. amount_sent[u] \in [Users -> Felt]
  BY DEF TypeOK
<1>2. Credit(amount_sent[u], r, a) \in [Users -> Felt]
  BY <1>1 DEF Credit
<1>3. \A v \in Users : amount_sent[u][v] <= Credit(amount_sent[u], r, a)[v]
  BY <1>1 DEF Credit
<1> QED BY <1>2, <1>3, WriteOutboxGrows

(* The steps that leave every outbox, inbox and burn counter alone.        *)
LEMMA CountersUnchanged ==
    ASSUME TypeOK, UNCHANGED payVars
    PROVE  OutboxesGrow /\ ClaimsCatchUp
    BY DEF payVars, OutboxesGrow, ClaimsCatchUp, TypeOK

LEMMA BurnsUnchanged ==
    ASSUME TypeOK, UNCHANGED burnVars
    PROVE  BurnsGrow
    BY DEF burnVars, BurnsGrow, TypeOK

LEMMA ClaimsUnchanged ==
    ASSUME TypeOK, UNCHANGED amount_claimed
    PROVE  ClaimsCatchUp
    BY DEF ClaimsCatchUp

LEMMA BatchGrows ==
    ASSUME TypeOK, NEW u \in Users, NEW r, NEW a \in [1..5 -> Felt], BatchTransfer(u, r, a)
    PROVE  OutboxesGrow /\ ClaimsCatchUp /\ BurnsGrow
<1>1. OutboxesGrow
  BY BatchStep, WriteOutboxGrows
<1>2. ClaimsCatchUp /\ BurnsGrow
  BY ClaimsUnchanged, BurnsUnchanged DEF BatchTransfer, burnVars
<1> QED BY <1>1, <1>2

(* Every step only raises the counters, records only their new values, and *)
(* claims or settles only up to a value recorded before.                   *)
LEMMA NextCounters ==
    TypeOK /\ [Next]_vars => OutboxesGrow /\ ClaimsCatchUp /\ BurnsGrow
<1> SUFFICES ASSUME TypeOK, [Next]_vars PROVE OutboxesGrow /\ ClaimsCatchUp /\ BurnsGrow
  OBVIOUS
<1> DEFINE Goal == OutboxesGrow /\ ClaimsCatchUp /\ BurnsGrow
<1>1. CASE UNCHANGED vars
  BY <1>1, CountersUnchanged, BurnsUnchanged DEF vars
<1>2. ASSUME NEW u \in Users, Admin(u) PROVE Goal
  BY <1>2, AdminFrame, CountersUnchanged, BurnsUnchanged
<1>3. ASSUME NEW u \in Users, NEW a \in Amounts, Mint(u, a) PROVE Goal
  BY <1>3, CountersUnchanged, BurnsUnchanged DEF Mint
<1>4. ASSUME NEW u \in Users, NEW v \in Users, NEW a \in Amounts, MintTo(u, v, a) PROVE Goal
  BY <1>4, CreditOutboxGrows, ClaimsUnchanged, BurnsUnchanged DEF MintTo
<1>5. ASSUME NEW u \in Users, NEW a \in Amounts, Burn(u, a) PROVE Goal
  <2>1. OutboxesGrow /\ ClaimsCatchUp
    BY <1>5, CountersUnchanged DEF Burn
  <2>2. BurnsGrow
    BY <1>5 DEF Burn, WriteBurnRequest, BurnsGrow, TypeOK
  <2> QED BY <2>1, <2>2
<1>6. ASSUME NEW u \in Users, NEW v \in Users, SettleBurn(u, v) PROVE Goal
  <2>1. OutboxesGrow /\ ClaimsCatchUp
    BY <1>6, CountersUnchanged DEF SettleBurn, CanSettle
  <2>2. BurnsGrow
    BY <1>6 DEF SettleBurn, CanSettle, BurnsGrow, TypeOK
  <2> QED BY <2>1, <2>2
<1>7. ASSUME NEW u \in Users, NEW v \in Users, NEW a \in Amounts, Transfer(u, v, a) PROVE Goal
  BY <1>7, CreditOutboxGrows, ClaimsUnchanged, BurnsUnchanged DEF Transfer
<1>8. ASSUME NEW u \in Users, NEW v \in Users, Claim(u, v) PROVE Goal
  <2>1. OutboxesGrow /\ BurnsGrow
    BY <1>8, BurnsUnchanged DEF Claim, CanClaim, OutboxesGrow, TypeOK
  <2>2. PICK total \in past_sent[v][u] :
          /\ total > amount_claimed[u][v]
          /\ amount_claimed' = [amount_claimed EXCEPT ![u][v] = total]
    BY <1>8 DEF Claim, CanClaim, IsNews, ClaimedNow
  <2>3. ClaimsCatchUp
    BY <2>2 DEF ClaimsCatchUp, TypeOK
  <2> QED BY <2>1, <2>3
<1>9. ASSUME NEW u \in Users, NEW v \in Users, CancelUnclaimedPayment(u, v) PROVE Goal
  <2>1. PICK total \in past_sent[v][u] :
          /\ total > amount_claimed[u][v]
          /\ total - amount_claimed[u][v] <= MaxFelt - amount_sent[u][v]
          /\ amount_claimed' = [amount_claimed EXCEPT ![u][v] = total]
          /\ WriteOutbox(u, Credit(amount_sent[u], v, total - amount_claimed[u][v]))
    BY <1>9 DEF CancelUnclaimedPayment
  <2>2. total - amount_claimed[u][v] \in Felt
    BY <2>1 DEF TypeOK
  <2>3. OutboxesGrow
    BY <1>9, <2>1, <2>2, CreditOutboxGrows DEF CancelUnclaimedPayment
  <2>4. ClaimsCatchUp
    BY <2>1 DEF ClaimsCatchUp, TypeOK
  <2>5. BurnsGrow
    BY <1>9, BurnsUnchanged DEF CancelUnclaimedPayment
  <2> QED BY <2>3, <2>4, <2>5
<1>10. ASSUME NEW u \in Users, NEW v \in Users, NEW a \in Amounts, RefundClaimedPayment(u, v, a)
       PROVE  Goal
  <2>1. a <= MaxFelt - amount_sent[u][v]
    BY <1>10 DEF RefundClaimedPayment, TypeOK
  <2> QED BY <1>10, <2>1, CreditOutboxGrows, ClaimsUnchanged, BurnsUnchanged
             DEF RefundClaimedPayment
<1>11. ASSUME NEW u \in Users, NEW b \in Batches2, BatchTransfer2(u, b) PROVE Goal
  BY <1>11, Batch2Entries, BatchGrows DEF BatchTransfer2
<1>12. ASSUME NEW u \in Users, NEW b \in Batches5, BatchTransfer5(u, b) PROVE Goal
  BY <1>12, Batch5Entries, BatchGrows DEF BatchTransfer5
<1>13. ASSUME NEW u \in Users, NEW c \in Channels, NEW v \in Users, NEW a \in Amounts,
              OpenDelegationChannel(u, c, v, a)
       PROVE  Goal
  BY <1>13, CountersUnchanged, BurnsUnchanged DEF OpenDelegationChannel
<1>14. ASSUME NEW u \in Users, NEW c \in Channels, NEW v \in Users, NEW a \in Amounts,
              NEW r \in Users, SpendDelegation(u, v, c, a, r)
       PROVE  Goal
  BY <1>14, CreditOutboxGrows, ClaimsUnchanged, BurnsUnchanged DEF SpendDelegation
<1>15. ASSUME NEW u \in Users, NEW c \in Channels, NEW v \in Users,
              \/ RequestRevokeDelegation(u, c)
              \/ CloseDelegationChannel(u, v, c)
              \/ FinalizeRevokeDelegation(u, c, v)
       PROVE  Goal
  <2>1. UNCHANGED payVars /\ UNCHANGED burnVars
    BY <1>15 DEF RequestRevokeDelegation, CloseDelegationChannel, CanClose, FinalizeRevokeDelegation, CanFinalize
  <2> QED BY <2>1, CountersUnchanged, BurnsUnchanged
<1> QED
  BY <1>1, <1>2, <1>3, <1>4, <1>5, <1>6, <1>7, <1>8, <1>9, <1>10, <1>11, <1>12, <1>13, <1>14,
     <1>15
  DEF Next, Supply, Payment, Delegation

LEMMA InitCounters == Init => CounterInv
    BY DEF Init, CounterInv, OldCountersBehind, ClaimedWithinSent, SettledWithinRequested

LEMMA CountersStep ==
    ASSUME TypeOK, TypeOK', CounterInv, OutboxesGrow, ClaimsCatchUp, BurnsGrow
    PROVE  CounterInv'
<1>1. ASSUME NEW u \in Users, NEW v \in Users, NEW total \in past_sent'[u][v]
      PROVE  total <= amount_sent'[u][v]
  <2>1. amount_sent[u][v] \in Felt /\ amount_sent'[u][v] \in Felt /\ total \in Felt
    BY DEF TypeOK
  <2>2. CASE total \in past_sent[u][v]
    <3>1. total <= amount_sent[u][v] /\ amount_sent[u][v] <= amount_sent'[u][v]
      BY <2>2 DEF CounterInv, OldCountersBehind, OutboxesGrow
    <3> QED BY <2>1, <3>1
  <2>3. CASE total = amount_sent'[u][v]
    BY <2>1, <2>3
  <2> QED BY <2>2, <2>3 DEF OutboxesGrow
<1>2. ASSUME NEW u \in Users, NEW total \in past_burn'[u]
      PROVE  total <= burn_requested'[u]
  <2>1. burn_requested[u] \in Felt /\ burn_requested'[u] \in Felt /\ total \in Felt
    BY DEF TypeOK
  <2>2. CASE total \in past_burn[u]
    <3>1. total <= burn_requested[u] /\ burn_requested[u] <= burn_requested'[u]
      BY <2>2 DEF CounterInv, OldCountersBehind, BurnsGrow
    <3> QED BY <2>1, <3>1
  <2>3. CASE total = burn_requested'[u]
    BY <2>1, <2>3
  <2> QED BY <2>2, <2>3 DEF BurnsGrow
<1>3. ASSUME NEW u \in Users, NEW v \in Users
      PROVE  amount_claimed'[v][u] <= amount_sent'[u][v]
  <2>1. amount_claimed'[v][u] <= amount_sent[u][v]
    BY DEF CounterInv, OldCountersBehind, ClaimedWithinSent, ClaimsCatchUp
  <2>2. amount_sent[u][v] <= amount_sent'[u][v]
    BY DEF OutboxesGrow
  <2> QED BY <2>1, <2>2 DEF TypeOK
<1>4. ASSUME NEW u \in Users PROVE burn_settled'[u] <= burn_requested'[u]
  <2>1. burn_settled'[u] <= burn_requested[u]
    BY DEF CounterInv, OldCountersBehind, SettledWithinRequested, BurnsGrow
  <2>2. burn_requested[u] <= burn_requested'[u]
    BY DEF BurnsGrow
  <2> QED BY <2>1, <2>2 DEF TypeOK
<1> QED
  BY <1>1, <1>2, <1>3, <1>4
  DEF CounterInv, OldCountersBehind, ClaimedWithinSent, SettledWithinRequested

LEMMA NextCounterInv == TypeOK /\ CounterInv /\ [Next]_vars => CounterInv'
    BY NextType, NextCounters, CountersStep

LEMMA CountersCorrect == Spec => []CounterInv
    BY InitCounters, NextCounterInv, TypeCorrect, PTL DEF Spec

(* Whatever old outbox a claim, a cancellation or a refund is proved        *)
(* against, receivers never take more than their senders have sent.        *)
THEOREM OutboxSafety == Spec => []ClaimedWithinSent
    BY CountersCorrect, PTL DEF CounterInv

(* Whatever old counter the issuer settles against, no burn is settled     *)
(* that its holder has not requested.                                      *)
THEOREM BurnSafety == Spec => []SettledWithinRequested
    BY CountersCorrect, PTL DEF CounterInv

-----------------------------------------------------------------------------
(* The supply: only Mint, MintTo and SettleBurn touch it.                  *)

LEMMA SupplyUnchanged ==
    ASSUME SupplyCap, UNCHANGED <<adminVars, supplyVars>>
    PROVE  SupplyCap'
    BY DEF SupplyCap, adminVars, supplyVars

LEMMA IssueKeepsCap ==
    ASSUME TypeOK, SupplyCap, NEW u, NEW a \in Amounts, CanIssue(u, a), Issue(a),
           UNCHANGED adminVars
    PROVE  SupplyCap'
<1>1. max_supply' = max_supply /\ max_supply \in Felt /\ total_minted \in Felt /\ total_supply \in Felt
  BY DEF adminVars, TypeOK
<1>2. total_minted' = total_minted + a /\ total_supply' = total_supply + a
  BY DEF Issue
<1>3. max_supply # 0 => a <= max_supply - total_minted
  BY <1>1 DEF CanIssue, UnderCap, FSub, SupplyCap
<1> QED BY <1>1, <1>2, <1>3 DEF SupplyCap

LEMMA NextSupply == TypeOK /\ SupplyCap /\ [Next]_vars => SupplyCap'
<1> SUFFICES ASSUME TypeOK, SupplyCap, [Next]_vars PROVE SupplyCap'
  OBVIOUS
<1>1. CASE UNCHANGED vars
  BY <1>1, SupplyUnchanged DEF vars
<1>2. ASSUME NEW u \in Users, NEW cap \in Amounts, SetMaxSupply(u, cap) PROVE SupplyCap'
  BY <1>2 DEF SetMaxSupply, SupplyCap, TypeOK, supplyVars
<1>3. ASSUME NEW u \in Users, Admin(u), max_supply' = max_supply PROVE SupplyCap'
  BY <1>3, AdminFrame DEF SupplyCap, supplyVars
<1>4. ASSUME NEW u \in Users, NEW a \in Amounts, Mint(u, a) PROVE SupplyCap'
  BY <1>4, IssueKeepsCap DEF Mint
<1>5. ASSUME NEW u \in Users, NEW v \in Users, NEW a \in Amounts, MintTo(u, v, a) PROVE SupplyCap'
  BY <1>5, IssueKeepsCap DEF MintTo
<1>6. ASSUME NEW u \in Users, NEW a \in Amounts, Burn(u, a) PROVE SupplyCap'
  BY <1>6, SupplyUnchanged DEF Burn
<1>7. ASSUME NEW u \in Users, NEW v \in Users, SettleBurn(u, v) PROVE SupplyCap'
  BY <1>7 DEF SettleBurn, CanSettle, SupplyCap, TypeOK, adminVars
<1>8. ASSUME NEW u \in Users, Payment(u) PROVE SupplyCap'
  BY <1>8, PaymentFrame, SupplyUnchanged
<1>9. ASSUME NEW u \in Users, Delegation(u) PROVE SupplyCap'
  BY <1>9, DelegationFrame, SupplyUnchanged
<1>10. ASSUME NEW u \in Users, Admin(u), max_supply' # max_supply PROVE SupplyCap'
  <2>1. \E cap \in Amounts : SetMaxSupply(u, cap)
    BY <1>10 DEF Admin, SetMetadata, SetExtendedMetadata, SetMintAuthority, RenounceMintAuthority
  <2> QED BY <1>2, <2>1
<1> QED
  BY <1>1, <1>3, <1>4, <1>5, <1>6, <1>7, <1>8, <1>9, <1>10 DEF Next, Supply

(* mint and mint_to together never pass the lifetime cap, and the supply   *)
(* never passes the issuance, in any order of calls and any old settlement. *)
THEOREM SupplySafety == Spec => []SupplyCap
<1>1. Init => SupplyCap
  BY DEF Init, SupplyCap
<1> QED BY <1>1, NextSupply, TypeCorrect, PTL DEF Spec

(* Once renounced, the administrative fields and the issuance are frozen.  *)
THEOREM RenunciationIsFinal == Spec => RenouncedIsFinal
<1>1. ASSUME [Next]_vars, is_mint_renounced = 1, mint_authority = NoUser
      PROVE  UNCHANGED <<adminVars, total_minted>>
  <2>1. CASE UNCHANGED vars
    BY <2>1 DEF vars, supplyVars
  <2>2. ASSUME NEW u \in Users, Admin(u) PROVE FALSE
    BY <1>1, <2>2 DEF Admin, SetMetadata, SetExtendedMetadata, SetMaxSupply, SetMintAuthority,
                      RenounceMintAuthority
  <2>3. ASSUME NEW u \in Users, Supply(u) PROVE UNCHANGED <<adminVars, total_minted>>
    BY <1>1, <2>3 DEF Supply, Mint, MintTo, Burn, SettleBurn, CanSettle, CanIssue, supplyVars
  <2>4. ASSUME NEW u \in Users, Payment(u) \/ Delegation(u)
        PROVE  UNCHANGED <<adminVars, total_minted>>
    BY <2>4, PaymentFrame, DelegationFrame DEF supplyVars
  <2> QED BY <1>1, <2>1, <2>2, <2>3, <2>4 DEF Next
<1> DEFINE Off == is_mint_renounced = 1 => mint_authority = NoUser
<1>2. Init => Off
  BY DEF Init
<1>3. ASSUME TypeOK, Off, [Next]_vars PROVE Off'
  <2>1. CASE is_mint_renounced = 1
    <3>1. UNCHANGED adminVars
      BY <1>1, <1>3, <2>1
    <3> QED BY <1>3, <3>1 DEF adminVars
  <2>2. CASE is_mint_renounced # 1
    <3>1. CASE UNCHANGED vars
      BY <2>2, <3>1 DEF vars, adminVars
    <3>2. ASSUME NEW u \in Users, Admin(u) PROVE Off'
      BY <2>2, <3>2 DEF Admin, SetMetadata, SetExtendedMetadata, SetMaxSupply, SetMintAuthority,
                        RenounceMintAuthority
    <3>3. ASSUME NEW u \in Users, Supply(u) \/ Payment(u) \/ Delegation(u) PROVE Off'
      <4>1. UNCHANGED adminVars
        BY <3>3, SupplyFrame, PaymentFrame, DelegationFrame
      <4> QED BY <2>2, <4>1 DEF adminVars
    <3> QED BY <1>3, <3>1, <3>2, <3>3 DEF Next
  <2> QED BY <2>1, <2>2
<1>4. Off /\ [Next]_vars => [is_mint_renounced = 1 => UNCHANGED <<adminVars, total_minted>>]_vars
  BY <1>1
<1> QED BY <1>2, <1>3, <1>4, TypeCorrect, PTL DEF Spec, RenouncedIsFinal

-----------------------------------------------------------------------------
(* Delegation slots: the entries a call writes, entry by entry.            *)

LEMMA ChannelWrite ==
    ASSUME TypeOK, NEW o \in Users, NEW c \in Channels, NEW ch, WriteChannel(o, c, ch)
    PROVE  /\ UNCHANGED <<delegation_spends, past_spends>>
           /\ delegations'[o][c] = ch
           /\ past_delegations'[o][c] = past_delegations[o][c] \cup {ch}
           /\ \A p \in Users, d \in Channels : p # o \/ d # c =>
                /\ delegations'[p][d] = delegations[p][d]
                /\ past_delegations'[p][d] = past_delegations[p][d]
    BY DEF WriteChannel, TypeOK

LEMMA LedgerWritten ==
    ASSUME TypeOK, NEW s \in Users, NEW o \in Users, NEW c \in Channels, NEW l,
           WriteLedger(s, o, c, l)
    PROVE  /\ UNCHANGED <<delegations, past_delegations>>
           /\ delegation_spends'[s][o][c] = l
           /\ past_spends'[s][o][c] = past_spends[s][o][c] \cup {l}
<1>1. UNCHANGED <<delegations, past_delegations>>
  BY DEF WriteLedger
<1>2. delegation_spends'[s][o][c] = l
  BY DEF WriteLedger, TypeOK
<1>3. past_spends'[s][o][c] = past_spends[s][o][c] \cup {l}
  BY DEF WriteLedger, TypeOK
<1> QED BY <1>1, <1>2, <1>3

LEMMA OtherLedgersKept ==
    ASSUME TypeOK, NEW s \in Users, NEW o \in Users, NEW c \in Channels, NEW l,
           WriteLedger(s, o, c, l),
           NEW t \in Users, NEW p \in Users, NEW d \in Channels, t # s \/ p # o \/ d # c
    PROVE  /\ delegation_spends'[t][p][d] = delegation_spends[t][p][d]
           /\ past_spends'[t][p][d] = past_spends[t][p][d]
<1>1. delegation_spends'[t][p][d] = delegation_spends[t][p][d]
  BY DEF WriteLedger, TypeOK
<1>2. past_spends'[t][p][d] = past_spends[t][p][d]
  BY DEF WriteLedger, TypeOK
<1> QED BY <1>1, <1>2

LEMMA SlotTypes ==
    ASSUME TypeOK, NEW o \in Users, NEW c \in Channels
    PROVE  /\ delegations[o][c].spender \in Users \cup {NoUser}
           /\ delegations[o][c].allocated_amount \in Felt
           /\ delegations[o][c].channel_version \in Felt
           /\ \A ch \in past_delegations[o][c] :
                ch.allocated_amount \in Felt /\ ch.channel_version \in Felt
           /\ \A s \in Users :
                /\ delegation_spends[s][o][c].spent \in Felt
                /\ delegation_spends[s][o][c].closed \in {0, 1}
                /\ delegation_spends[s][o][c].channel_version \in Felt
                /\ \A l \in past_spends[s][o][c] :
                     l.spent \in Felt /\ l.closed \in {0, 1} /\ l.channel_version \in Felt
<1>1. delegations[o][c] \in DelegationChannel /\ past_delegations[o][c] \in SUBSET DelegationChannel
  BY DEF TypeOK
<1>2. ASSUME NEW s \in Users
      PROVE  /\ delegation_spends[s][o][c] \in DelegationSpend
             /\ past_spends[s][o][c] \in SUBSET DelegationSpend
  BY DEF TypeOK
<1> QED BY <1>1, <1>2 DEF DelegationChannel, DelegationSpend

(* A proof of an open slot that the spender's ledger still admits shows the *)
(* slot as it is now: an old authorization has no other use.               *)
LEMMA UsableProofIsCurrent ==
    ASSUME TypeOK, SlotInv, NEW o \in Users, NEW c \in Channels,
           NEW ch \in past_delegations[o][c],
           ch.status \in {ACTIVE, REVOKE_PENDING},
           LedgerAdmits(delegation_spends[ch.spender][o][c], ch.channel_version)
    PROVE  /\ Escrowed(o, c)
           /\ ch.spender \in Users \ {o}
           /\ ch.channel_version > 0
           /\ ch.channel_version = delegations[o][c].channel_version
           /\ ch.spender = delegations[o][c].spender
           /\ ch.allocated_amount = delegations[o][c].allocated_amount
<1>1. ch.spender \in Users /\ ch.channel_version > 0
  BY DEF SlotInv, OldSlotsSuperseded
<1>2. ~Superseded(delegation_spends[ch.spender][o][c], ch.channel_version)
  BY <1>1, SlotTypes DEF LedgerAdmits, Superseded
<1> QED BY <1>1, <1>2 DEF SlotInv, OldSlotsSuperseded, SlotsWellFormed

(* A closed ledger of the slot's version, however old the reading, is the  *)
(* spender's ledger now.                                                   *)
LEMMA SettledLedgerIsCurrent ==
    ASSUME TypeOK, SlotInv, NEW s \in Users, NEW o \in Users, NEW c \in Channels,
           NEW l \in past_spends[s][o][c], IsSettled(l, delegations[o][c])
    PROVE  l = delegation_spends[s][o][c]
<1>1. l.channel_version <= delegation_spends[s][o][c].channel_version
  BY DEF SlotInv, OldLedgersBehind
<1>2. delegation_spends[s][o][c].channel_version <= delegations[o][c].channel_version
  BY DEF SlotInv, LedgersWellFormed
<1>3. l.channel_version = delegations[o][c].channel_version /\ l.closed = 1
  BY DEF IsSettled
<1>4. l.channel_version = delegation_spends[s][o][c].channel_version
  <2>1. /\ l.channel_version \in Felt
        /\ delegation_spends[s][o][c].channel_version \in Felt
        /\ delegations[o][c].channel_version \in Felt
    BY SlotTypes
  <2> QED BY <1>1, <1>2, <1>3, <2>1
<1> QED BY <1>3, <1>4 DEF SlotInv, OldLedgersBehind

LEMMA InitSlots == Init => SlotInv
<1> SUFFICES ASSUME Init PROVE SlotInv
  OBVIOUS
<1>1. \A o \in Users, c \in Channels :
        /\ delegations[o][c] = NoChannel /\ past_delegations[o][c] = {NoChannel}
        /\ \A s \in Users :
             delegation_spends[s][o][c] = NoSpend /\ past_spends[s][o][c] = {NoSpend}
  BY DEF Init
<1>2. \A o \in Users, c \in Channels : ~Escrowed(o, c)
  BY <1>1 DEF Escrowed, NoChannel, ACTIVE, REVOKE_PENDING
<1>3. OldSlotsSuperseded
  BY <1>1 DEF OldSlotsSuperseded, NoChannel, ACTIVE, REVOKE_PENDING
<1>4. OldLedgersBehind
  BY <1>1 DEF OldLedgersBehind, NoSpend
<1>5. SlotsWellFormed /\ LedgersWellFormed
  BY <1>1, <1>2 DEF SlotsWellFormed, LedgersWellFormed, NoChannel, NoSpend
<1>6. SpentWithinAllocation /\ VersionHasOneSpender
  BY <1>1, <1>2 DEF SpentWithinAllocation, VersionHasOneSpender, NoSpend
<1> QED BY <1>3, <1>4, <1>5, <1>6 DEF SlotInv

LEMMA SlotsUnchanged ==
    ASSUME SlotInv, UNCHANGED delegVars
    PROVE  SlotInv'
<1> USE DEF SlotInv, delegVars
<1>1. \A o \in Users, c \in Channels :
        (Escrowed(o, c)' <=> Escrowed(o, c)) /\ PaidOut(o, c)' = PaidOut(o, c)
  BY DEF Escrowed, PaidOut
<1>2. OldSlotsSuperseded'
  BY <1>1 DEF OldSlotsSuperseded
<1>3. OldLedgersBehind'
  BY DEF OldLedgersBehind
<1>4. SlotsWellFormed'
  BY <1>1 DEF SlotsWellFormed
<1>5. LedgersWellFormed'
  BY <1>1 DEF LedgersWellFormed
<1>6. SpentWithinAllocation'
  BY <1>1 DEF SpentWithinAllocation
<1>7. VersionHasOneSpender'
  BY DEF VersionHasOneSpender
<1> QED BY <1>2, <1>3, <1>4, <1>5, <1>6, <1>7

-----------------------------------------------------------------------------
(* What one step can do to the slots: four shapes, each named for the call *)
(* (or the two calls) it comes from.                                       *)

Opened(o, c, ch) ==
    /\ ch \in DelegationChannel /\ WriteChannel(o, c, ch)
    /\ ~Escrowed(o, c) /\ ch.status = ACTIVE /\ ch.spender \in Users \ {o}
    /\ ch.channel_version = delegations[o][c].channel_version + 1

RevocationAsked(o, c, ch) ==
    /\ WriteChannel(o, c, ch)
    /\ Escrowed(o, c) /\ ch.status = REVOKE_PENDING
    /\ ch.spender = delegations[o][c].spender
    /\ ch.allocated_amount = delegations[o][c].allocated_amount
    /\ ch.channel_version = delegations[o][c].channel_version

Refunded(o, c, ch) ==
    /\ WriteChannel(o, c, ch)
    /\ Escrowed(o, c) /\ ch.status = CLOSED
    /\ ch.spender = NoUser /\ ch.allocated_amount = 0
    /\ ch.channel_version = delegations[o][c].channel_version
    /\ IsSettled(delegation_spends[delegations[o][c].spender][o][c], delegations[o][c])
    /\ balance' = [balance EXCEPT ![o] = @ + (delegations[o][c].allocated_amount - PaidOut(o, c))]

(* A payout or a close: the spender of an escrowed slot writes its ledger. *)
LedgerKept(s, o, c, l) ==
    /\ l \in DelegationSpend /\ WriteLedger(s, o, c, l)
    /\ Escrowed(o, c) /\ s = delegations[o][c].spender
    /\ l.channel_version = delegations[o][c].channel_version
    /\ LedgerAdmits(delegation_spends[s][o][c], l.channel_version)
    /\ l.spent <= delegations[o][c].allocated_amount

SlotStep ==
    \/ UNCHANGED delegVars
    \/ \E o \in Users, c \in Channels, ch \in DelegationChannel :
        Opened(o, c, ch) \/ RevocationAsked(o, c, ch) \/ Refunded(o, c, ch)
    \/ \E s, o \in Users, c \in Channels, l \in DelegationSpend : LedgerKept(s, o, c, l)

LEMMA OpenKeepsSlots ==
    ASSUME TypeOK, SlotInv, NEW o \in Users, NEW c \in Channels, NEW ch \in DelegationChannel,
           WriteChannel(o, c, ch),
           ~Escrowed(o, c), ch.status = ACTIVE, ch.spender \in Users \ {o},
           ch.channel_version = delegations[o][c].channel_version + 1
    PROVE  SlotInv'
<1> DEFINE old == delegations[o][c].channel_version
<1>1. /\ UNCHANGED <<delegation_spends, past_spends>>
      /\ delegations'[o][c] = ch
      /\ past_delegations'[o][c] = past_delegations[o][c] \cup {ch}
      /\ \A p \in Users, d \in Channels : p # o \/ d # c =>
           /\ delegations'[p][d] = delegations[p][d]
           /\ past_delegations'[p][d] = past_delegations[p][d]
  BY ChannelWrite
<1>2. Escrowed(o, c)' /\ old \in Nat /\ ch.channel_version = old + 1
  <2>1. old \in Felt
    BY SlotTypes
  <2>2. Escrowed(o, c)'
    BY <1>1 DEF Escrowed
  <2> QED BY <2>1, <2>2
<1>3. ASSUME NEW s \in Users
      PROVE  /\ delegation_spends[s][o][c].channel_version \in Nat
             /\ delegation_spends[s][o][c].channel_version <= old
  <2>1. delegation_spends[s][o][c].channel_version \in Felt
    BY SlotTypes
  <2>2. delegation_spends[s][o][c].channel_version <= old
    BY DEF SlotInv, LedgersWellFormed
  <2> QED BY <2>1, <2>2
<1>4. OldSlotsSuperseded'
  <2> SUFFICES ASSUME NEW p \in Users, NEW d \in Channels, NEW x \in past_delegations'[p][d],
                      x.status \in {ACTIVE, REVOKE_PENDING}
               PROVE  /\ x.spender \in Users /\ x.channel_version > 0
                      /\ x.channel_version <= delegations'[p][d].channel_version
                      /\ \/ /\ Escrowed(p, d)'
                            /\ x.channel_version = delegations'[p][d].channel_version
                            /\ x.spender = delegations'[p][d].spender
                            /\ x.allocated_amount = delegations'[p][d].allocated_amount
                         \/ Superseded(delegation_spends'[x.spender][p][d], x.channel_version)
    BY DEF OldSlotsSuperseded
  <2>1. CASE p # o \/ d # c
    BY <1>1, <2>1 DEF SlotInv, OldSlotsSuperseded, Escrowed
  <2>2. CASE p = o /\ d = c /\ x = ch
    BY <1>1, <1>2, <2>2
  <2>3. CASE p = o /\ d = c /\ x \in past_delegations[o][c]
    <3>1. x.channel_version \in Nat
      BY <2>3, SlotTypes
    <3>2. /\ x.spender \in Users /\ x.channel_version > 0 /\ x.channel_version <= old
          /\ Superseded(delegation_spends[x.spender][o][c], x.channel_version)
      BY <2>3 DEF SlotInv, OldSlotsSuperseded
    <3> QED BY <1>1, <1>2, <2>3, <3>1, <3>2
  <2> QED BY <1>1, <2>1, <2>2, <2>3
<1>5. OldLedgersBehind'
  BY <1>1 DEF SlotInv, OldLedgersBehind
<1>6. SlotsWellFormed'
  BY <1>1, <1>2 DEF SlotInv, SlotsWellFormed, Escrowed
<1>7. LedgersWellFormed'
  <2>1. ASSUME NEW s \in Users, NEW p \in Users, NEW d \in Channels
        PROVE  /\ delegation_spends'[s][p][d].channel_version <= delegations'[p][d].channel_version
               /\ delegation_spends'[s][p][d].channel_version = 0
                    => delegation_spends'[s][p][d] = NoSpend
               /\ Escrowed(p, d)' /\ delegation_spends'[s][p][d].channel_version
                                       = delegations'[p][d].channel_version
                    => s = delegations'[p][d].spender
    <3>1. CASE p # o \/ d # c
      BY <1>1, <3>1 DEF SlotInv, LedgersWellFormed, Escrowed
    <3>2. CASE p = o /\ d = c
      BY <1>1, <1>2, <1>3, <3>2 DEF SlotInv, LedgersWellFormed
    <3> QED BY <3>1, <3>2
  <2> QED BY <2>1 DEF LedgersWellFormed
<1>8. SpentWithinAllocation'
  <2>1. ASSUME NEW p \in Users, NEW d \in Channels, Escrowed(p, d)'
        PROVE  PaidOut(p, d)' <= delegations'[p][d].allocated_amount
    <3>1. CASE p # o \/ d # c
      BY <1>1, <2>1, <3>1 DEF SlotInv, SpentWithinAllocation, PaidOut, Escrowed
    <3>2. CASE p = o /\ d = c
      <4>1. delegation_spends[ch.spender][o][c].channel_version # ch.channel_version
        BY <1>2, <1>3
      <4>2. PaidOut(p, d)' = 0
        BY <1>1, <3>2, <4>1 DEF PaidOut, LedgerFor
      <4>3. ch.allocated_amount \in Felt
        BY DEF DelegationChannel
      <4> QED BY <1>1, <3>2, <4>2, <4>3
    <3> QED BY <3>1, <3>2
  <2> QED BY <2>1 DEF SpentWithinAllocation
<1>9. VersionHasOneSpender'
  BY <1>1 DEF SlotInv, VersionHasOneSpender
<1> QED BY <1>4, <1>5, <1>6, <1>7, <1>8, <1>9 DEF SlotInv

(* Asking for the revocation changes the status of an escrowed slot only.  *)
LEMMA RequestKeepsSlots ==
    ASSUME TypeOK, SlotInv, NEW o \in Users, NEW c \in Channels, NEW ch,
           WriteChannel(o, c, ch),
           Escrowed(o, c), ch.status = REVOKE_PENDING,
           ch.spender = delegations[o][c].spender,
           ch.allocated_amount = delegations[o][c].allocated_amount,
           ch.channel_version = delegations[o][c].channel_version
    PROVE  SlotInv'
<1>1. /\ UNCHANGED <<delegation_spends, past_spends>>
      /\ delegations'[o][c] = ch
      /\ past_delegations'[o][c] = past_delegations[o][c] \cup {ch}
      /\ \A p \in Users, d \in Channels : p # o \/ d # c =>
           /\ delegations'[p][d] = delegations[p][d]
           /\ past_delegations'[p][d] = past_delegations[p][d]
  BY ChannelWrite
<1>2. \A p \in Users, d \in Channels :
        /\ Escrowed(p, d)' <=> Escrowed(p, d)
        /\ delegations'[p][d].spender = delegations[p][d].spender
        /\ delegations'[p][d].allocated_amount = delegations[p][d].allocated_amount
        /\ delegations'[p][d].channel_version = delegations[p][d].channel_version
  BY <1>1 DEF Escrowed
<1>3. OldSlotsSuperseded'
  <2> SUFFICES ASSUME NEW p \in Users, NEW d \in Channels, NEW x \in past_delegations'[p][d],
                      x.status \in {ACTIVE, REVOKE_PENDING}
               PROVE  /\ x.spender \in Users /\ x.channel_version > 0
                      /\ x.channel_version <= delegations'[p][d].channel_version
                      /\ \/ /\ Escrowed(p, d)'
                            /\ x.channel_version = delegations'[p][d].channel_version
                            /\ x.spender = delegations'[p][d].spender
                            /\ x.allocated_amount = delegations'[p][d].allocated_amount
                         \/ Superseded(delegation_spends'[x.spender][p][d], x.channel_version)
    BY DEF OldSlotsSuperseded
  <2>1. CASE x \in past_delegations[p][d]
    BY <1>1, <1>2, <2>1 DEF SlotInv, OldSlotsSuperseded
  <2>2. CASE p = o /\ d = c /\ x = ch
    BY <1>1, <1>2, <2>2, SlotTypes DEF SlotInv, SlotsWellFormed
  <2> QED BY <1>1, <2>1, <2>2
<1>4. OldLedgersBehind' /\ VersionHasOneSpender'
  <2>1. OldLedgersBehind'
    BY <1>1 DEF SlotInv, OldLedgersBehind
  <2>2. VersionHasOneSpender'
    BY <1>1 DEF SlotInv, VersionHasOneSpender
  <2> QED BY <2>1, <2>2
<1>5. SlotsWellFormed'
  BY <1>2 DEF SlotInv, SlotsWellFormed
<1>6. LedgersWellFormed'
  BY <1>1, <1>2 DEF SlotInv, LedgersWellFormed
<1>7. SpentWithinAllocation'
  BY SMTT(30), <1>1, <1>2 DEF SlotInv, SpentWithinAllocation, PaidOut
<1> QED BY <1>3, <1>4, <1>5, <1>6, <1>7 DEF SlotInv

(* A refund empties the slot; the spender's ledger is closed for it, so    *)
(* every old proof of the slot is superseded.                              *)
LEMMA FinalizeKeepsSlots ==
    ASSUME TypeOK, SlotInv, NEW o \in Users, NEW c \in Channels, NEW ch,
           WriteChannel(o, c, ch),
           Escrowed(o, c), ch.status = CLOSED, ch.spender = NoUser, ch.allocated_amount = 0,
           ch.channel_version = delegations[o][c].channel_version,
           IsSettled(delegation_spends[delegations[o][c].spender][o][c], delegations[o][c])
    PROVE  SlotInv'
<1>1. /\ UNCHANGED <<delegation_spends, past_spends>>
      /\ delegations'[o][c] = ch
      /\ past_delegations'[o][c] = past_delegations[o][c] \cup {ch}
      /\ \A p \in Users, d \in Channels : p # o \/ d # c =>
           /\ delegations'[p][d] = delegations[p][d]
           /\ past_delegations'[p][d] = past_delegations[p][d]
  BY ChannelWrite
<1>2. /\ ~Escrowed(o, c)'
      /\ \A p \in Users, d \in Channels : p # o \/ d # c => (Escrowed(p, d)' <=> Escrowed(p, d))
      /\ \A p \in Users, d \in Channels :
            delegations'[p][d].channel_version = delegations[p][d].channel_version
  BY <1>1 DEF Escrowed, CLOSED, ACTIVE, REVOKE_PENDING
<1>3. OldSlotsSuperseded'
  <2> SUFFICES ASSUME NEW p \in Users, NEW d \in Channels, NEW x \in past_delegations'[p][d],
                      x.status \in {ACTIVE, REVOKE_PENDING}
               PROVE  /\ x.spender \in Users /\ x.channel_version > 0
                      /\ x.channel_version <= delegations'[p][d].channel_version
                      /\ \/ /\ Escrowed(p, d)'
                            /\ x.channel_version = delegations'[p][d].channel_version
                            /\ x.spender = delegations'[p][d].spender
                            /\ x.allocated_amount = delegations'[p][d].allocated_amount
                         \/ Superseded(delegation_spends'[x.spender][p][d], x.channel_version)
    BY DEF OldSlotsSuperseded
  <2>1. CASE p # o \/ d # c
    BY <1>1, <1>2, <2>1 DEF SlotInv, OldSlotsSuperseded
  <2>2. CASE p = o /\ d = c
    <3>1. x # ch /\ x \in past_delegations[o][c]
      BY <1>1, <2>2 DEF CLOSED, ACTIVE, REVOKE_PENDING
    <3>2. /\ x.spender \in Users /\ x.channel_version > 0
          /\ x.channel_version <= delegations[o][c].channel_version
          /\ \/ /\ x.channel_version = delegations[o][c].channel_version
                /\ x.spender = delegations[o][c].spender
             \/ Superseded(delegation_spends[x.spender][o][c], x.channel_version)
      BY <3>1 DEF SlotInv, OldSlotsSuperseded
    <3>3. Superseded(delegation_spends[x.spender][o][c], x.channel_version)
      BY <3>2 DEF IsSettled, Superseded
    <3> QED BY <1>1, <1>2, <2>2, <3>2, <3>3 DEF Superseded
  <2> QED BY <2>1, <2>2
<1>4. OldLedgersBehind' /\ VersionHasOneSpender'
  <2>1. OldLedgersBehind'
    BY <1>1 DEF SlotInv, OldLedgersBehind
  <2>2. VersionHasOneSpender'
    BY <1>1 DEF SlotInv, VersionHasOneSpender
  <2> QED BY <2>1, <2>2
<1>5. SlotsWellFormed'
  BY <1>1, <1>2 DEF SlotInv, SlotsWellFormed
<1>6. LedgersWellFormed'
  BY <1>1, <1>2 DEF SlotInv, LedgersWellFormed
<1>7. SpentWithinAllocation'
  <2>1. ASSUME NEW p \in Users, NEW d \in Channels, p # o \/ d # c
        PROVE  PaidOut(p, d)' = PaidOut(p, d) /\ delegations'[p][d] = delegations[p][d]
    BY <1>1, <2>1 DEF PaidOut
  <2> QED BY <1>2, <2>1 DEF SlotInv, SpentWithinAllocation
<1> QED BY <1>3, <1>4, <1>5, <1>6, <1>7 DEF SlotInv

(* A ledger that may be written for a version is behind it, so what its    *)
(* present value supersedes, the new one supersedes too.                   *)
LEMMA AdmittedSupersedes ==
    ASSUME NEW old \in DelegationSpend, NEW l \in DelegationSpend, NEW version \in Felt,
           LedgerAdmits(old, l.channel_version), Superseded(old, version)
    PROVE  Superseded(l, version)
    BY DEF DelegationSpend, LedgerAdmits, Superseded

LEMMA AdmittedIsLater ==
    ASSUME NEW old \in DelegationSpend, NEW l \in DelegationSpend, NEW x \in DelegationSpend,
           LedgerAdmits(old, l.channel_version),
           x.channel_version <= old.channel_version,
           x.channel_version = old.channel_version /\ x.closed = 1 => x = old
    PROVE  /\ x.channel_version <= l.channel_version
           /\ ~(x.channel_version = l.channel_version /\ x.closed = 1)
    BY DEF DelegationSpend, LedgerAdmits

(* The slot's spender writes its ledger for the version in the slot.       *)
LEMMA LedgerKeepsSlots ==
    ASSUME TypeOK, SlotInv, NEW s \in Users, NEW o \in Users, NEW c \in Channels, NEW l,
           LedgerKept(s, o, c, l)
    PROVE  SlotInv'
<1>0. l \in DelegationSpend /\ WriteLedger(s, o, c, l)
  BY DEF LedgerKept
<1>1. UNCHANGED <<delegations, past_delegations>>
  BY <1>0 DEF WriteLedger
<1>w. /\ delegation_spends'[s][o][c] = l
      /\ past_spends'[s][o][c] = past_spends[s][o][c] \cup {l}
  <2>1. delegation_spends'[s][o][c] = l
    BY <1>0 DEF WriteLedger, TypeOK
  <2>2. past_spends'[s][o][c] = past_spends[s][o][c] \cup {l}
    BY <1>0 DEF WriteLedger, TypeOK
  <2> QED BY <2>1, <2>2
<1>f. \A t, p \in Users, d \in Channels : t # s \/ p # o \/ d # c =>
        /\ delegation_spends'[t][p][d] = delegation_spends[t][p][d]
        /\ past_spends'[t][p][d] = past_spends[t][p][d]
  BY <1>0, OtherLedgersKept
<1>2. \A p \in Users, d \in Channels : Escrowed(p, d)' <=> Escrowed(p, d)
  BY <1>1 DEF Escrowed
<1>a. PICK old \in DelegationSpend : old = delegation_spends[s][o][c]
  BY DEF TypeOK
<1>b. PICK before \in SUBSET DelegationSpend : before = past_spends[s][o][c]
  BY DEF TypeOK
<1>o. \A x \in before :
        /\ x.channel_version <= old.channel_version
        /\ x.channel_version = old.channel_version /\ x.closed = 1 => x = old
  <2>1. OldLedgersBehind
    BY DEF SlotInv
  <2>2. ASSUME NEW x \in past_spends[s][o][c]
        PROVE  /\ x.channel_version <= old.channel_version
               /\ x.channel_version = old.channel_version /\ x.closed = 1 => x = old
    BY <1>a, <2>1 DEF OldLedgersBehind
  <2> QED BY <1>b, <2>2
<1>3. LedgerAdmits(old, l.channel_version)
  BY <1>a DEF LedgerKept
<1>k. /\ Escrowed(o, c) /\ s = delegations[o][c].spender
      /\ l.channel_version = delegations[o][c].channel_version
      /\ l.spent <= delegations[o][c].allocated_amount
  BY DEF LedgerKept
<1>4. l.channel_version \in Nat /\ l.channel_version > 0
  BY <1>0, <1>k DEF SlotInv, SlotsWellFormed, DelegationSpend
<1>5. OldSlotsSuperseded'
  <2> SUFFICES ASSUME NEW p \in Users, NEW d \in Channels, NEW x \in past_delegations'[p][d],
                      x.status \in {ACTIVE, REVOKE_PENDING}
               PROVE  /\ x.spender \in Users /\ x.channel_version > 0
                      /\ x.channel_version <= delegations'[p][d].channel_version
                      /\ \/ /\ Escrowed(p, d)'
                            /\ x.channel_version = delegations'[p][d].channel_version
                            /\ x.spender = delegations'[p][d].spender
                            /\ x.allocated_amount = delegations'[p][d].allocated_amount
                         \/ Superseded(delegation_spends'[x.spender][p][d], x.channel_version)
    BY DEF OldSlotsSuperseded
  <2>1. x \in past_delegations[p][d] /\ x.channel_version \in Felt
    BY <1>1, SlotTypes
  <2>2. /\ x.spender \in Users /\ x.channel_version > 0
        /\ x.channel_version <= delegations[p][d].channel_version
        /\ \/ /\ Escrowed(p, d)
              /\ x.channel_version = delegations[p][d].channel_version
              /\ x.spender = delegations[p][d].spender
              /\ x.allocated_amount = delegations[p][d].allocated_amount
           \/ Superseded(delegation_spends[x.spender][p][d], x.channel_version)
    BY <2>1 DEF SlotInv, OldSlotsSuperseded
  <2>3. Superseded(delegation_spends[x.spender][p][d], x.channel_version)
          => Superseded(delegation_spends'[x.spender][p][d], x.channel_version)
    <3>1. CASE p = o /\ d = c /\ x.spender = s
      <4>1. delegation_spends'[x.spender][p][d] = l
        BY <1>w, <3>1
      <4>2. ASSUME Superseded(old, x.channel_version)
            PROVE  Superseded(l, x.channel_version)
        BY <1>0, <1>3, <2>1, <4>2, AdmittedSupersedes
      <4> QED BY <1>a, <3>1, <4>1, <4>2
    <3>2. CASE ~(p = o /\ d = c /\ x.spender = s)
      <4>1. PICK t \in Users : t = x.spender
        BY <2>2
      <4>2. delegation_spends'[t][p][d] = delegation_spends[t][p][d]
        BY <1>f, <3>2, <4>1
      <4> QED BY <4>1, <4>2
    <3> QED BY <3>1, <3>2
  <2> QED BY <1>1, <1>2, <2>2, <2>3
<1>6. OldLedgersBehind'
  <2> SUFFICES ASSUME NEW t \in Users, NEW p \in Users, NEW d \in Channels,
                      NEW x \in past_spends'[t][p][d]
               PROVE  /\ x.channel_version <= delegation_spends'[t][p][d].channel_version
                      /\ x.channel_version = delegation_spends'[t][p][d].channel_version
                         /\ x.closed = 1 => x = delegation_spends'[t][p][d]
    BY DEF OldLedgersBehind
  <2>1. CASE t # s \/ p # o \/ d # c
    <3>1. /\ delegation_spends'[t][p][d] = delegation_spends[t][p][d]
          /\ past_spends'[t][p][d] = past_spends[t][p][d]
      BY <1>f, <2>1
    <3> QED BY <3>1 DEF SlotInv, OldLedgersBehind
  <2>2. CASE t = s /\ p = o /\ d = c /\ x = l
    <3>1. delegation_spends'[t][p][d] = x
      BY <1>w, <2>2
    <3>2. x.channel_version <= x.channel_version
      BY <1>4, <2>2
    <3> QED BY <3>1, <3>2
  <2>3. CASE t = s /\ p = o /\ d = c /\ x \in past_spends[s][o][c]
    <3>1. x \in before
      BY <1>b, <2>3
    <3>0. x \in DelegationSpend
      BY <1>b, <3>1
    <3>2. /\ x.channel_version <= old.channel_version
          /\ x.channel_version = old.channel_version /\ x.closed = 1 => x = old
      BY <1>o, <3>1
    <3>3. delegation_spends'[t][p][d] = l
      BY <1>w, <2>3
    <3>4. /\ x.channel_version <= l.channel_version
          /\ ~(x.channel_version = l.channel_version /\ x.closed = 1)
      BY <1>0, <1>3, <3>0, <3>2, AdmittedIsLater
    <3> QED BY <3>3, <3>4
  <2> QED BY <1>w, <2>1, <2>2, <2>3
<1>7. SlotsWellFormed'
  BY <1>1, <1>2 DEF SlotInv, SlotsWellFormed
<1>8. LedgersWellFormed'
  <2>1. ASSUME NEW t \in Users, NEW p \in Users, NEW d \in Channels
        PROVE  /\ delegation_spends'[t][p][d].channel_version <= delegations'[p][d].channel_version
               /\ delegation_spends'[t][p][d].channel_version = 0
                    => delegation_spends'[t][p][d] = NoSpend
               /\ Escrowed(p, d)' /\ delegation_spends'[t][p][d].channel_version
                                       = delegations'[p][d].channel_version
                    => t = delegations'[p][d].spender
    <3>1. CASE t # s \/ p # o \/ d # c
      <4>1. delegation_spends'[t][p][d] = delegation_spends[t][p][d]
        BY <1>f, <3>1
      <4> QED BY <1>1, <1>2, <4>1 DEF SlotInv, LedgersWellFormed
    <3>2. CASE t = s /\ p = o /\ d = c
      <4>1. delegation_spends'[t][p][d] = l /\ delegations'[p][d] = delegations[o][c]
        BY <1>1, <1>w, <3>2
      <4>2. l.channel_version <= l.channel_version /\ l.channel_version # 0
        BY <1>4
      <4> QED BY <1>k, <3>2, <4>1, <4>2
    <3> QED BY <3>1, <3>2
  <2> QED BY <2>1 DEF LedgersWellFormed
<1>9. SpentWithinAllocation'
  <2>1. ASSUME NEW p \in Users, NEW d \in Channels, Escrowed(p, d)
        PROVE  PaidOut(p, d)' <= delegations[p][d].allocated_amount
    <3>1. CASE p # o \/ d # c
      <4>1. delegations[p][d].spender \in Users
        BY <2>1 DEF SlotInv, SlotsWellFormed
      <4>2. PICK t \in Users : t = delegations[p][d].spender
        BY <4>1
      <4>3. delegation_spends'[t][p][d] = delegation_spends[t][p][d]
        BY <1>f, <3>1
      <4>4. PaidOut(p, d)' = PaidOut(p, d)
        BY <1>1, <4>2, <4>3 DEF PaidOut
      <4> QED BY <2>1, <4>4 DEF SlotInv, SpentWithinAllocation
    <3>2. CASE p = o /\ d = c
      BY <1>1, <1>w, <1>k, <3>2 DEF PaidOut, LedgerFor
    <3> QED BY <3>1, <3>2
  <2> QED BY <1>1, <1>2, <2>1 DEF SpentWithinAllocation
<1>10. VersionHasOneSpender'
  <2>1. ASSUME NEW t \in Users, t # s
        PROVE  delegation_spends[t][o][c].channel_version # l.channel_version
    BY <1>k, <2>1 DEF SlotInv, LedgersWellFormed
  <2>2. ASSUME NEW p \in Users, NEW t \in Users, NEW q \in Users, NEW d \in Channels,
               t # q, delegation_spends'[t][p][d].channel_version # 0
        PROVE  delegation_spends'[t][p][d].channel_version
                 # delegation_spends'[q][p][d].channel_version
    <3>1. CASE p # o \/ d # c \/ (t # s /\ q # s)
      <4>1. /\ delegation_spends'[t][p][d] = delegation_spends[t][p][d]
            /\ delegation_spends'[q][p][d] = delegation_spends[q][p][d]
        BY <1>f, <3>1
      <4> QED BY <2>2, <4>1 DEF SlotInv, VersionHasOneSpender
    <3>2. CASE p = o /\ d = c /\ t = s
      <4>1. delegation_spends'[t][p][d] = l
        BY <1>w, <3>2
      <4>q. q # s
        BY <2>2, <3>2
      <4>2. delegation_spends'[q][o][c] = delegation_spends[q][o][c]
        BY <1>f, <4>q
      <4> QED BY <2>1, <2>2, <3>2, <4>1, <4>2
    <3>3. CASE p = o /\ d = c /\ q = s
      <4>1. delegation_spends'[q][p][d] = l
        BY <1>w, <3>3
      <4>t. t # s
        BY <2>2, <3>3
      <4>2. delegation_spends'[t][o][c] = delegation_spends[t][o][c]
        BY <1>f, <4>t
      <4> QED BY <2>1, <2>2, <3>3, <4>1, <4>2
    <3> QED BY <3>1, <3>2, <3>3
  <2> QED BY <2>2 DEF VersionHasOneSpender
<1> QED BY <1>5, <1>6, <1>7, <1>8, <1>9, <1>10 DEF SlotInv

LEMMA OpenIsSlotStep ==
    ASSUME TypeOK, SlotInv, NEW u \in Users, NEW c \in Channels, NEW v \in Users,
           NEW a \in Amounts, OpenDelegationChannel(u, c, v, a)
    PROVE  \E ch \in DelegationChannel :
             Opened(u, c, ch) /\ ch.spender = v /\ ch.allocated_amount = a
<1> DEFINE ch == [spender |-> v, allocated_amount |-> a,
                  channel_version |-> NextVersion(delegations[u][c]), status |-> ACTIVE]
<1>1. PICK now \in DelegationChannel : now = delegations[u][c]
  BY DEF TypeOK
<1>2. now.channel_version + 1 \in Felt /\ v \in Users \ {u} /\ a \in Felt
  <2>1. now.channel_version < MaxFelt /\ v \in Users \ {u}
    BY <1>1 DEF OpenDelegationChannel
  <2> QED BY <2>1 DEF DelegationChannel
<1>3. ch \in DelegationChannel /\ ch.channel_version = delegations[u][c].channel_version + 1
  BY <1>1, <1>2 DEF NextVersion, DelegationChannel, ACTIVE
<1>4. /\ WriteChannel(u, c, ch) /\ ch.status = ACTIVE
      /\ ch.spender = v /\ ch.allocated_amount = a
  BY DEF OpenDelegationChannel
<1>5. ~Escrowed(u, c)
  BY DEF OpenDelegationChannel, Escrowed, ACTIVE, REVOKE_PENDING, CLOSED
<1> HIDE DEF ch
<1> QED BY <1>2, <1>3, <1>4, <1>5 DEF Opened

LEMMA SpendIsSlotStep ==
    ASSUME TypeOK, SlotInv, NEW u \in Users, NEW c \in Channels, NEW v \in Users,
           NEW a \in Amounts, NEW r \in Users, SpendDelegation(u, v, c, a, r)
    PROVE  \E l \in DelegationSpend :
             LedgerKept(u, v, c, l) /\ l.spent = PaidOut(v, c) + a
<1>1. PICK ch \in past_delegations[v][c] :
        LET ledger == delegation_spends[u][v][c]
            spent == LedgerFor(ledger, ch.channel_version)
        IN /\ ch.spender = u /\ ch.status = ACTIVE
           /\ LedgerAdmits(ledger, ch.channel_version)
           /\ Allowed(ch, spent, a)
           /\ WriteLedger(u, v, c, [spent |-> spent + a, closed |-> 0,
                                    channel_version |-> ch.channel_version])
  BY DEF SpendDelegation
<1> DEFINE spent == LedgerFor(delegation_spends[u][v][c], ch.channel_version)
           l == [spent |-> spent + a, closed |-> 0, channel_version |-> ch.channel_version]
<1>2. ch \in DelegationChannel /\ delegation_spends[u][v][c] \in DelegationSpend
  BY DEF TypeOK
<1>3. /\ Escrowed(v, c) /\ ch.spender = delegations[v][c].spender
      /\ ch.channel_version = delegations[v][c].channel_version
      /\ ch.allocated_amount = delegations[v][c].allocated_amount
  BY <1>1, UsableProofIsCurrent
<1>4. l \in DelegationSpend /\ l.channel_version = ch.channel_version
      /\ l.spent <= ch.allocated_amount
  BY <1>1, <1>2 DEF DelegationChannel, DelegationSpend, LedgerFor, Allowed
<1>5. WriteLedger(u, v, c, l)
  BY <1>1
<1>6. l.spent = PaidOut(v, c) + a
  BY <1>1, <1>3 DEF PaidOut
<1> HIDE DEF l
<1> QED BY <1>1, <1>3, <1>4, <1>5, <1>6 DEF LedgerKept

LEMMA RequestIsSlotStep ==
    ASSUME TypeOK, SlotInv, NEW u \in Users, NEW c \in Channels, RequestRevokeDelegation(u, c)
    PROVE  \E ch \in DelegationChannel : RevocationAsked(u, c, ch)
<1> DEFINE ch == [delegations[u][c] EXCEPT !.status = REVOKE_PENDING]
<1>1. delegations[u][c] \in DelegationChannel
  BY DEF TypeOK
<1>2. /\ ch \in DelegationChannel /\ ch.status = REVOKE_PENDING
      /\ ch.spender = delegations[u][c].spender
      /\ ch.allocated_amount = delegations[u][c].allocated_amount
      /\ ch.channel_version = delegations[u][c].channel_version
  BY <1>1 DEF DelegationChannel, REVOKE_PENDING
<1>3. WriteChannel(u, c, ch) /\ Escrowed(u, c)
  BY DEF RequestRevokeDelegation, Escrowed
<1> HIDE DEF ch
<1> QED BY <1>2, <1>3 DEF RevocationAsked

LEMMA CloseIsSlotStep ==
    ASSUME TypeOK, SlotInv, NEW u \in Users, NEW c \in Channels, NEW v \in Users,
           CloseDelegationChannel(u, v, c)
    PROVE  \E l \in DelegationSpend :
             LedgerKept(u, v, c, l) /\ l.spent = PaidOut(v, c)
<1>1. PICK ch \in past_delegations[v][c] :
        LET ledger == delegation_spends[u][v][c]
        IN /\ ch.spender = u /\ ch.status \in {ACTIVE, REVOKE_PENDING}
           /\ LedgerAdmits(ledger, ch.channel_version)
           /\ WriteLedger(u, v, c, [spent |-> LedgerFor(ledger, ch.channel_version),
                                    closed |-> 1, channel_version |-> ch.channel_version])
  BY DEF CloseDelegationChannel, CanClose
<1> DEFINE spent == LedgerFor(delegation_spends[u][v][c], ch.channel_version)
           l == [spent |-> spent, closed |-> 1, channel_version |-> ch.channel_version]
<1>2. ch \in DelegationChannel /\ delegation_spends[u][v][c] \in DelegationSpend
  BY DEF TypeOK
<1>3. /\ Escrowed(v, c) /\ ch.spender = delegations[v][c].spender
      /\ ch.channel_version = delegations[v][c].channel_version
  BY <1>1, UsableProofIsCurrent
<1>4. l \in DelegationSpend /\ l.channel_version = ch.channel_version /\ l.spent = spent
  BY <1>2 DEF DelegationChannel, DelegationSpend, LedgerFor
<1>5. WriteLedger(u, v, c, l)
  BY <1>1
<1>6. spent = PaidOut(v, c)
  BY <1>1, <1>3 DEF PaidOut
<1> HIDE DEF l
<1>7. l.spent <= delegations[v][c].allocated_amount
  BY <1>3, <1>4, <1>6 DEF SlotInv, SpentWithinAllocation
<1> QED BY <1>1, <1>3, <1>4, <1>5, <1>6, <1>7 DEF LedgerKept

LEMMA FinalizeIsSlotStep ==
    ASSUME TypeOK, SlotInv, NEW u \in Users, NEW c \in Channels, NEW v \in Users,
           FinalizeRevokeDelegation(u, c, v)
    PROVE  \E ch \in DelegationChannel : Refunded(u, c, ch)
<1> DEFINE now == delegations[u][c]
           ch == [spender |-> NoUser, allocated_amount |-> 0,
                  channel_version |-> now.channel_version, status |-> CLOSED]
<1>1. /\ now \in DelegationChannel /\ now.status = REVOKE_PENDING /\ now.spender = v
      /\ WriteChannel(u, c, ch)
  BY DEF FinalizeRevokeDelegation, CanFinalize, TypeOK
<1>2. PICK old \in past_spends[v][u][c] :
        /\ IsSettled(old, now)
        /\ balance' = [balance EXCEPT ![u] = @ + (now.allocated_amount - old.spent)]
  BY DEF FinalizeRevokeDelegation, CanFinalize
<1>3. old = delegation_spends[v][u][c]
  BY <1>2, SettledLedgerIsCurrent
<1>4. PaidOut(u, c) = old.spent
  BY <1>1, <1>2, <1>3 DEF PaidOut, LedgerFor, IsSettled
<1>5. /\ ch \in DelegationChannel /\ ch.spender = NoUser /\ ch.allocated_amount = 0
      /\ ch.status = CLOSED /\ ch.channel_version = now.channel_version
  BY <1>1 DEF DelegationChannel, CLOSED
<1>6. Escrowed(u, c)
  BY <1>1 DEF Escrowed
<1> HIDE DEF ch
<1> QED BY <1>1, <1>2, <1>3, <1>4, <1>5, <1>6 DEF Refunded

LEMMA NextIsSlotStep == TypeOK /\ SlotInv /\ [Next]_vars => SlotStep
<1> SUFFICES ASSUME TypeOK, SlotInv, [Next]_vars PROVE SlotStep
  OBVIOUS
<1>1. CASE UNCHANGED vars
  BY <1>1 DEF vars, SlotStep
<1>2. ASSUME NEW u \in Users, Admin(u) \/ Supply(u) \/ Payment(u) PROVE SlotStep
  BY <1>2, AdminFrame, SupplyFrame, PaymentFrame DEF SlotStep
<1>3. ASSUME NEW u \in Users, Delegation(u) PROVE SlotStep
  <2>1. PICK c \in Channels, v \in Users :
          \/ \E a \in Amounts : OpenDelegationChannel(u, c, v, a)
          \/ \E a \in Amounts, r \in Users : SpendDelegation(u, v, c, a, r)
          \/ RequestRevokeDelegation(u, c)
          \/ CloseDelegationChannel(u, v, c)
          \/ FinalizeRevokeDelegation(u, c, v)
    BY <1>3 DEF Delegation
  <2>2. CASE \E a \in Amounts : OpenDelegationChannel(u, c, v, a)
    BY <2>2, OpenIsSlotStep DEF SlotStep
  <2>3. CASE \E a \in Amounts, r \in Users : SpendDelegation(u, v, c, a, r)
    BY <2>3, SpendIsSlotStep DEF SlotStep
  <2>4. CASE RequestRevokeDelegation(u, c)
    BY <2>4, RequestIsSlotStep DEF SlotStep
  <2>5. CASE CloseDelegationChannel(u, v, c)
    BY <2>5, CloseIsSlotStep DEF SlotStep
  <2>6. CASE FinalizeRevokeDelegation(u, c, v)
    BY <2>6, FinalizeIsSlotStep DEF SlotStep
  <2> QED BY <2>1, <2>2, <2>3, <2>4, <2>5, <2>6
<1> QED BY <1>1, <1>2, <1>3 DEF Next

-----------------------------------------------------------------------------
(* The theorems on delegation.                                             *)

LEMMA SlotsStep == TypeOK /\ SlotInv /\ [Next]_vars => SlotInv'
<1> SUFFICES ASSUME TypeOK, SlotInv, [Next]_vars PROVE SlotInv'
  OBVIOUS
<1>1. CASE UNCHANGED delegVars
  BY <1>1, SlotsUnchanged
<1>2. ASSUME NEW o \in Users, NEW c \in Channels, NEW ch \in DelegationChannel, Opened(o, c, ch)
      PROVE  SlotInv'
  BY <1>2, OpenKeepsSlots DEF Opened
<1>3. ASSUME NEW o \in Users, NEW c \in Channels, NEW ch \in DelegationChannel,
             RevocationAsked(o, c, ch)
      PROVE  SlotInv'
  BY <1>3, RequestKeepsSlots DEF RevocationAsked
<1>4. ASSUME NEW o \in Users, NEW c \in Channels, NEW ch \in DelegationChannel, Refunded(o, c, ch)
      PROVE  SlotInv'
  BY <1>4, FinalizeKeepsSlots DEF Refunded
<1>5. ASSUME NEW s \in Users, NEW o \in Users, NEW c \in Channels, NEW l \in DelegationSpend,
             LedgerKept(s, o, c, l)
      PROVE  SlotInv'
  BY <1>5, LedgerKeepsSlots
<1> QED BY <1>1, <1>2, <1>3, <1>4, <1>5, NextIsSlotStep DEF SlotStep

LEMMA SlotsCorrect == Spec => []SlotInv
    BY InitSlots, SlotsStep, TypeCorrect, PTL DEF Spec

(* No spender ever draws more than the allocation, whatever old proofs of  *)
(* the slot it has shown.                                                  *)
THEOREM DelegationSafety == Spec => []SpentWithinAllocation
    BY SlotsCorrect, PTL DEF SlotInv

(* One version of a slot never has two ledgers, although slots are reused.  *)
THEOREM OneSpenderPerVersion == Spec => []VersionHasOneSpender
    BY SlotsCorrect, PTL DEF SlotInv

LEMMA LedgerChange ==
    ASSUME TypeOK, SlotInv, [Next]_vars, NEW s \in Users, NEW o \in Users, NEW c \in Channels,
           delegation_spends'[s][o][c] # delegation_spends[s][o][c]
    PROVE  LedgerKept(s, o, c, delegation_spends'[s][o][c])
<1>1. CASE UNCHANGED delegation_spends
  BY <1>1
<1>2. CASE \E p \in Users, d \in Channels, ch \in DelegationChannel : WriteChannel(p, d, ch)
  BY <1>2 DEF WriteChannel
<1>3. ASSUME NEW t \in Users, NEW p \in Users, NEW d \in Channels, NEW l \in DelegationSpend,
             LedgerKept(t, p, d, l)
      PROVE  LedgerKept(s, o, c, delegation_spends'[s][o][c])
  <2>1. WriteLedger(t, p, d, l)
    BY <1>3 DEF LedgerKept
  <2>2. t = s /\ p = o /\ d = c
    BY <2>1, OtherLedgersKept
  <2>3. delegation_spends'[s][o][c] = l
    BY <2>1, <2>2, LedgerWritten
  <2> QED BY <1>3, <2>2, <2>3
<1> QED BY <1>1, <1>2, <1>3, NextIsSlotStep
        DEF SlotStep, Opened, RevocationAsked, Refunded, delegVars

(* A ledger closed for a version keeps its spent amount for that version.   *)
THEOREM CloseIsTerminal == Spec => ClosedIsTerminal
<1>1. ASSUME TypeOK, SlotInv, [Next]_vars, NEW s \in Users, NEW o \in Users, NEW c \in Channels,
             delegation_spends[s][o][c].closed = 1
      PROVE  \/ delegation_spends'[s][o][c] = delegation_spends[s][o][c]
             \/ delegation_spends'[s][o][c].channel_version
                  > delegation_spends[s][o][c].channel_version
  <2> SUFFICES ASSUME delegation_spends'[s][o][c] # delegation_spends[s][o][c]
               PROVE  delegation_spends'[s][o][c].channel_version
                        > delegation_spends[s][o][c].channel_version
    OBVIOUS
  <2>1. PICK old \in DelegationSpend : old = delegation_spends[s][o][c]
    BY <1>1 DEF TypeOK
  <2>2. PICK l \in DelegationSpend : l = delegation_spends'[s][o][c] /\ LedgerKept(s, o, c, l)
    BY <1>1, LedgerChange DEF LedgerKept
  <2>3. LedgerAdmits(old, l.channel_version) /\ old.closed = 1
    BY <1>1, <2>1, <2>2 DEF LedgerKept
  <2>4. l.channel_version > old.channel_version
    BY <2>3 DEF LedgerAdmits, DelegationSpend
  <2> QED BY <2>1, <2>2, <2>4
<1>2. TypeOK /\ SlotInv /\ [Next]_vars =>
        [ \A s, o \in Users, c \in Channels :
          LET l == delegation_spends[s][o][c]
              m == delegation_spends'[s][o][c]
          IN l.closed = 1 => m = l \/ m.channel_version > l.channel_version ]_vars
  BY <1>1
<1> QED BY <1>2, SlotsCorrect, TypeCorrect, PTL DEF Spec, ClosedIsTerminal

(* No stale proof pays after the refund: a payout draws on the slot as it  *)
(* is now.                                                                 *)
THEOREM NoPayoutAfterRefund == Spec => PayoutsAreEscrowed
<1>1. ASSUME TypeOK, SlotInv, [Next]_vars, NEW s \in Users, NEW o \in Users, NEW c \in Channels,
             delegation_spends'[s][o][c].spent
               > LedgerFor(delegation_spends[s][o][c], delegation_spends'[s][o][c].channel_version)
      PROVE  /\ Escrowed(o, c) /\ delegations[o][c].spender = s
             /\ delegations[o][c].channel_version = delegation_spends'[s][o][c].channel_version
  <2>1. PICK old \in DelegationSpend : old = delegation_spends[s][o][c]
    BY <1>1 DEF TypeOK
  <2>2. ~(old.spent > LedgerFor(old, old.channel_version))
    BY DEF LedgerFor, DelegationSpend
  <2>3. delegation_spends'[s][o][c] # delegation_spends[s][o][c]
    BY <1>1, <2>1, <2>2
  <2>4. LedgerKept(s, o, c, delegation_spends'[s][o][c])
    BY <1>1, <2>3, LedgerChange
  <2> QED BY <2>4 DEF LedgerKept
<1>2. TypeOK /\ SlotInv /\ [Next]_vars =>
        [ \A s, o \in Users, c \in Channels :
          LET l == delegation_spends[s][o][c]
              m == delegation_spends'[s][o][c]
          IN m.spent > LedgerFor(l, m.channel_version) =>
              /\ Escrowed(o, c)
              /\ delegations[o][c].spender = s
              /\ delegations[o][c].channel_version = m.channel_version ]_vars
  BY <1>1
<1> QED BY <1>2, SlotsCorrect, TypeCorrect, PTL DEF Spec, PayoutsAreEscrowed

(* Refund and payouts of a slot add up to its allocation, whatever ledger  *)
(* the refund was proved against.                                          *)
THEOREM RefundsAreExact == Spec => RefundIsExact
<1>1. ASSUME TypeOK, SlotInv, [Next]_vars, NEW o \in Users, NEW c \in Channels,
             Escrowed(o, c), delegations'[o][c].status = CLOSED
      PROVE  balance'[o] - balance[o] + PaidOut(o, c) = delegations[o][c].allocated_amount
  <2>1. delegations'[o][c] # delegations[o][c]
    BY <1>1 DEF Escrowed, ACTIVE, REVOKE_PENDING, CLOSED
  <2>2. PICK p \in Users, d \in Channels, ch \in DelegationChannel :
          Opened(p, d, ch) \/ RevocationAsked(p, d, ch) \/ Refunded(p, d, ch)
    BY <1>1, <2>1, NextIsSlotStep DEF SlotStep, delegVars, LedgerKept, WriteLedger
  <2>3. WriteChannel(p, d, ch)
    BY <2>2 DEF Opened, RevocationAsked, Refunded
  <2>4. p = o /\ d = c /\ ch.status = CLOSED
    BY <1>1, <2>1, <2>3, ChannelWrite
  <2>5. Refunded(o, c, ch)
    BY <2>2, <2>4 DEF Opened, RevocationAsked, ACTIVE, REVOKE_PENDING, CLOSED
  <2>6. balance'[o] = balance[o] + (delegations[o][c].allocated_amount - PaidOut(o, c))
    BY <1>1, <2>5 DEF Refunded, TypeOK
  <2>7. /\ balance[o] \in Int /\ delegations[o][c].allocated_amount \in Int
        /\ delegations[o][c].spender \in Users
    BY <1>1 DEF TypeOK, SlotInv, SlotsWellFormed, DelegationChannel
  <2>8. PaidOut(o, c) \in Int
    BY <1>1, <2>7 DEF PaidOut, LedgerFor, TypeOK, DelegationSpend
  <2> QED BY <2>6, <2>7, <2>8
<1>2. TypeOK /\ SlotInv /\ [Next]_vars =>
        [ \A o \in Users, c \in Channels :
          Escrowed(o, c) /\ delegations'[o][c].status = CLOSED
          => balance'[o] - balance[o] + PaidOut(o, c) = delegations[o][c].allocated_amount ]_vars
  BY <1>1
<1> QED BY <1>2, SlotsCorrect, TypeCorrect, PTL DEF Spec, RefundIsExact

(* Every proof stays a lower bound: no counter and no slot version that a  *)
(* remote read returns ever goes back.                                     *)
THEOREM ProofsStayLowerBounds == Spec => CountersMonotone
<1>1. ASSUME TypeOK, SlotInv, [Next]_vars, NEW u \in Users, NEW v \in Users
      PROVE  /\ amount_sent[u][v] <= amount_sent'[u][v]
             /\ amount_claimed[u][v] <= amount_claimed'[u][v]
             /\ burn_requested[u] <= burn_requested'[u]
             /\ burn_settled[u] <= burn_settled'[u]
  <2>1. amount_claimed[u][v] <= amount_claimed[u][v] /\ burn_settled[u] <= burn_settled[u]
    BY <1>1 DEF TypeOK
  <2>2. OutboxesGrow /\ ClaimsCatchUp /\ BurnsGrow
    BY <1>1, NextCounters
  <2> QED BY <2>1, <2>2 DEF OutboxesGrow, ClaimsCatchUp, BurnsGrow
<1>2. ASSUME TypeOK, SlotInv, [Next]_vars, NEW o \in Users, NEW c \in Channels
      PROVE  delegations[o][c].channel_version <= delegations'[o][c].channel_version
  <2>1. PICK now \in DelegationChannel : now = delegations[o][c]
    BY <1>2 DEF TypeOK
  <2>2. now.channel_version <= now.channel_version /\ now.channel_version <= now.channel_version + 1
    BY DEF DelegationChannel
  <2>3. CASE delegations'[o][c] = delegations[o][c]
    BY <2>1, <2>2, <2>3
  <2>4. CASE delegations'[o][c] # delegations[o][c]
    <3>1. PICK p \in Users, d \in Channels, ch \in DelegationChannel :
            Opened(p, d, ch) \/ RevocationAsked(p, d, ch) \/ Refunded(p, d, ch)
      BY <1>2, <2>4, NextIsSlotStep DEF SlotStep, delegVars, LedgerKept, WriteLedger
    <3>2. WriteChannel(p, d, ch)
      BY <3>1 DEF Opened, RevocationAsked, Refunded
    <3>3. p = o /\ d = c /\ delegations'[o][c] = ch
      BY <1>2, <2>4, <3>2, ChannelWrite
    <3>4. ch.channel_version \in {now.channel_version, now.channel_version + 1}
      BY <2>1, <3>1, <3>3 DEF Opened, RevocationAsked, Refunded
    <3> QED BY <2>1, <2>2, <3>3, <3>4
  <2> QED BY <2>3, <2>4
<1>3. ASSUME TypeOK, SlotInv, [Next]_vars, NEW s \in Users, NEW o \in Users, NEW c \in Channels
      PROVE  delegation_spends[s][o][c].channel_version <= delegation_spends'[s][o][c].channel_version
  <2>1. PICK old \in DelegationSpend : old = delegation_spends[s][o][c]
    BY <1>3 DEF TypeOK
  <2>2. old.channel_version <= old.channel_version
    BY DEF DelegationSpend
  <2>3. CASE delegation_spends'[s][o][c] = delegation_spends[s][o][c]
    BY <2>1, <2>2, <2>3
  <2>4. CASE delegation_spends'[s][o][c] # delegation_spends[s][o][c]
    BY <1>3, <2>1, <2>4, LedgerChange DEF LedgerKept, LedgerAdmits
  <2> QED BY <2>3, <2>4
<1>4. TypeOK /\ SlotInv /\ [Next]_vars =>
        [ \A u, v \in Users :
          /\ amount_sent[u][v] <= amount_sent'[u][v]
          /\ amount_claimed[u][v] <= amount_claimed'[u][v]
          /\ burn_requested[u] <= burn_requested'[u]
          /\ burn_settled[u] <= burn_settled'[u]
          /\ \A c \in Channels :
              /\ delegations[u][c].channel_version <= delegations'[u][c].channel_version
              /\ delegation_spends[u][v][c].channel_version
                   <= delegation_spends'[u][v][c].channel_version ]_vars
  BY <1>1, <1>2, <1>3
<1> QED BY <1>4, SlotsCorrect, TypeCorrect, PTL DEF Spec, CountersMonotone

-----------------------------------------------------------------------------
(* The refinement: where value is, call by call.                           *)

(* Crediting an outbox credits what is in transit out of it.               *)
Less(sent, taken) == [v \in Users |-> sent[v] - taken[v]]

LEMMA CreditIsDeposit ==
    ASSUME NEW box \in [Users -> Nat], NEW got \in [Users -> Nat], NEW r, NEW a \in Nat,
           a > 0 => r \in Users
    PROVE  Less(Credit(box, r, a), got) = Ideal!Deposit(Less(box, got), r, a)
<1>1. CASE a = 0
  BY <1>1 DEF Credit, Ideal!Deposit
<1>2. CASE a > 0
  <2> DEFINE new == Credit(box, r, a)
             right == Ideal!Deposit(Less(box, got), r, a)
  <2>1. r \in Users /\ new = [box EXCEPT ![r] = @ + a] /\ right = [Less(box, got) EXCEPT ![r] = @ + a]
    BY <1>2 DEF Credit, Ideal!Deposit
  <2>2. ASSUME NEW v \in Users PROVE new[v] - got[v] = right[v]
    <3>1. box[v] \in Int /\ got[v] \in Int /\ a \in Int
      OBVIOUS
    <3>2. right[v] = IF v = r THEN (box[v] - got[v]) + a ELSE box[v] - got[v]
      BY <2>1 DEF Less
    <3> HIDE DEF right
    <3> QED BY <2>1, <3>1, <3>2
  <2>3. right = [v \in Users |-> right[v]]
    BY <2>1 DEF Less
  <2> HIDE DEF new, right
  <2> QED BY <2>2, <2>3 DEF new, right, Less
<1> QED BY <1>1, <1>2

(* What receivers have taken out of u's outbox.                            *)
Taken(u) == [v \in Users |-> amount_claimed[v][u]]

LEMMA TransitIsLess ==
    ASSUME TypeOK, NEW u \in Users
    PROVE  /\ amount_sent[u] \in [Users -> Nat] /\ Taken(u) \in [Users -> Nat]
           /\ InTransit[u] = Less(amount_sent[u], Taken(u))
<1>1. InTransit[u] = Less(amount_sent[u], Taken(u))
  BY DEF InTransit, Less, Taken
<1> QED BY <1>1 DEF TypeOK, Taken

LEMMA OutboxMaps ==
    ASSUME TypeOK, NEW u \in Users, NEW box, WriteOutbox(u, box), UNCHANGED amount_claimed
    PROVE  InTransit' = [InTransit EXCEPT ![u] = Less(box, Taken(u))]
<1> DEFINE right == [InTransit EXCEPT ![u] = Less(box, Taken(u))]
<1>1. ASSUME NEW w \in Users, NEW v \in Users
      PROVE  amount_sent'[w][v] - amount_claimed'[v][w] = right[w][v]
  <2>1. amount_sent'[w] = IF w = u THEN box ELSE amount_sent[w]
    BY DEF WriteOutbox, TypeOK
  <2>2. right[w] = IF w = u THEN Less(box, Taken(u)) ELSE InTransit[w]
    BY DEF InTransit
  <2>3. CASE w = u
    BY <2>1, <2>2, <2>3 DEF Less, Taken
  <2>4. CASE w # u
    BY <2>1, <2>2, <2>4 DEF InTransit
  <2> QED BY <2>3, <2>4
<1>2. ASSUME NEW w \in Users PROVE right[w] = [v \in Users |-> right[w][v]]
  BY DEF InTransit, Less
<1>3. right = [w \in Users |-> right[w]]
  BY DEF InTransit
<1>4. InTransit' = [w \in Users |-> [v \in Users |-> amount_sent'[w][v] - amount_claimed'[v][w]]]
  BY DEF InTransit
<1> HIDE DEF right
<1>5. ASSUME NEW w \in Users PROVE InTransit'[w] = right[w]
  BY <1>1, <1>2, <1>4
<1>6. InTransit' = [w \in Users |-> InTransit'[w]]
  BY <1>4
<1>7. InTransit' = right
  BY <1>3, <1>5, <1>6
<1> QED BY <1>7 DEF right

LEMMA CreditMaps ==
    ASSUME TypeOK, NEW u \in Users, NEW r \in Users, NEW a \in Nat,
           WriteOutbox(u, Credit(amount_sent[u], r, a)), UNCHANGED amount_claimed
    PROVE  InTransit' = [InTransit EXCEPT ![u] = Ideal!Deposit(@, r, a)]
<1>1. Less(Credit(amount_sent[u], r, a), Taken(u)) = Ideal!Deposit(InTransit[u], r, a)
  BY TransitIsLess, CreditIsDeposit
<1> QED BY <1>1, OutboxMaps

LEMMA BatchMaps ==
    ASSUME TypeOK, NEW u \in Users, NEW r, NEW a \in [1..5 -> Felt], BatchTransfer(u, r, a)
    PROVE  Ideal!PayBatch(u, [to |-> r, amount |-> a])
<1> DEFINE got == Taken(u)
           b1 == Credit(amount_sent[u], r[1], a[1])
           b2 == Credit(b1, r[2], a[2])
           b3 == Credit(b2, r[3], a[3])
           b4 == Credit(b3, r[4], a[4])
           b5 == Credit(b4, r[5], a[5])
           p1 == Ideal!Deposit(InTransit[u], r[1], a[1])
           p2 == Ideal!Deposit(p1, r[2], a[2])
           p3 == Ideal!Deposit(p2, r[3], a[3])
           p4 == Ideal!Deposit(p3, r[4], a[4])
           p5 == Ideal!Deposit(p4, r[5], a[5])
<1>1. /\ a[1] \in Nat /\ a[2] \in Nat /\ a[3] \in Nat /\ a[4] \in Nat /\ a[5] \in Nat
      /\ a[1] > 0 => r[1] \in Users
      /\ a[2] > 0 => r[2] \in Users
      /\ a[3] > 0 => r[3] \in Users
      /\ a[4] > 0 => r[4] \in Users
      /\ a[5] > 0 => r[5] \in Users
  BY DEF BatchTransfer
<1>2. got \in [Users -> Nat] /\ b1 \in [Users -> Nat]
  BY <1>1, TransitIsLess, CreditGrows
<1>3. Less(b1, got) = p1
  BY <1>1, TransitIsLess, CreditIsDeposit
<1>4. b2 \in [Users -> Nat] /\ Less(b2, got) = p2
  <2> HIDE DEF b1, got, p1
  <2> QED BY <1>1, <1>2, <1>3, CreditGrows, CreditIsDeposit
<1>5. b3 \in [Users -> Nat] /\ Less(b3, got) = p3
  <2> HIDE DEF b2, got, p2
  <2> QED BY <1>1, <1>2, <1>4, CreditGrows, CreditIsDeposit
<1>6. b4 \in [Users -> Nat] /\ Less(b4, got) = p4
  <2> HIDE DEF b3, got, p3
  <2> QED BY <1>1, <1>2, <1>5, CreditGrows, CreditIsDeposit
<1>7. Less(b5, got) = p5
  <2> HIDE DEF b4, got, p4
  <2> QED BY <1>1, <1>2, <1>6, CreditIsDeposit
<1>8. InTransit' = [InTransit EXCEPT ![u] = p5]
  <2>1. WriteOutbox(u, b5) /\ UNCHANGED amount_claimed
    BY DEF BatchTransfer, BatchOutbox
  <2> HIDE DEF b5, p5
  <2> QED BY <1>7, <2>1, OutboxMaps
<1>9. UNCHANGED <<Unspent, Spenders, Unsettled, total_supply>>
  <2>1. UNCHANGED Unspent
    BY DEF BatchTransfer, delegVars, Unspent, Remaining, Escrowed, PaidOut
  <2> QED BY <2>1 DEF BatchTransfer, supplyVars, burnVars, delegVars, Spenders, Unsettled
<1>10. \A i \in 1..5 : a[i] > 0 => r[i] \in Users
  BY DEF BatchTransfer
<1> QED BY <1>8, <1>9, <1>10 DEF BatchTransfer, BatchTotal, Ideal!PayBatch

-----------------------------------------------------------------------------
(* What a slot still holds.                                                *)

LEMMA SlotKept ==
    ASSUME UNCHANGED delegVars
    PROVE  UNCHANGED <<Unspent, Spenders>>
    BY DEF delegVars, Unspent, Spenders, Remaining, Escrowed, PaidOut

LEMMA HeldIsNat ==
    ASSUME TypeOK, SlotInv, NEW o \in Users, NEW c \in Channels, Escrowed(o, c)
    PROVE  /\ delegations[o][c].spender \in Users
           /\ PaidOut(o, c) \in Nat /\ delegations[o][c].allocated_amount \in Nat
           /\ PaidOut(o, c) <= delegations[o][c].allocated_amount
           /\ Unspent[o][c] = delegations[o][c].allocated_amount - PaidOut(o, c)
<1>1. delegations[o][c].spender \in Users
  BY DEF SlotInv, SlotsWellFormed
<1>2. PaidOut(o, c) \in Nat
  BY <1>1, SlotTypes DEF PaidOut, LedgerFor
<1> QED BY <1>1, <1>2, SlotTypes DEF SlotInv, SpentWithinAllocation, Unspent, Remaining

(* A table has a row per user; writing an entry leaves the others.         *)
IsTable(f, Columns) == f = [p \in Users |-> [d \in Columns |-> f[p][d]]]

Written(f, o, c, x) == [f EXCEPT ![o][c] = x]

Differ(f, g, o, c, Columns) ==
    \A p \in Users, d \in Columns : p # o \/ d # c => g[p][d] = f[p][d]

LEMMA EntryWritten ==
    ASSUME NEW Columns, NEW f, IsTable(f, Columns), NEW o \in Users, NEW c \in Columns, NEW x
    PROVE  /\ IsTable(Written(f, o, c, x), Columns)
           /\ Written(f, o, c, x)[o][c] = x
           /\ Differ(f, Written(f, o, c, x), o, c, Columns)
<1> DEFINE h == [f EXCEPT ![o][c] = x]
<1>1. f \in [Users -> [Columns -> UNION {{f[p][d] : d \in Columns} : p \in Users}]]
  <2>1. ASSUME NEW p \in Users
        PROVE  f[p] \in [Columns -> UNION {{f[q][d] : d \in Columns} : q \in Users}]
    <3>1. f[p] = [d \in Columns |-> f[p][d]]
      BY DEF IsTable
    <3>2. ASSUME NEW d \in Columns PROVE f[p][d] \in UNION {{f[q][e] : e \in Columns} : q \in Users}
      OBVIOUS
    <3> QED BY <3>1, <3>2
  <2> QED BY <2>1 DEF IsTable
<1>2. h = [p \in Users |-> h[p]]
  BY <1>1
<1>3. ASSUME NEW p \in Users PROVE h[p] = [d \in Columns |-> h[p][d]]
  BY <1>1, <1>3
<1>4. h[o][c] = x /\ \A p \in Users, d \in Columns : p # o \/ d # c => h[p][d] = f[p][d]
  BY <1>1
<1> QED BY <1>2, <1>3, <1>4 DEF IsTable, Written, Differ

LEMMA SameTables ==
    ASSUME NEW Columns, NEW f, NEW g, IsTable(f, Columns), IsTable(g, Columns),
           \A p \in Users, d \in Columns : f[p][d] = g[p][d]
    PROVE  f = g
    BY DEF IsTable

LEMMA EntryReplaced ==
    ASSUME NEW Columns, NEW f, NEW g, NEW o \in Users, NEW c \in Columns,
           IsTable(f, Columns), IsTable(g, Columns), Differ(f, g, o, c, Columns)
    PROVE  g = Written(f, o, c, g[o][c])
<1> DEFINE h == Written(f, o, c, g[o][c])
<1>1. /\ IsTable(h, Columns)
      /\ h[o][c] = g[o][c]
      /\ Differ(f, h, o, c, Columns)
  BY EntryWritten
<1> HIDE DEF h
<1>2. \A p \in Users, d \in Columns : h[p][d] = g[p][d]
  BY <1>1 DEF Differ
<1>3. h = g
  BY <1>1, <1>2, SameTables
<1> QED BY <1>3 DEF h

(* The tables of the refinement, before and after the step.                *)
AreTables ==
    /\ IsTable(Unspent, Channels) /\ IsTable(Unspent', Channels)
    /\ IsTable(Spenders, Channels) /\ IsTable(Spenders', Channels)
    /\ IsTable(InTransit, Users) /\ IsTable(InTransit', Users)

LEMMA BothAreTables == AreTables
    BY DEF AreTables, IsTable, Unspent, Spenders, InTransit

LEMMA OpenedMaps ==
    ASSUME TypeOK, SlotInv, NEW o \in Users, NEW c \in Channels, NEW ch \in DelegationChannel,
           Opened(o, c, ch)
    PROVE  /\ Spenders[o][c] = NoUser
           /\ Unspent' = [Unspent EXCEPT ![o][c] = ch.allocated_amount]
           /\ Spenders' = [Spenders EXCEPT ![o][c] = ch.spender]
<1>1. /\ UNCHANGED delegation_spends
      /\ delegations'[o][c] = ch
      /\ \A p \in Users, d \in Channels : p # o \/ d # c => delegations'[p][d] = delegations[p][d]
  BY ChannelWrite DEF Opened
<1>2. Spenders[o][c] = NoUser
  BY DEF Opened, Spenders, SlotInv, SlotsWellFormed
<1>3. Unspent'[o][c] = ch.allocated_amount
  <2>1. Escrowed(o, c)'
    BY <1>1 DEF Escrowed, Opened
  <2>2. PaidOut(o, c)' = LedgerFor(delegation_spends[ch.spender][o][c], ch.channel_version)
    BY <1>1 DEF PaidOut
  <2>3. delegation_spends[ch.spender][o][c].channel_version # ch.channel_version
    <3>1. ch.spender \in Users /\ ch.channel_version = delegations[o][c].channel_version + 1
      BY DEF Opened
    <3>2. /\ delegation_spends[ch.spender][o][c].channel_version <= delegations[o][c].channel_version
          /\ delegation_spends[ch.spender][o][c].channel_version \in Int
          /\ delegations[o][c].channel_version \in Int
      BY <3>1, SlotTypes DEF SlotInv, LedgersWellFormed
    <3> QED BY <3>1, <3>2
  <2>4. ch.allocated_amount \in Int
    BY DEF DelegationChannel
  <2> QED BY <1>1, <2>1, <2>2, <2>3, <2>4 DEF Unspent, Remaining, LedgerFor
<1>4. ASSUME NEW p \in Users, NEW d \in Channels, p # o \/ d # c
      PROVE  Unspent'[p][d] = Unspent[p][d] /\ Spenders'[p][d] = Spenders[p][d]
  BY <1>1, <1>4 DEF Unspent, Spenders, Remaining, Escrowed, PaidOut
<1>a. Differ(Unspent, Unspent', o, c, Channels) /\ Differ(Spenders, Spenders', o, c, Channels)
  BY <1>4 DEF Differ
<1>5. Spenders'[o][c] = ch.spender
  BY <1>1 DEF Spenders
<1>7. Unspent' = Written(Unspent, o, c, Unspent'[o][c])
  BY <1>a, BothAreTables, EntryReplaced DEF AreTables
<1>8. Spenders' = Written(Spenders, o, c, Spenders'[o][c])
  BY <1>a, BothAreTables, EntryReplaced DEF AreTables
<1> QED BY <1>2, <1>3, <1>5, <1>7, <1>8 DEF Written

LEMMA RevocationMaps ==
    ASSUME TypeOK, SlotInv, NEW o \in Users, NEW c \in Channels, NEW ch \in DelegationChannel,
           RevocationAsked(o, c, ch)
    PROVE  UNCHANGED <<Unspent, Spenders>>
<1>1. /\ UNCHANGED delegation_spends
      /\ delegations'[o][c] = ch
      /\ \A p \in Users, d \in Channels : p # o \/ d # c => delegations'[p][d] = delegations[p][d]
  BY ChannelWrite DEF RevocationAsked
<1>2. Escrowed(o, c)' /\ PaidOut(o, c)' = PaidOut(o, c)
  BY <1>1 DEF Escrowed, PaidOut, RevocationAsked
<1>3. ASSUME NEW p \in Users, NEW d \in Channels
      PROVE  Unspent'[p][d] = Unspent[p][d] /\ Spenders'[p][d] = Spenders[p][d]
  <2>1. CASE p = o /\ d = c
    BY <1>1, <1>2, <2>1 DEF Unspent, Spenders, Remaining, RevocationAsked
  <2>2. CASE p # o \/ d # c
    BY <1>1, <2>2 DEF Unspent, Spenders, Remaining, Escrowed, PaidOut
  <2> QED BY <2>1, <2>2
<1>4. Unspent' = Unspent
  BY <1>3, BothAreTables, SameTables DEF AreTables
<1>5. Spenders' = Spenders
  BY <1>3, BothAreTables, SameTables DEF AreTables
<1> QED BY <1>4, <1>5

LEMMA RefundedMaps ==
    ASSUME TypeOK, SlotInv, NEW o \in Users, NEW c \in Channels, NEW ch \in DelegationChannel,
           Refunded(o, c, ch), UNCHANGED <<supplyVars, burnVars, payVars>>
    PROVE  Ideal!Unlock(o, c)
<1>1. /\ UNCHANGED delegation_spends
      /\ delegations'[o][c] = ch
      /\ \A p \in Users, d \in Channels : p # o \/ d # c => delegations'[p][d] = delegations[p][d]
  BY ChannelWrite DEF Refunded
<1>2. ~Escrowed(o, c)'
  BY <1>1 DEF Escrowed, Refunded, ACTIVE, REVOKE_PENDING, CLOSED
<1>3. Unspent'[o][c] = 0 /\ Spenders'[o][c] = NoUser
  BY <1>1, <1>2 DEF Unspent, Remaining, Spenders, Refunded
<1>4. ASSUME NEW p \in Users, NEW d \in Channels, p # o \/ d # c
      PROVE  Unspent'[p][d] = Unspent[p][d] /\ Spenders'[p][d] = Spenders[p][d]
  BY <1>1, <1>4 DEF Unspent, Spenders, Remaining, Escrowed, PaidOut
<1>a. Differ(Unspent, Unspent', o, c, Channels) /\ Differ(Spenders, Spenders', o, c, Channels)
  BY <1>4 DEF Differ
<1>5. Unspent' = Written(Unspent, o, c, Unspent'[o][c])
  BY <1>a, BothAreTables, EntryReplaced DEF AreTables
<1>6. Spenders' = Written(Spenders, o, c, Spenders'[o][c])
  BY <1>a, BothAreTables, EntryReplaced DEF AreTables
<1>7. Escrowed(o, c)
  BY DEF Refunded
<1>8. balance' = [balance EXCEPT ![o] = @ + Unspent[o][c]]
  BY <1>7, HeldIsNat DEF Refunded
<1>9. Spenders[o][c] # NoUser
  BY <1>7, HeldIsNat DEF Spenders
<1> QED BY <1>3, <1>5, <1>6, <1>8, <1>9
        DEF Written, Ideal!Unlock, supplyVars, burnVars, payVars, InTransit, Unsettled

(* A payout of a lowers what the slot holds by a; a close by nothing.       *)
LEMMA LedgerMaps ==
    ASSUME TypeOK, SlotInv, NEW s \in Users, NEW o \in Users, NEW c \in Channels,
           NEW l \in DelegationSpend, LedgerKept(s, o, c, l),
           NEW a \in Nat, l.spent = PaidOut(o, c) + a
    PROVE  /\ Spenders[o][c] = s /\ a <= Unspent[o][c]
           /\ UNCHANGED Spenders
           /\ Unspent' = [Unspent EXCEPT ![o][c] = @ - a]
<1>1. /\ UNCHANGED <<delegations, past_delegations>>
      /\ delegation_spends'[s][o][c] = l
  BY LedgerWritten DEF LedgerKept
<1>2. \A t, p \in Users, d \in Channels :
        t # s \/ p # o \/ d # c => delegation_spends'[t][p][d] = delegation_spends[t][p][d]
  BY OtherLedgersKept DEF LedgerKept
<1>3. /\ Escrowed(o, c) /\ s = delegations[o][c].spender
      /\ l.channel_version = delegations[o][c].channel_version
      /\ l.spent <= delegations[o][c].allocated_amount
  BY DEF LedgerKept
<1>4. Spenders[o][c] = s /\ UNCHANGED Spenders
  BY <1>1, <1>3 DEF Spenders
<1>5. a <= Unspent[o][c]
  BY <1>3, HeldIsNat
<1>6. Unspent'[o][c] = Unspent[o][c] - a
  <2>1. Escrowed(o, c)'
    BY <1>1, <1>3 DEF Escrowed
  <2>2. PaidOut(o, c)' = l.spent
    BY <1>1, <1>3 DEF PaidOut, LedgerFor
  <2>3. Unspent'[o][c] = delegations[o][c].allocated_amount - l.spent
    BY <1>1, <2>1, <2>2 DEF Unspent, Remaining
  <2> QED BY <1>3, <2>3, HeldIsNat
<1>7. ASSUME NEW p \in Users, NEW d \in Channels, p # o \/ d # c
      PROVE  Unspent'[p][d] = Unspent[p][d]
  <2>1. CASE ~Escrowed(p, d)
    BY <1>1, <2>1 DEF Unspent, Remaining, Escrowed
  <2>2. CASE Escrowed(p, d)
    <3>1. delegations[p][d].spender \in Users
      BY <2>2, HeldIsNat
    <3>2. PaidOut(p, d)' = PaidOut(p, d)
      BY <1>1, <1>2, <1>7, <3>1 DEF PaidOut
    <3> QED BY <1>1, <3>2 DEF Unspent, Remaining, Escrowed
  <2> QED BY <2>1, <2>2
<1>a. Differ(Unspent, Unspent', o, c, Channels)
  BY <1>7 DEF Differ
<1>8. Unspent' = Written(Unspent, o, c, Unspent'[o][c])
  BY <1>a, BothAreTables, EntryReplaced DEF AreTables
<1> QED BY <1>4, <1>5, <1>6, <1>8 DEF Written

(* Claimed: r takes a out of what u has in transit to it.                   *)
LEMMA ClaimMaps ==
    ASSUME TypeOK, NEW u \in Users, NEW r \in Users, NEW total \in Nat,
           amount_claimed' = [amount_claimed EXCEPT ![r][u] = total],
           UNCHANGED amount_sent
    PROVE  InTransit' = [InTransit EXCEPT ![u][r] = @ - (total - amount_claimed[r][u])]
<1> DEFINE x == InTransit[u][r] - (total - amount_claimed[r][u])
<1>1. IsTable(InTransit, Users) /\ IsTable(InTransit', Users)
  BY BothAreTables DEF AreTables
<1>2. InTransit'[u][r] = x
  <2>1. amount_sent[u][r] \in Int /\ amount_claimed[r][u] \in Int
    BY DEF TypeOK
  <2>2. amount_claimed'[r][u] = total
    BY DEF TypeOK
  <2> QED BY <2>1, <2>2 DEF InTransit
<1>3. ASSUME NEW p \in Users, NEW d \in Users, p # u \/ d # r
      PROVE  InTransit'[p][d] = InTransit[p][d]
  <2>1. amount_claimed'[d][p] = amount_claimed[d][p]
    BY <1>3 DEF TypeOK
  <2> QED BY <2>1 DEF InTransit
<1> HIDE DEF x
<1>a. Differ(InTransit, InTransit', u, r, Users)
  BY <1>3 DEF Differ
<1>4. InTransit' = Written(InTransit, u, r, InTransit'[u][r])
  BY <1>1, <1>a, EntryReplaced
<1> QED BY <1>2, <1>4 DEF x, Written

(* An old outbox proves at most what is in transit now.                    *)
LEMMA ProvedIsInTransit ==
    ASSUME TypeOK, CounterInv, NEW u \in Users, NEW v \in Users, NEW total \in past_sent[u][v],
           total > amount_claimed[v][u]
    PROVE  /\ total \in Nat
           /\ total - amount_claimed[v][u] \in Ideal!Value
           /\ total - amount_claimed[v][u] <= InTransit[u][v]
<1>1. total \in Felt /\ amount_claimed[v][u] \in Felt /\ amount_sent[u][v] \in Felt
  BY DEF TypeOK
<1>2. total <= amount_sent[u][v]
  BY DEF CounterInv, OldCountersBehind
<1>3. InTransit[u][v] = amount_sent[u][v] - amount_claimed[v][u]
  BY DEF InTransit
<1> QED BY <1>1, <1>2, <1>3 DEF Ideal!Value

LEMMA CancelMaps ==
    ASSUME TypeOK, CounterInv, NEW u \in Users, NEW v \in Users, CancelUnclaimedPayment(v, u)
    PROVE  \E a \in Ideal!Value : Ideal!Return(v, u, a)
<1>1. PICK total \in past_sent[u][v] :
        /\ total > amount_claimed[v][u]
        /\ amount_claimed' = [amount_claimed EXCEPT ![v][u] = total]
        /\ WriteOutbox(v, Credit(amount_sent[v], u, total - amount_claimed[v][u]))
  BY DEF CancelUnclaimedPayment
<1> DEFINE a == total - amount_claimed[v][u]
           mid == Written(InTransit, u, v, InTransit[u][v] - a)
<1>2. u \in Users \ {v} /\ a \in Ideal!Value /\ a <= InTransit[u][v]
  BY <1>1, ProvedIsInTransit DEF CancelUnclaimedPayment
<1>3. a \in Nat /\ a > 0
  BY <1>2 DEF Ideal!Value
<1>4. /\ amount_sent'[v][u] = amount_sent[v][u] + a
      /\ \A p, d \in Users : p # v \/ d # u => amount_sent'[p][d] = amount_sent[p][d]
  BY <1>1, <1>3 DEF WriteOutbox, Credit, TypeOK
<1>5. /\ amount_claimed'[v][u] = amount_claimed[v][u] + a
      /\ \A p, d \in Users : d # v \/ p # u => amount_claimed'[d][p] = amount_claimed[d][p]
  <2>1. total \in Int /\ amount_claimed[v][u] \in Int
    BY DEF TypeOK
  <2> QED BY <1>1, <2>1 DEF TypeOK
<1>6. amount_sent \in [Users -> [Users -> Int]] /\ amount_claimed \in [Users -> [Users -> Int]]
  BY DEF TypeOK
<1> HIDE DEF a
<1>7. /\ InTransit'[u][v] = InTransit[u][v] - a
      /\ InTransit'[v][u] = InTransit[v][u] + a
      /\ \A p, d \in Users : ~(p = u /\ d = v) /\ ~(p = v /\ d = u) => InTransit'[p][d] = InTransit[p][d]
  BY <1>2, <1>3, <1>4, <1>5, <1>6 DEF InTransit
<1>8. IsTable(InTransit, Users) /\ IsTable(InTransit', Users)
  BY BothAreTables DEF AreTables
<1>9. /\ IsTable(mid, Users)
      /\ mid[u][v] = InTransit[u][v] - a
      /\ Differ(InTransit, mid, u, v, Users)
  BY <1>2, <1>8, EntryWritten
<1> HIDE DEF mid
<1>10. InTransit' = Written(mid, v, u, InTransit'[v][u])
  <2>1. Differ(mid, InTransit', v, u, Users)
    BY <1>2, <1>7, <1>9 DEF Differ
  <2>2. IsTable(mid, Users)
    BY <1>9
  <2> QED BY <1>8, <2>1, <2>2, EntryReplaced
<1>11. InTransit' = [InTransit EXCEPT ![u][v] = @ - a, ![v][u] = @ + a]
  BY <1>7, <1>10 DEF mid, Written
<1>12. UNCHANGED <<balance, Unspent, Spenders, Unsettled, total_supply>>
  BY SlotKept DEF CancelUnclaimedPayment, supplyVars, burnVars, Unsettled
<1> QED BY <1>2, <1>11, <1>12 DEF Ideal!Return

-----------------------------------------------------------------------------
(* Each call is a step of the ledger or leaves it as it is.                *)

LEMMA AmountsAreValues ==
    ASSUME NEW a \in Amounts, a > 0
    PROVE  a \in Ideal!Value /\ a \in Nat
    BY DEF Ideal!Value

LEMMA SupplyMaps ==
    ASSUME TypeOK, CounterInv, NEW u \in Users, Supply(u)
    PROVE  Ideal!Next
<1> USE DEF adminVars, supplyVars, burnVars, payVars
<1>1. UNCHANGED <<Unspent, Spenders>>
  BY SupplyFrame, SlotKept
<1>2. ASSUME NEW a \in Amounts, Mint(u, a) PROVE Ideal!Next
  <2>1. a > 0 /\ u = Issuer /\ a <= MaxFelt - total_supply
    BY <1>2 DEF Mint, CanIssue
  <2>2. total_supply + a <= MaxFelt
    BY <2>1 DEF TypeOK
  <2>3. UNCHANGED <<InTransit, Unsettled>>
    BY <1>2 DEF Mint, InTransit, Unsettled
  <2>4. Ideal!Issue(a)
    BY <1>1, <1>2, <2>1, <2>2, <2>3 DEF Mint, Issue, Ideal!Issue
  <2> QED BY <2>1, <2>4, AmountsAreValues DEF Ideal!Next
<1>3. ASSUME NEW v \in Users, NEW a \in Amounts, MintTo(u, v, a) PROVE Ideal!Next
  <2>1. a > 0 /\ u = Issuer /\ a <= MaxFelt - total_supply
    BY <1>3 DEF MintTo, CanIssue
  <2>2. total_supply + a <= MaxFelt
    BY <2>1 DEF TypeOK
  <2>3. InTransit' = [InTransit EXCEPT ![u] = Ideal!Deposit(@, v, a)]
    BY <1>3, <2>1, AmountsAreValues, CreditMaps DEF MintTo
  <2>4. Ideal!IssueTo(v, a)
    BY <1>1, <1>3, <2>1, <2>2, <2>3 DEF MintTo, Issue, Ideal!IssueTo, Unsettled
  <2> QED BY <2>1, <2>4, AmountsAreValues DEF Ideal!Next
<1>4. ASSUME NEW a \in Amounts, Burn(u, a) PROVE Ideal!Next
  <2>1. a > 0 /\ a <= balance[u] /\ UNCHANGED InTransit
    <3>1. a \in Int /\ balance[u] \in Int
      BY DEF TypeOK
    <3> QED BY <1>4, <3>1 DEF Burn, InTransit
  <2>2. Unsettled' = [Unsettled EXCEPT ![u] = @ + a]
    <3>1. burn_requested' = [burn_requested EXCEPT ![u] = @ + a] /\ UNCHANGED burn_settled
      BY <1>4 DEF Burn, WriteBurnRequest
    <3>2. ASSUME NEW w \in Users
          PROVE  burn_requested'[w] - burn_settled'[w]
                   = IF w = u THEN Unsettled[u] + a ELSE Unsettled[w]
      <4>1. burn_requested[w] \in Int /\ burn_settled[w] \in Int /\ a \in Int
        BY DEF TypeOK
      <4> QED BY <3>1, <4>1 DEF Unsettled, TypeOK
    <3> QED BY <3>2 DEF Unsettled
  <2>3. Ideal!Destroy(u, a)
    BY <1>1, <1>4, <2>1, <2>2 DEF Burn, Ideal!Destroy
  <2> QED BY <2>1, <2>3, AmountsAreValues DEF Ideal!Next
<1>5. ASSUME NEW v \in Users, SettleBurn(u, v) PROVE Ideal!Next
  <2>1. PICK requested \in past_burn[v] :
          /\ requested > burn_settled[v]
          /\ burn_settled' = [burn_settled EXCEPT ![v] = requested]
          /\ total_supply' = total_supply - (requested - burn_settled[v])
    BY <1>5 DEF SettleBurn, CanSettle
  <2> DEFINE a == requested - burn_settled[v]
  <2>2. requested \in Felt /\ burn_settled[v] \in Felt /\ burn_requested[v] \in Felt
    BY DEF TypeOK
  <2>3. requested <= burn_requested[v]
    BY DEF CounterInv, OldCountersBehind
  <2>4. a \in Ideal!Value /\ a <= Unsettled[v]
    BY <2>1, <2>2, <2>3 DEF Ideal!Value, Unsettled
  <2>5. Unsettled' = [Unsettled EXCEPT ![v] = @ - a]
    <3>1. UNCHANGED burn_requested
      BY <1>5 DEF SettleBurn, CanSettle
    <3>2. ASSUME NEW w \in Users
          PROVE  burn_requested'[w] - burn_settled'[w]
                   = IF w = v THEN Unsettled[v] - a ELSE Unsettled[w]
      BY <2>1, <2>2, <3>1 DEF Unsettled, TypeOK
    <3> QED BY <3>2 DEF Unsettled
  <2>6. UNCHANGED <<balance, InTransit>>
    BY <1>5 DEF SettleBurn, CanSettle, InTransit
  <2> HIDE DEF a
  <2>7. total_supply' = total_supply - a
    BY <2>1 DEF a
  <2>8. Ideal!Settle(v, a)
    BY <1>1, <2>4, <2>5, <2>6, <2>7 DEF Ideal!Settle
  <2> QED BY <2>4, <2>8 DEF Ideal!Next
<1> QED BY <1>2, <1>3, <1>4, <1>5 DEF Supply

LEMMA PaymentMaps ==
    ASSUME TypeOK, CounterInv, NEW u \in Users, Payment(u)
    PROVE  Ideal!Next
<1> USE DEF adminVars, supplyVars, burnVars, payVars
<1>1. UNCHANGED <<Unspent, Spenders, Unsettled, total_supply>>
  BY PaymentFrame, SlotKept DEF Unsettled
<1>2. ASSUME NEW v \in Users, NEW a \in Amounts, a > 0, balance[u] >= a,
             WriteOutbox(u, Credit(amount_sent[u], v, a)), UNCHANGED amount_claimed,
             balance' = [balance EXCEPT ![u] = @ - a]
      PROVE  Ideal!Next
  <2>1. a \in Ideal!Value /\ a \in Nat /\ a <= balance[u]
    BY <1>2, AmountsAreValues DEF TypeOK
  <2>2. InTransit' = [InTransit EXCEPT ![u] = Ideal!Deposit(@, v, a)]
    BY <1>2, <2>1, CreditMaps
  <2>3. Ideal!Pay(u, v, a)
    BY <1>1, <1>2, <2>1, <2>2 DEF Ideal!Pay
  <2> QED BY <2>1, <2>3 DEF Ideal!Next
<1>3. ASSUME NEW v \in Users, NEW a \in Amounts, Transfer(u, v, a) PROVE Ideal!Next
  BY <1>2, <1>3 DEF Transfer
<1>4. ASSUME NEW v \in Users, NEW a \in Amounts, RefundClaimedPayment(u, v, a) PROVE Ideal!Next
  BY <1>2, <1>4 DEF RefundClaimedPayment
<1>5. ASSUME NEW v \in Users, Claim(u, v) PROVE Ideal!Next
  <2>1. PICK total \in past_sent[v][u] :
          /\ total > amount_claimed[u][v]
          /\ amount_claimed' = [amount_claimed EXCEPT ![u][v] = total]
          /\ balance' = [balance EXCEPT ![u] = @ + (total - amount_claimed[u][v])]
    BY <1>5 DEF Claim, CanClaim, IsNews, ClaimedNow
  <2> DEFINE a == total - amount_claimed[u][v]
  <2>2. total \in Nat /\ a \in Ideal!Value /\ a <= InTransit[v][u]
    BY <2>1, ProvedIsInTransit
  <2>3. InTransit' = [InTransit EXCEPT ![v][u] = @ - a]
    BY <1>5, <2>1, <2>2, ClaimMaps DEF Claim, CanClaim
  <2>4. balance' = [balance EXCEPT ![u] = @ + a]
    BY <2>1
  <2> HIDE DEF a
  <2>5. Ideal!Receive(u, v, a)
    BY <1>1, <2>2, <2>3, <2>4 DEF Ideal!Receive
  <2> QED BY <2>2, <2>5 DEF Ideal!Next
<1>6. ASSUME NEW v \in Users, CancelUnclaimedPayment(u, v) PROVE Ideal!Next
  BY <1>6, CancelMaps DEF Ideal!Next
<1>7. ASSUME NEW b \in Batches2, BatchTransfer2(u, b) PROVE Ideal!Next
  <2> DEFINE r == <<b.to[1], b.to[2], NoUser, NoUser, NoUser>>
             a == <<b.amount[1], b.amount[2], 0, 0, 0>>
  <2>1. [to |-> r, amount |-> a] \in Padded2 \cup Batches5
    BY DEF Padded2
  <2>2. Ideal!PayBatch(u, [to |-> r, amount |-> a])
    <3>1. a \in [1..5 -> Felt] /\ BatchTransfer(u, r, a)
      BY <1>7, Batch2Entries DEF BatchTransfer2
    <3> HIDE DEF r, a
    <3> QED BY <3>1, BatchMaps
  <2> HIDE DEF r, a
  <2> QED BY <2>1, <2>2 DEF Ideal!Next
<1>8. ASSUME NEW b \in Batches5, BatchTransfer5(u, b) PROVE Ideal!Next
  <2>1. b = [to |-> b.to, amount |-> b.amount]
    BY BatchesAssumption DEF Batch
  <2>2. Ideal!PayBatch(u, [to |-> b.to, amount |-> b.amount])
    BY <1>8, Batch5Entries, BatchMaps DEF BatchTransfer5
  <2>3. [to |-> b.to, amount |-> b.amount] \in Padded2 \cup Batches5
    BY <2>1
  <2> QED BY <2>2, <2>3 DEF Ideal!Next
<1> QED BY <1>3, <1>4, <1>5, <1>6, <1>7, <1>8 DEF Payment

LEMMA DelegationMaps ==
    ASSUME TypeOK, SlotInv, NEW u \in Users, Delegation(u)
    PROVE  Ideal!Next \/ UNCHANGED Ideal!ledger
<1> USE DEF supplyVars, burnVars, payVars
<1>a. UNCHANGED <<Unsettled, total_supply>>
  BY DelegationFrame DEF Unsettled
<1>1. PICK c \in Channels, v \in Users :
        \/ \E a \in Amounts : OpenDelegationChannel(u, c, v, a)
        \/ \E a \in Amounts, r \in Users : SpendDelegation(u, v, c, a, r)
        \/ RequestRevokeDelegation(u, c)
        \/ CloseDelegationChannel(u, v, c)
        \/ FinalizeRevokeDelegation(u, c, v)
  BY DEF Delegation
<1>2. ASSUME NEW a \in Amounts, OpenDelegationChannel(u, c, v, a) PROVE Ideal!Next
  <2>1. PICK ch \in DelegationChannel :
          Opened(u, c, ch) /\ ch.spender = v /\ ch.allocated_amount = a
    BY <1>2, OpenIsSlotStep
  <2>2. /\ Spenders[u][c] = NoUser
        /\ Unspent' = [Unspent EXCEPT ![u][c] = a]
        /\ Spenders' = [Spenders EXCEPT ![u][c] = v]
    BY <2>1, OpenedMaps
  <2>3. a \in Ideal!Value /\ a <= balance[u]
    <3>1. a \in Int /\ balance[u] \in Int
      BY DEF TypeOK
    <3> QED BY <1>2, <3>1, AmountsAreValues DEF OpenDelegationChannel
  <2>4. UNCHANGED InTransit
    BY <1>2 DEF OpenDelegationChannel, InTransit
  <2>5. Ideal!Lock(u, c, v, a)
    BY <1>a, <1>2, <2>2, <2>3, <2>4 DEF OpenDelegationChannel, Ideal!Lock
  <2> QED BY <2>3, <2>5 DEF Ideal!Next
<1>3. ASSUME NEW a \in Amounts, NEW r \in Users, SpendDelegation(u, v, c, a, r) PROVE Ideal!Next
  <2>1. PICK l \in DelegationSpend : LedgerKept(u, v, c, l) /\ l.spent = PaidOut(v, c) + a
    BY <1>3, SpendIsSlotStep
  <2>2. a \in Ideal!Value /\ a \in Nat
    BY <1>3, AmountsAreValues DEF SpendDelegation
  <2>3. /\ Spenders[v][c] = u /\ a <= Unspent[v][c]
        /\ UNCHANGED Spenders
        /\ Unspent' = [Unspent EXCEPT ![v][c] = @ - a]
    BY <2>1, <2>2, LedgerMaps
  <2>4. InTransit' = [InTransit EXCEPT ![u] = Ideal!Deposit(@, r, a)]
    BY <1>3, <2>2, CreditMaps DEF SpendDelegation
  <2>5. Ideal!PayFromEscrow(u, v, c, r, a)
    BY <1>a, <1>3, <2>3, <2>4 DEF SpendDelegation, Ideal!PayFromEscrow
  <2> QED BY <2>2, <2>5 DEF Ideal!Next
<1>4. CASE RequestRevokeDelegation(u, c)
  <2>1. UNCHANGED <<Unspent, Spenders>>
    BY <1>4, RequestIsSlotStep, RevocationMaps
  <2> QED BY <1>a, <1>4, <2>1 DEF RequestRevokeDelegation, Ideal!ledger, InTransit
<1>5. CASE CloseDelegationChannel(u, v, c)
  <2>1. PICK l \in DelegationSpend : LedgerKept(u, v, c, l) /\ l.spent = PaidOut(v, c)
    BY <1>5, CloseIsSlotStep
  <2>2. l.spent = PaidOut(v, c) + 0
    BY <2>1 DEF DelegationSpend
  <2>3. UNCHANGED Spenders /\ Unspent' = [Unspent EXCEPT ![v][c] = @ - 0]
    BY <2>1, <2>2, LedgerMaps
  <2>4. Unspent[v][c] \in Int
    BY <2>1, HeldIsNat DEF LedgerKept
  <2>5. Unspent' = Written(Unspent, v, c, Unspent[v][c])
    <3>1. Unspent[v][c] - 0 = Unspent[v][c]
      BY <2>4
    <3>2. Unspent' = Written(Unspent, v, c, Unspent[v][c] - 0)
      BY <2>3 DEF Written
    <3> QED BY <3>1, <3>2
  <2>6. /\ IsTable(Unspent', Channels) /\ Unspent'[v][c] = Unspent[v][c]
        /\ Differ(Unspent, Unspent', v, c, Channels)
    BY <2>5, BothAreTables, EntryWritten DEF AreTables
  <2>7. UNCHANGED Unspent
    <3>1. \A p \in Users, d \in Channels : Unspent'[p][d] = Unspent[p][d]
      BY <2>6 DEF Differ
    <3> QED BY <2>6, <3>1, BothAreTables, SameTables DEF AreTables
  <2> QED BY <1>a, <1>5, <2>3, <2>7 DEF CloseDelegationChannel, CanClose, Ideal!ledger, InTransit
<1>6. CASE FinalizeRevokeDelegation(u, c, v)
  <2>1. Ideal!Unlock(u, c)
    BY <1>6, FinalizeIsSlotStep, RefundedMaps DEF FinalizeRevokeDelegation, CanFinalize
  <2> QED BY <2>1 DEF Ideal!Next
<1> QED BY <1>1, <1>2, <1>3, <1>4, <1>5, <1>6

LEMMA InitMaps == Init => Ideal!Init
<1> SUFFICES ASSUME Init PROVE Ideal!Init
  OBVIOUS
<1>1. \A o \in Users, c \in Channels : ~Escrowed(o, c) /\ delegations[o][c].spender = NoUser
  BY DEF Init, NoChannel, Escrowed, ACTIVE, REVOKE_PENDING
<1>2. Unspent = [o \in Users |-> [c \in Channels |-> 0]]
  BY <1>1 DEF Unspent, Remaining
<1>3. Spenders = [o \in Users |-> [c \in Channels |-> NoUser]]
  BY <1>1 DEF Spenders
<1>4. InTransit = [u \in Users |-> [v \in Users |-> 0]] /\ Unsettled = [u \in Users |-> 0]
  BY DEF Init, InTransit, Unsettled
<1> QED BY <1>2, <1>3, <1>4 DEF Init, Ideal!Init

LEMMA StepMaps ==
    ASSUME TypeOK, CounterInv, SlotInv, [Next]_vars
    PROVE  Ideal!Next \/ UNCHANGED Ideal!ledger
<1>1. ASSUME UNCHANGED <<balance, supplyVars, burnVars, payVars, delegVars>>
      PROVE  UNCHANGED Ideal!ledger
  BY <1>1, SlotKept DEF supplyVars, burnVars, payVars, Ideal!ledger, InTransit, Unsettled
<1>2. CASE UNCHANGED vars
  BY <1>1, <1>2 DEF vars
<1>3. ASSUME NEW u \in Users, Admin(u) PROVE UNCHANGED Ideal!ledger
  BY <1>1, <1>3, AdminFrame
<1> QED BY <1>2, <1>3, SupplyMaps, PaymentMaps, DelegationMaps DEF Next

(* The contract implements the ledger: whatever old proofs its calls act    *)
(* on, every call moves value between balances, payments in transit,       *)
(* escrow slots and unsettled burns as one step on the present ledger.     *)
THEOREM RefinesLedger == Spec => ImplementsLedger
<1>1. TypeOK /\ CounterInv /\ SlotInv /\ [Next]_vars => [Ideal!Next]_(Ideal!ledger)
  BY StepMaps
<1> QED BY <1>1, InitMaps, TypeCorrect, CountersCorrect, SlotsCorrect, PTL
        DEF Spec, ImplementsLedger, Ideal!Spec

-----------------------------------------------------------------------------
(* Conservation: what a step of the ledger does to the sums.               *)
USE FiniteAssumption

(* The sum of a table with a row of columns per user.                      *)
Rows(f, Columns) == [p \in Users |-> Sum(f[p], Columns)]
Whole(f, Columns) == Sum(Rows(f, Columns), Users)

Table(Columns) == [Users -> [Columns -> Int]]

WithRow(f, p, row) == [f EXCEPT ![p] = row]

LEMMA RowCounts ==
    ASSUME NEW Columns, IsFiniteSet(Columns), NEW f \in Table(Columns), NEW p \in Users,
           NEW row \in [Columns -> Int]
    PROVE  /\ WithRow(f, p, row) \in Table(Columns)
           /\ Whole(WithRow(f, p, row), Columns)
                = Whole(f, Columns) + (Sum(row, Columns) - Sum(f[p], Columns))
<1> DEFINE g == WithRow(f, p, row)
           old == Rows(f, Columns)
           new == Rows(g, Columns)
<1>1. g \in Table(Columns) /\ g[p] = row /\ \A q \in Users \ {p} : g[q] = f[q]
  BY DEF WithRow, Table
<1> HIDE DEF g
<1>2. ASSUME NEW h \in Table(Columns) PROVE Rows(h, Columns) \in [Users -> Int]
  <2>1. \A q \in Users : h[q] \in [Columns -> Int]
    BY DEF Table
  <2>2. \A q \in Users : Sum(h[q], Columns) \in Int
    BY <2>1, SumType
  <2> QED BY <2>2 DEF Rows
<1>3. /\ old[p] = Sum(f[p], Columns) /\ new[p] = Sum(row, Columns)
      /\ \A q \in Users \ {p} : new[q] = old[q]
  BY <1>1 DEF Rows
<1>4. old \in [Users -> Int] /\ new \in [Users -> Int]
  BY <1>1, <1>2
<1> HIDE DEF old, new
<1>5. Sum(new, Users) = Sum(old, Users) + (new[p] - old[p])
  BY <1>3, <1>4, SumChanges
<1> QED BY <1>1, <1>3, <1>5 DEF Whole, old, new, g

LEMMA EntryCounts ==
    ASSUME NEW Columns, IsFiniteSet(Columns), NEW f \in Table(Columns), NEW p \in Users,
           NEW c \in Columns, NEW x \in Int
    PROVE  /\ Written(f, p, c, x) \in Table(Columns)
           /\ Whole(Written(f, p, c, x), Columns) = Whole(f, Columns) + (x - f[p][c])
<1> DEFINE row == [f[p] EXCEPT ![c] = x]
<1>1. /\ row \in [Columns -> Int] /\ f[p] \in [Columns -> Int]
      /\ row[c] = x /\ \A d \in Columns \ {c} : row[d] = f[p][d]
      /\ Written(f, p, c, x) = WithRow(f, p, row)
  BY DEF Table, Written, WithRow
<1> HIDE DEF row
<1>2. Sum(row, Columns) = Sum(f[p], Columns) + (row[c] - f[p][c])
  BY <1>1, SumChanges
<1>3. Sum(f[p], Columns) \in Int /\ Sum(row, Columns) \in Int
  BY <1>1, SumType
<1>4. /\ WithRow(f, p, row) \in Table(Columns)
      /\ Whole(WithRow(f, p, row), Columns)
           = Whole(f, Columns) + (Sum(row, Columns) - Sum(f[p], Columns))
  BY <1>1, RowCounts
<1>5. Sum(row, Columns) - Sum(f[p], Columns) = x - f[p][c]
  BY <1>1, <1>2, <1>3
<1> QED BY <1>1, <1>4, <1>5

LEMMA DepositCounts ==
    ASSUME NEW box \in [Users -> Int], NEW r, NEW a \in Nat, a > 0 => r \in Users
    PROVE  /\ Ideal!Deposit(box, r, a) \in [Users -> Int]
           /\ Sum(Ideal!Deposit(box, r, a), Users) = Sum(box, Users) + a
<1>1. CASE a = 0
  BY <1>1, SumType DEF Ideal!Deposit
<1>2. CASE a > 0
  <2> DEFINE new == [box EXCEPT ![r] = @ + a]
  <2>1. /\ r \in Users /\ new \in [Users -> Int] /\ new[r] = box[r] + a
        /\ \A v \in Users \ {r} : new[v] = box[v]
        /\ Ideal!Deposit(box, r, a) = new
    BY <1>2 DEF Ideal!Deposit
  <2> HIDE DEF new
  <2>2. Sum(new, Users) = Sum(box, Users) + (new[r] - box[r])
    BY <2>1, SumChanges
  <2>3. box[r] \in Int
    BY <2>1
  <2> QED BY <2>1, <2>2, <2>3
<1> QED BY <1>1, <1>2

(* An entry of a column grows or shrinks.                                  *)
Moved(f, u, d) == [f EXCEPT ![u] = @ + d]

LEMMA EntryMoves ==
    ASSUME NEW f \in [Users -> Int], NEW u \in Users, NEW d \in Int
    PROVE  Sum(Moved(f, u, d), Users) = Sum(f, Users) + d
<1> DEFINE g == Moved(f, u, d)
<1>1. g \in [Users -> Int] /\ g[u] = f[u] + d /\ \A v \in Users \ {u} : g[v] = f[v]
  BY DEF Moved
<1> HIDE DEF g
<1>2. Sum(g, Users) = Sum(f, Users) + (g[u] - f[u])
  BY <1>1, SumChanges
<1>3. f[u] \in Int
  OBVIOUS
<1> QED BY <1>1, <1>2, <1>3 DEF g

Drawn(f, u, d) == [f EXCEPT ![u] = @ - d]

LEMMA EntryDrawn ==
    ASSUME NEW f \in [Users -> Int], NEW u \in Users, NEW d \in Int
    PROVE  Sum(Drawn(f, u, d), Users) = Sum(f, Users) - d
<1> DEFINE g == Drawn(f, u, d)
<1>1. g \in [Users -> Int] /\ g[u] = f[u] - d /\ \A v \in Users \ {u} : g[v] = f[v]
  BY DEF Drawn
<1> HIDE DEF g
<1>2. Sum(g, Users) = Sum(f, Users) + (g[u] - f[u])
  BY <1>1, SumChanges
<1>3. f[u] \in Int /\ Sum(f, Users) \in Int
  BY SumType
<1> QED BY <1>1, <1>2, <1>3 DEF g

(* The ledger of the refinement: its columns and tables hold integers, and *)
(* a slot that nobody may pay out of is empty.                             *)
LedgerOK ==
    /\ balance \in [Users -> Int] /\ Unsettled \in [Users -> Int] /\ total_supply \in Int
    /\ InTransit \in Table(Users) /\ Unspent \in Table(Channels)
    /\ \A o \in Users, c \in Channels : Spenders[o][c] = NoUser => Unspent[o][c] = 0

LEMMA TokenHasLedger ==
    ASSUME TypeOK, SlotInv
    PROVE  LedgerOK
<1>1. balance \in [Users -> Int] /\ total_supply \in Int /\ Unsettled \in [Users -> Int]
  BY DEF TypeOK, Unsettled
<1>2. InTransit \in Table(Users)
  BY DEF TypeOK, InTransit, Table
<1>3. ASSUME NEW o \in Users, NEW c \in Channels
      PROVE  Unspent[o][c] \in Int /\ (Spenders[o][c] = NoUser => Unspent[o][c] = 0)
  <2>1. CASE Escrowed(o, c)
    BY <2>1, HeldIsNat DEF Spenders
  <2>2. CASE ~Escrowed(o, c)
    BY <2>2 DEF Unspent, Remaining
  <2> QED BY <2>1, <2>2
<1>4. Unspent = [o \in Users |-> [c \in Channels |-> Unspent[o][c]]]
  BY DEF Unspent
<1>5. Unspent \in Table(Channels)
  BY <1>3, <1>4 DEF Table
<1> QED BY <1>1, <1>2, <1>3, <1>5 DEF LedgerOK

SumsOfInts ==
    /\ Sum(balance, Users) \in Int /\ Sum(Unsettled, Users) \in Int
    /\ Whole(InTransit, Users) \in Int /\ Whole(Unspent, Channels) \in Int

LEMMA SumsAreInts ==
    ASSUME LedgerOK
    PROVE  SumsOfInts
<1>1. ASSUME NEW Columns, IsFiniteSet(Columns), NEW f \in Table(Columns)
      PROVE  Whole(f, Columns) \in Int
  <2>1. \A q \in Users : f[q] \in [Columns -> Int]
    BY DEF Table
  <2>2. \A q \in Users : Sum(f[q], Columns) \in Int
    BY <1>1, <2>1, SumType
  <2>3. Rows(f, Columns) \in [Users -> Int]
    BY <2>2 DEF Rows
  <2> QED BY <2>3, SumType DEF Whole
<1>2. Whole(InTransit, Users) \in Int /\ Whole(Unspent, Channels) \in Int
  BY <1>1 DEF LedgerOK
<1>3. Sum(balance, Users) \in Int /\ Sum(Unsettled, Users) \in Int
  BY SumType DEF LedgerOK
<1> QED BY <1>2, <1>3 DEF SumsOfInts

(* What the places of the ledger hold together.                            *)
Everything ==
    Sum(balance, Users) + Whole(InTransit, Users) + Whole(Unspent, Channels) + Sum(Unsettled, Users)

LEMMA PaidInto ==
    ASSUME LedgerOK, NEW u \in Users, NEW r, NEW a \in Nat, a > 0 => r \in Users,
           InTransit' = WithRow(InTransit, u, Ideal!Deposit(InTransit[u], r, a))
    PROVE  Whole(InTransit', Users) = Whole(InTransit, Users) + a
<1> DEFINE row == Ideal!Deposit(InTransit[u], r, a)
<1>1. InTransit[u] \in [Users -> Int]
  BY DEF LedgerOK, Table
<1>2. row \in [Users -> Int] /\ Sum(row, Users) = Sum(InTransit[u], Users) + a
  BY <1>1, DepositCounts
<1>3. InTransit' = WithRow(InTransit, u, row)
  OBVIOUS
<1>4. Sum(InTransit[u], Users) \in Int /\ Whole(InTransit, Users) \in Int
  BY <1>1, SumType, SumsAreInts DEF SumsOfInts
<1> HIDE DEF row
<1>5. Whole(WithRow(InTransit, u, row), Users)
        = Whole(InTransit, Users) + (Sum(row, Users) - Sum(InTransit[u], Users))
  <2>1. InTransit \in Table(Users)
    BY DEF LedgerOK
  <2>2. row \in [Users -> Int]
    BY <1>2
  <2> QED BY <2>1, <2>2, RowCounts
<1> QED BY <1>2, <1>3, <1>4, <1>5

LEMMA TransitEntry ==
    ASSUME LedgerOK, NEW u \in Users, NEW v \in Users, NEW x \in Int,
           InTransit' = Written(InTransit, u, v, x)
    PROVE  Whole(InTransit', Users) = Whole(InTransit, Users) + (x - InTransit[u][v])
<1>1. InTransit \in Table(Users)
  BY DEF LedgerOK
<1>2. Whole(Written(InTransit, u, v, x), Users) = Whole(InTransit, Users) + (x - InTransit[u][v])
  BY <1>1, EntryCounts
<1> QED BY <1>2

LEMMA EscrowEntry ==
    ASSUME LedgerOK, NEW o \in Users, NEW c \in Channels, NEW x \in Int,
           Unspent' = Written(Unspent, o, c, x)
    PROVE  Whole(Unspent', Channels) = Whole(Unspent, Channels) + (x - Unspent[o][c])
<1>1. Unspent \in Table(Channels)
  BY DEF LedgerOK
<1>2. Whole(Written(Unspent, o, c, x), Channels) = Whole(Unspent, Channels) + (x - Unspent[o][c])
  BY <1>1, EntryCounts
<1> QED BY <1>2

(* The column of free balances, or of burns, grows or shrinks by a.        *)
LEMMA ColumnMoves ==
    ASSUME LedgerOK, NEW u \in Users, NEW a \in Int
    PROVE  /\ balance' = Moved(balance, u, a) => Sum(balance', Users) = Sum(balance, Users) + a
           /\ balance' = Drawn(balance, u, a) => Sum(balance', Users) = Sum(balance, Users) - a
           /\ Unsettled' = Moved(Unsettled, u, a)
                => Sum(Unsettled', Users) = Sum(Unsettled, Users) + a
           /\ Unsettled' = Drawn(Unsettled, u, a)
                => Sum(Unsettled', Users) = Sum(Unsettled, Users) - a
<1>1. balance \in [Users -> Int] /\ Unsettled \in [Users -> Int]
  BY DEF LedgerOK
<1> QED BY <1>1, EntryMoves, EntryDrawn

LEMMA BatchPaid ==
    ASSUME LedgerOK, NEW u \in Users, NEW b, b.amount \in [1..5 -> Nat], Ideal!PayBatch(u, b)
    PROVE  \E total \in Nat :
              /\ balance' = [balance EXCEPT ![u] = @ - total]
              /\ Whole(InTransit', Users) = Whole(InTransit, Users) + total
              /\ UNCHANGED <<Unspent, Spenders, Unsettled, total_supply>>
<1> DEFINE a == b.amount
           to == b.to
           p1 == Ideal!Deposit(InTransit[u], to[1], a[1])
           p2 == Ideal!Deposit(p1, to[2], a[2])
           p3 == Ideal!Deposit(p2, to[3], a[3])
           p4 == Ideal!Deposit(p3, to[4], a[4])
           p5 == Ideal!Deposit(p4, to[5], a[5])
           total == a[1] + a[2] + a[3] + a[4] + a[5]
<1>1. /\ a[1] \in Nat /\ a[2] \in Nat /\ a[3] \in Nat /\ a[4] \in Nat /\ a[5] \in Nat
      /\ a[1] > 0 => to[1] \in Users
      /\ a[2] > 0 => to[2] \in Users
      /\ a[3] > 0 => to[3] \in Users
      /\ a[4] > 0 => to[4] \in Users
      /\ a[5] > 0 => to[5] \in Users
  BY DEF Ideal!PayBatch
<1>2. /\ balance' = [balance EXCEPT ![u] = @ - total]
      /\ InTransit' = WithRow(InTransit, u, p5)
      /\ UNCHANGED <<Unspent, Spenders, Unsettled, total_supply>>
  BY DEF Ideal!PayBatch, WithRow
<1> HIDE DEF to, a
<1>3. InTransit[u] \in [Users -> Int]
  BY DEF LedgerOK, Table
<1>4. p1 \in [Users -> Int] /\ Sum(p1, Users) = Sum(InTransit[u], Users) + a[1]
  BY <1>1, <1>3, DepositCounts
<1> HIDE DEF p1
<1>5. p2 \in [Users -> Int] /\ Sum(p2, Users) = Sum(p1, Users) + a[2]
  BY <1>1, <1>4, DepositCounts
<1> HIDE DEF p2
<1>6. p3 \in [Users -> Int] /\ Sum(p3, Users) = Sum(p2, Users) + a[3]
  BY <1>1, <1>5, DepositCounts
<1> HIDE DEF p3
<1>7. p4 \in [Users -> Int] /\ Sum(p4, Users) = Sum(p3, Users) + a[4]
  BY <1>1, <1>6, DepositCounts
<1> HIDE DEF p4
<1>8. p5 \in [Users -> Int] /\ Sum(p5, Users) = Sum(p4, Users) + a[5]
  BY <1>1, <1>7, DepositCounts
<1> HIDE DEF p5
<1>9. Sum(InTransit[u], Users) \in Int
  BY <1>3, SumType
<1>10. total \in Nat /\ Sum(p5, Users) - Sum(InTransit[u], Users) = total
  BY <1>1, <1>4, <1>5, <1>6, <1>7, <1>8, <1>9
<1> HIDE DEF total
<1>11. Whole(WithRow(InTransit, u, p5), Users)
         = Whole(InTransit, Users) + (Sum(p5, Users) - Sum(InTransit[u], Users))
  <2>1. InTransit \in Table(Users)
    BY DEF LedgerOK
  <2> QED BY <1>8, <2>1, RowCounts
<1>12. Whole(InTransit', Users) = Whole(InTransit, Users) + total
  BY <1>2, <1>10, <1>11
<1> QED BY <1>2, <1>10, <1>12

LEMMA BatchAmounts ==
    ASSUME NEW b \in Padded2 \cup Batches5
    PROVE  b.amount \in [1..5 -> Nat]
<1>1. CASE b \in Padded2
  <2>1. PICK e \in Batches2 : b.amount = <<e.amount[1], e.amount[2], 0, 0, 0>>
    BY <1>1 DEF Padded2
  <2>2. e.amount[1] \in Nat /\ e.amount[2] \in Nat
    BY BatchesAssumption DEF Batch
  <2> QED BY <2>1, <2>2
<1>2. CASE b \in Batches5
  BY <1>2, Batch5Entries
<1> QED BY <1>1, <1>2

LEMMA ReturnKeepsWhole ==
    ASSUME LedgerOK, NEW u \in Users, NEW v \in Users, NEW a \in Nat, Ideal!Return(v, u, a)
    PROVE  Whole(InTransit', Users) = Whole(InTransit, Users)
<1> DEFINE mid == Written(InTransit, u, v, InTransit[u][v] - a)
<1>1. /\ InTransit \in Table(Users) /\ u # v
      /\ InTransit[u][v] \in Int /\ InTransit[v][u] \in Int
  BY DEF LedgerOK, Table, Ideal!Return
<1>2. mid[v][u] = InTransit[v][u]
  BY <1>1 DEF Written, Table
<1>3. InTransit' = Written(mid, v, u, InTransit[v][u] + a)
  BY <1>1 DEF Ideal!Return, Written
<1>4. /\ mid \in Table(Users)
      /\ Whole(mid, Users) = Whole(InTransit, Users) + ((InTransit[u][v] - a) - InTransit[u][v])
  BY <1>1, EntryCounts
<1> HIDE DEF mid
<1>b. InTransit[v][u] + a \in Int
  BY <1>1
<1>5. Whole(Written(mid, v, u, InTransit[v][u] + a), Users)
        = Whole(mid, Users) + ((InTransit[v][u] + a) - mid[v][u])
  BY <1>4, <1>b, EntryCounts
<1>6. Whole(InTransit, Users) \in Int
  BY SumsAreInts DEF SumsOfInts
<1> QED BY <1>1, <1>2, <1>3, <1>4, <1>5, <1>6

(* Every step of the ledger keeps what all places hold together equal to   *)
(* the supply.                                                             *)
LEMMA LedgerConserves ==
    ASSUME LedgerOK, Ideal!Next
    PROVE  Everything' = Everything + (total_supply' - total_supply)
<1>0. /\ Sum(balance, Users) \in Int /\ Sum(Unsettled, Users) \in Int
      /\ Whole(InTransit, Users) \in Int /\ Whole(Unspent, Channels) \in Int
      /\ total_supply \in Int
  BY SumsAreInts DEF SumsOfInts, LedgerOK
<1>a. ASSUME NEW a \in Ideal!Value PROVE a \in Nat
  BY DEF Ideal!Value
<1>1. ASSUME NEW a \in Ideal!Value, Ideal!Issue(a)
      PROVE  Everything' = Everything + (total_supply' - total_supply)
  <2>1. Sum(balance', Users) = Sum(balance, Users) + a
    <3>1. balance' = Moved(balance, Issuer, a)
      BY <1>1 DEF Ideal!Issue, Moved
    <3> QED BY <1>a, <3>1, ColumnMoves
  <2> QED BY <1>0, <1>1, <1>a, <2>1 DEF Ideal!Issue, Everything
<1>2. ASSUME NEW v \in Users, NEW a \in Ideal!Value, Ideal!IssueTo(v, a)
      PROVE  Everything' = Everything + (total_supply' - total_supply)
  <2>1. Whole(InTransit', Users) = Whole(InTransit, Users) + a
    BY <1>2, <1>a, PaidInto DEF Ideal!IssueTo, WithRow
  <2> QED BY <1>0, <1>2, <1>a, <2>1 DEF Ideal!IssueTo, Everything
<1>3. ASSUME NEW u \in Users, NEW v \in Users, NEW a \in Ideal!Value, Ideal!Pay(u, v, a)
      PROVE  Everything' = Everything + (total_supply' - total_supply)
  <2>1. Whole(InTransit', Users) = Whole(InTransit, Users) + a
    BY <1>3, <1>a, PaidInto DEF Ideal!Pay, WithRow
  <2>2. Sum(balance', Users) = Sum(balance, Users) - a
    <3>1. balance' = Drawn(balance, u, a)
      BY <1>3 DEF Ideal!Pay, Drawn
    <3> QED BY <1>a, <3>1, ColumnMoves
  <2> QED BY <1>0, <1>3, <1>a, <2>1, <2>2 DEF Ideal!Pay, Everything
<1>4. ASSUME NEW u \in Users, NEW v \in Users, NEW a \in Ideal!Value, Ideal!Receive(v, u, a)
      PROVE  Everything' = Everything + (total_supply' - total_supply)
  <2>1. InTransit[u][v] \in Int
    BY DEF LedgerOK, Table
  <2>2. Whole(InTransit', Users) = Whole(InTransit, Users) + ((InTransit[u][v] - a) - InTransit[u][v])
    <3>1. InTransit[u][v] - a \in Int
      BY <1>a, <2>1
    <3>2. InTransit' = Written(InTransit, u, v, InTransit[u][v] - a)
      BY <1>4 DEF Ideal!Receive, Written
    <3> QED BY <3>1, <3>2, TransitEntry
  <2>3. Sum(balance', Users) = Sum(balance, Users) + a
    <3>1. balance' = Moved(balance, v, a)
      BY <1>4 DEF Ideal!Receive, Moved
    <3> QED BY <1>a, <3>1, ColumnMoves
  <2> QED BY <1>0, <1>4, <1>a, <2>1, <2>2, <2>3 DEF Ideal!Receive, Everything
<1>5. ASSUME NEW u \in Users, NEW v \in Users, NEW a \in Ideal!Value, Ideal!Return(v, u, a)
      PROVE  Everything' = Everything + (total_supply' - total_supply)
  <2>1. Whole(InTransit', Users) = Whole(InTransit, Users)
    BY <1>5, <1>a, ReturnKeepsWhole
  <2> QED BY <1>0, <1>5, <2>1 DEF Ideal!Return, Everything
<1>6. ASSUME NEW u \in Users, NEW b \in Padded2 \cup Batches5, Ideal!PayBatch(u, b)
      PROVE  Everything' = Everything + (total_supply' - total_supply)
  <2>1. PICK total \in Nat :
          /\ balance' = [balance EXCEPT ![u] = @ - total]
          /\ Whole(InTransit', Users) = Whole(InTransit, Users) + total
          /\ UNCHANGED <<Unspent, Spenders, Unsettled, total_supply>>
    BY <1>6, BatchAmounts, BatchPaid
  <2>2. Sum(balance', Users) = Sum(balance, Users) - total
    <3>1. balance' = Drawn(balance, u, total)
      BY <2>1 DEF Drawn
    <3> QED BY <3>1, ColumnMoves
  <2> QED BY <1>0, <2>1, <2>2 DEF Everything
<1>7. ASSUME NEW u \in Users, NEW a \in Ideal!Value, Ideal!Destroy(u, a)
      PROVE  Everything' = Everything + (total_supply' - total_supply)
  <2>1. /\ Sum(balance', Users) = Sum(balance, Users) - a
        /\ Sum(Unsettled', Users) = Sum(Unsettled, Users) + a
    <3>1. balance' = Drawn(balance, u, a) /\ Unsettled' = Moved(Unsettled, u, a)
      BY <1>7 DEF Ideal!Destroy, Drawn, Moved
    <3> QED BY <1>a, <3>1, ColumnMoves
  <2> QED BY <1>0, <1>7, <1>a, <2>1 DEF Ideal!Destroy, Everything
<1>8. ASSUME NEW u \in Users, NEW a \in Ideal!Value, Ideal!Settle(u, a)
      PROVE  Everything' = Everything + (total_supply' - total_supply)
  <2>1. Sum(Unsettled', Users) = Sum(Unsettled, Users) - a
    <3>1. Unsettled' = Drawn(Unsettled, u, a)
      BY <1>8 DEF Ideal!Settle, Drawn
    <3> QED BY <1>a, <3>1, ColumnMoves
  <2> QED BY <1>0, <1>8, <1>a, <2>1 DEF Ideal!Settle, Everything
<1>9. ASSUME NEW o \in Users, NEW s \in Users, NEW c \in Channels, NEW a \in Ideal!Value,
             Ideal!Lock(o, c, s, a)
      PROVE  Everything' = Everything + (total_supply' - total_supply)
  <2>1. Unspent[o][c] = 0
    BY <1>9 DEF Ideal!Lock, LedgerOK
  <2>2. Whole(Unspent', Channels) = Whole(Unspent, Channels) + (a - Unspent[o][c])
    <3>1. Unspent' = Written(Unspent, o, c, a)
      BY <1>9 DEF Ideal!Lock, Written
    <3> QED BY <1>a, <3>1, EscrowEntry
  <2>3. Sum(balance', Users) = Sum(balance, Users) - a
    <3>1. balance' = Drawn(balance, o, a)
      BY <1>9 DEF Ideal!Lock, Drawn
    <3> QED BY <1>a, <3>1, ColumnMoves
  <2> QED BY <1>0, <1>9, <1>a, <2>1, <2>2, <2>3 DEF Ideal!Lock, Everything
<1>10. ASSUME NEW o \in Users, NEW s \in Users, NEW c \in Channels, NEW a \in Ideal!Value,
              NEW r \in Users, Ideal!PayFromEscrow(s, o, c, r, a)
       PROVE  Everything' = Everything + (total_supply' - total_supply)
  <2>1. Unspent[o][c] \in Int
    BY DEF LedgerOK, Table
  <2>2. Whole(Unspent', Channels) = Whole(Unspent, Channels) + ((Unspent[o][c] - a) - Unspent[o][c])
    <3>1. Unspent[o][c] - a \in Int
      BY <1>a, <2>1
    <3>2. Unspent' = Written(Unspent, o, c, Unspent[o][c] - a)
      BY <1>10 DEF Ideal!PayFromEscrow, Written
    <3> QED BY <3>1, <3>2, EscrowEntry
  <2>3. Whole(InTransit', Users) = Whole(InTransit, Users) + a
    BY <1>10, <1>a, PaidInto DEF Ideal!PayFromEscrow, WithRow
  <2> QED BY <1>0, <1>10, <1>a, <2>1, <2>2, <2>3 DEF Ideal!PayFromEscrow, Everything
<1>11. ASSUME NEW o \in Users, NEW c \in Channels, Ideal!Unlock(o, c)
       PROVE  Everything' = Everything + (total_supply' - total_supply)
  <2>1. Unspent[o][c] \in Int
    BY DEF LedgerOK, Table
  <2>2. Whole(Unspent', Channels) = Whole(Unspent, Channels) + (0 - Unspent[o][c])
    <3>1. Unspent' = Written(Unspent, o, c, 0)
      BY <1>11 DEF Ideal!Unlock, Written
    <3> QED BY <3>1, EscrowEntry
  <2>3. Sum(balance', Users) = Sum(balance, Users) + Unspent[o][c]
    <3>1. balance' = Moved(balance, o, Unspent[o][c])
      BY <1>11 DEF Ideal!Unlock, Moved
    <3> QED BY <2>1, <3>1, ColumnMoves
  <2> QED BY <1>0, <1>11, <2>1, <2>2, <2>3 DEF Ideal!Unlock, Everything
<1> QED BY <1>1, <1>2, <1>3, <1>4, <1>5, <1>6, <1>7, <1>8, <1>9, <1>10, <1>11 DEF Ideal!Next

-----------------------------------------------------------------------------
(* Settled burns make up the rest of the issuance.                         *)

SettledIsRest == Sum(burn_settled, Users) = total_minted - total_supply

LEMMA NextSettled ==
    ASSUME TypeOK, SettledIsRest, [Next]_vars
    PROVE  SettledIsRest'
<1>0. /\ burn_settled \in [Users -> Int] /\ Sum(burn_settled, Users) \in Int
      /\ total_minted \in Int /\ total_supply \in Int
  <2>1. burn_settled \in [Users -> Int]
    BY DEF TypeOK
  <2> QED BY <2>1, SumType DEF TypeOK
<1>1. ASSUME UNCHANGED <<burn_settled, total_minted, total_supply>> PROVE SettledIsRest'
  BY <1>1 DEF SettledIsRest
<1>2. ASSUME NEW a \in Amounts, Issue(a), UNCHANGED burn_settled PROVE SettledIsRest'
  BY <1>0, <1>2 DEF Issue, SettledIsRest
<1>3. ASSUME NEW u \in Users, NEW v \in Users, SettleBurn(u, v) PROVE SettledIsRest'
  <2>1. PICK requested \in past_burn[v] :
          /\ burn_settled' = [burn_settled EXCEPT ![v] = requested]
          /\ total_supply' = total_supply - (requested - burn_settled[v])
          /\ total_minted' = total_minted
    BY <1>3 DEF SettleBurn, CanSettle
  <2>2. requested \in Int /\ burn_settled[v] \in Int
    BY DEF TypeOK
  <2>3. burn_settled' = Moved(burn_settled, v, requested - burn_settled[v])
    <3>1. burn_settled[v] + (requested - burn_settled[v]) = requested
      BY <2>2
    <3> QED BY <2>1, <3>1 DEF Moved
  <2>4. Sum(burn_settled', Users) = Sum(burn_settled, Users) + (requested - burn_settled[v])
    <3>1. requested - burn_settled[v] \in Int
      BY <2>2
    <3> QED BY <1>0, <2>3, <3>1, EntryMoves
  <2> QED BY <1>0, <2>1, <2>2, <2>4 DEF SettledIsRest
<1>4. CASE UNCHANGED vars
  BY <1>1, <1>4 DEF vars, supplyVars, burnVars
<1>5. ASSUME NEW u \in Users, Admin(u) \/ Payment(u) \/ Delegation(u) PROVE SettledIsRest'
  BY <1>1, <1>5, AdminFrame, PaymentFrame, DelegationFrame DEF supplyVars, burnVars
<1>6. ASSUME NEW u \in Users, Supply(u) PROVE SettledIsRest'
  BY <1>1, <1>2, <1>3, <1>6 DEF Supply, Mint, MintTo, Burn, burnVars, supplyVars
<1> QED BY <1>4, <1>5, <1>6 DEF Next

-----------------------------------------------------------------------------
(* The conservation law, in the sums of the lemmas.                        *)
Conserved == Everything = total_supply /\ SettledIsRest

LEMMA ConservedIsConservation ==
    ASSUME Conserved, LedgerOK
    PROVE  Conservation
<1>a. \A f : Total(f) = Sum(f, Users)
  BY DEF Total, Sum
<1>1. /\ Total(balance) = Sum(balance, Users) /\ Total(Unsettled) = Sum(Unsettled, Users)
      /\ Total(burn_settled) = Sum(burn_settled, Users)
      /\ \A u \in Users : Total(InTransit[u]) = Sum(InTransit[u], Users)
      /\ \A u \in Users : Locked(Unspent[u]) = Sum(Unspent[u], Channels)
  BY DEF Total, Locked, Sum
<1>2. Total([u \in Users |-> Total(InTransit[u])]) = Whole(InTransit, Users)
  <2>1. [u \in Users |-> Total(InTransit[u])] = Rows(InTransit, Users)
    BY <1>1 DEF Rows
  <2> QED BY <1>a, <2>1 DEF Whole
<1>3. Total([o \in Users |-> Locked(Unspent[o])]) = Whole(Unspent, Channels)
  <2>1. [o \in Users |-> Locked(Unspent[o])] = Rows(Unspent, Channels)
    BY <1>1 DEF Rows
  <2> QED BY <1>a, <2>1 DEF Whole
<1> QED BY <1>1, <1>2, <1>3 DEF Conserved, Everything, SettledIsRest, Conservation

LEMMA InitConserved == Init => Conserved
<1> SUFFICES ASSUME Init PROVE Conserved
  OBVIOUS
<1>1. /\ balance \in [Users -> Int] /\ \A u \in Users : balance[u] = 0
      /\ burn_settled \in [Users -> Int] /\ \A u \in Users : burn_settled[u] = 0
      /\ total_supply = 0 /\ total_minted = 0
  BY DEF Init
<1>2. Ideal!Init
  BY InitMaps
<1>3. Unsettled \in [Users -> Int] /\ \A u \in Users : Unsettled[u] = 0
  BY <1>2 DEF Ideal!Init
<1>4. ASSUME NEW Columns, IsFiniteSet(Columns)
      PROVE  Whole([u \in Users |-> [c \in Columns |-> 0]], Columns) = 0
  <2> DEFINE f == [u \in Users |-> [c \in Columns |-> 0]]
  <2>1. ASSUME NEW u \in Users PROVE Sum(f[u], Columns) = 0
    <3>1. f[u] \in [Columns -> Int] /\ \A c \in Columns : f[u][c] = 0
      OBVIOUS
    <3> HIDE DEF f
    <3> QED BY <1>4, <3>1, SumOfZeros
  <2> HIDE DEF f
  <2>2. Rows(f, Columns) \in [Users -> Int] /\ \A u \in Users : Rows(f, Columns)[u] = 0
    BY <2>1 DEF Rows
  <2>3. Whole(f, Columns) = 0
    BY <2>2, SumOfZeros DEF Whole
  <2> QED BY <2>3 DEF f
<1>5. Whole(InTransit, Users) = 0 /\ Whole(Unspent, Channels) = 0
  BY <1>2, <1>4 DEF Ideal!Init
<1>6. Sum(balance, Users) = 0 /\ Sum(Unsettled, Users) = 0 /\ Sum(burn_settled, Users) = 0
  BY <1>1, <1>3, SumOfZeros
<1> QED BY <1>1, <1>5, <1>6 DEF Conserved, Everything, SettledIsRest

LEMMA NextConserved ==
    ASSUME TypeOK, CounterInv, SlotInv, Conserved, [Next]_vars
    PROVE  Conserved'
<1>1. SettledIsRest'
  BY NextSettled DEF Conserved
<1>2. CASE UNCHANGED Ideal!ledger
  BY <1>1, <1>2 DEF Ideal!ledger, Conserved, Everything
<1>3. CASE Ideal!Next
  <2>1. Everything' = Everything + (total_supply' - total_supply)
    BY <1>3, TokenHasLedger, LedgerConserves
  <2>2. total_supply \in Int /\ total_supply' \in Int
    BY NextType DEF TypeOK
  <2>3. Everything = total_supply
    BY DEF Conserved
  <2>4. Everything' = total_supply'
    <3>1. \A s, t \in Int : s + (t - s) = t
      OBVIOUS
    <3> QED BY <2>1, <2>2, <2>3, <3>1
  <2> QED BY <1>1, <2>4 DEF Conserved
<1> QED BY <1>2, <1>3, StepMaps

(* No call creates or loses value: whatever old proofs the calls act on,   *)
(* balances, payments in transit, escrow and unsettled burns add up to the *)
(* supply, for any number of users and slots.                              *)
THEOREM ConservationOfSupply == Spec => []Conservation
<1>1. TypeOK /\ CounterInv /\ SlotInv /\ Conserved /\ [Next]_vars => Conserved'
  BY NextConserved
<1>2. TypeOK /\ SlotInv /\ Conserved => Conservation
  BY TokenHasLedger, ConservedIsConservation
<1> QED BY <1>1, <1>2, InitConserved, TypeCorrect, CountersCorrect, SlotsCorrect, PTL DEF Spec

-----------------------------------------------------------------------------
(* Progress: the writes of remotely readable entries, whichever call makes *)
(* them.                                                                   *)
LEMMA CreditSkips ==
    ASSUME NEW box \in [Users -> Nat], NEW r, NEW a \in Nat, a > 0 => r \in Users,
           NEW v \in Users, a > 0 => r # v
    PROVE  Credit(box, r, a) \in [Users -> Nat] /\ Credit(box, r, a)[v] = box[v]
    BY DEF Credit

LEMMA BatchSkips ==
    ASSUME NEW box \in [Users -> Nat], NEW r, NEW a \in [1..5 -> Felt], NEW v \in Users,
           \A i \in 1..5 : a[i] > 0 => r[i] \in Users \ {v}
    PROVE  BatchOutbox(box, r, a)[v] = box[v]
<1> DEFINE b1 == Credit(box, r[1], a[1])
           b2 == Credit(b1, r[2], a[2])
           b3 == Credit(b2, r[3], a[3])
           b4 == Credit(b3, r[4], a[4])
           b5 == Credit(b4, r[5], a[5])
<1>1. b1 \in [Users -> Nat] /\ b1[v] = box[v]
  BY CreditSkips
<1> HIDE DEF b1
<1>2. b2 \in [Users -> Nat] /\ b2[v] = b1[v]
  BY <1>1, CreditSkips
<1> HIDE DEF b2
<1>3. b3 \in [Users -> Nat] /\ b3[v] = b2[v]
  BY <1>2, CreditSkips
<1> HIDE DEF b3
<1>4. b4 \in [Users -> Nat] /\ b4[v] = b3[v]
  BY <1>3, CreditSkips
<1> HIDE DEF b4
<1>5. b5[v] = b4[v]
  BY <1>4, CreditSkips
<1> HIDE DEF b5
<1>6. BatchOutbox(box, r, a) = b5
  BY DEF BatchOutbox, b1, b2, b3, b4, b5
<1> QED BY <1>1, <1>2, <1>3, <1>4, <1>5, <1>6

PaysOthers(u) ==
    \E box \in [Users -> Felt] : WriteOutbox(u, box) /\ box[u] = amount_sent[u][u]

OutboxStep == UNCHANGED <<amount_sent, past_sent>> \/ \E u \in Users : PaysOthers(u)

BurnStep ==
    \/ UNCHANGED <<burn_requested, past_burn>>
    \/ \E u \in Users, total \in Nat : WriteBurnRequest(u, total)

LEMMA CreditPaysOthers ==
    ASSUME TypeOK, NEW u \in Users, NEW r \in Users \ {u}, NEW a \in Felt,
           a <= MaxFelt - amount_sent[u][r],
           WriteOutbox(u, Credit(amount_sent[u], r, a))
    PROVE  PaysOthers(u)
<1>1. amount_sent[u] \in [Users -> Felt]
  BY DEF TypeOK
<1>2. Credit(amount_sent[u], r, a) \in [Users -> Felt]
  BY <1>1 DEF Credit
<1>3. Credit(amount_sent[u], r, a)[u] = amount_sent[u][u]
  BY <1>1 DEF Credit
<1> QED BY <1>2, <1>3 DEF PaysOthers

LEMMA BatchPaysOthers ==
    ASSUME TypeOK, NEW u \in Users, NEW r, NEW a \in [1..5 -> Felt], BatchTransfer(u, r, a)
    PROVE  PaysOthers(u)
<1> DEFINE box == BatchOutbox(amount_sent[u], r, a)
<1>1. amount_sent[u] \in [Users -> Nat]
  BY DEF TypeOK
<1>2. \A i \in 1..5 : a[i] > 0 => r[i] \in Users \ {u}
  BY DEF BatchTransfer
<1>3. box \in [Users -> Nat] /\ box[u] = amount_sent[u][u]
  BY <1>1, <1>2, BatchOutboxGrows, BatchSkips
<1>4. WriteOutbox(u, box) /\ \A v \in Users : box[v] <= MaxFelt
  BY DEF BatchTransfer
<1> HIDE DEF box
<1>5. box \in [Users -> Felt]
  BY <1>3, <1>4
<1> QED BY <1>3, <1>4, <1>5 DEF PaysOthers

LEMMA SupplyWrites ==
    ASSUME TypeOK, NEW u \in Users, Supply(u)
    PROVE  OutboxStep /\ BurnStep
<1>1. CASE \E a \in Amounts : Mint(u, a)
  BY <1>1 DEF Mint, burnVars, payVars, OutboxStep, BurnStep
<1>2. ASSUME NEW v \in Users, NEW a \in Amounts, MintTo(u, v, a) PROVE OutboxStep /\ BurnStep
  BY <1>2, CreditPaysOthers DEF MintTo, burnVars, OutboxStep, BurnStep
<1>3. ASSUME NEW a \in Amounts, Burn(u, a) PROVE OutboxStep /\ BurnStep
  <2>1. burn_requested[u] + a \in Nat
    BY DEF TypeOK
  <2>2. WriteBurnRequest(u, burn_requested[u] + a) /\ UNCHANGED payVars
    BY <1>3 DEF Burn
  <2> QED BY <2>1, <2>2 DEF payVars, OutboxStep, BurnStep
<1>4. ASSUME NEW v \in Users, SettleBurn(u, v) PROVE OutboxStep /\ BurnStep
  BY <1>4 DEF SettleBurn, payVars, OutboxStep, BurnStep
<1> QED BY <1>1, <1>2, <1>3, <1>4 DEF Supply

LEMMA PaymentWrites ==
    ASSUME TypeOK, NEW u \in Users, Payment(u)
    PROVE  OutboxStep /\ BurnStep
<1>1. BurnStep
  BY PaymentFrame DEF burnVars, BurnStep
<1>2. ASSUME NEW v \in Users, NEW a \in Amounts, Transfer(u, v, a) PROVE OutboxStep
  BY <1>2, CreditPaysOthers DEF Transfer, OutboxStep
<1>3. ASSUME NEW v \in Users, Claim(u, v) PROVE OutboxStep
  BY <1>3 DEF Claim, OutboxStep
<1>4. ASSUME NEW v \in Users, CancelUnclaimedPayment(u, v) PROVE OutboxStep
  <2>1. PICK t \in past_sent[v][u] :
          /\ t > amount_claimed[u][v]
          /\ t - amount_claimed[u][v] <= MaxFelt - amount_sent[u][v]
          /\ WriteOutbox(u, Credit(amount_sent[u], v, t - amount_claimed[u][v]))
    BY <1>4 DEF CancelUnclaimedPayment
  <2>2. v \in Users \ {u} /\ t \in Felt /\ amount_claimed[u][v] \in Felt
    BY <1>4 DEF CancelUnclaimedPayment, TypeOK
  <2>3. t - amount_claimed[u][v] \in Felt
    BY <2>1, <2>2
  <2> QED BY <2>1, <2>2, <2>3, CreditPaysOthers DEF OutboxStep
<1>5. ASSUME NEW v \in Users, NEW a \in Amounts, RefundClaimedPayment(u, v, a) PROVE OutboxStep
  <2>1. v \in Users \ {u} /\ a \in Felt /\ a <= amount_claimed[u][v] - amount_sent[u][v]
    BY <1>5 DEF RefundClaimedPayment
  <2>2. amount_claimed[u][v] \in Felt /\ amount_sent[u][v] \in Felt
    BY DEF TypeOK
  <2>3. a <= MaxFelt - amount_sent[u][v]
    BY <2>1, <2>2
  <2> QED BY <1>5, <2>1, <2>3, CreditPaysOthers DEF RefundClaimedPayment, OutboxStep
<1>6. ASSUME NEW b \in Batches2, BatchTransfer2(u, b) PROVE OutboxStep
  BY <1>6, Batch2Entries, BatchPaysOthers DEF BatchTransfer2, OutboxStep
<1>7. ASSUME NEW b \in Batches5, BatchTransfer5(u, b) PROVE OutboxStep
  BY <1>7, Batch5Entries, BatchPaysOthers DEF BatchTransfer5, OutboxStep
<1> QED BY <1>1, <1>2, <1>3, <1>4, <1>5, <1>6, <1>7 DEF Payment

LEMMA DelegationWrites ==
    ASSUME TypeOK, NEW u \in Users, Delegation(u)
    PROVE  OutboxStep /\ BurnStep
<1>1. BurnStep
  BY DelegationFrame DEF burnVars, BurnStep
<1>2. PICK c \in Channels, v \in Users :
        \/ \E a \in Amounts : OpenDelegationChannel(u, c, v, a)
        \/ \E a \in Amounts, r \in Users : SpendDelegation(u, v, c, a, r)
        \/ RequestRevokeDelegation(u, c)
        \/ CloseDelegationChannel(u, v, c)
        \/ FinalizeRevokeDelegation(u, c, v)
  BY DEF Delegation
<1>3. ASSUME NEW a \in Amounts, NEW r \in Users, SpendDelegation(u, v, c, a, r) PROVE OutboxStep
  <2>1. /\ r \in Users \ {u} /\ a <= MaxFelt - amount_sent[u][r]
        /\ WriteOutbox(u, Credit(amount_sent[u], r, a))
    BY <1>3 DEF SpendDelegation
  <2> QED BY <2>1, CreditPaysOthers DEF OutboxStep
<1>4. ASSUME UNCHANGED payVars PROVE OutboxStep
  BY <1>4 DEF payVars, OutboxStep
<1>5. CASE \E a \in Amounts : OpenDelegationChannel(u, c, v, a)
  BY <1>1, <1>4, <1>5 DEF OpenDelegationChannel
<1>6. CASE RequestRevokeDelegation(u, c)
  BY <1>1, <1>4, <1>6 DEF RequestRevokeDelegation
<1>7. CASE CloseDelegationChannel(u, v, c)
  BY <1>1, <1>4, <1>7 DEF CloseDelegationChannel
<1>8. CASE FinalizeRevokeDelegation(u, c, v)
  BY <1>1, <1>4, <1>8 DEF FinalizeRevokeDelegation
<1> QED BY <1>1, <1>2, <1>3, <1>5, <1>6, <1>7, <1>8

LEMMA NextWrites == TypeOK /\ [Next]_vars => OutboxStep /\ BurnStep
<1> SUFFICES ASSUME TypeOK, [Next]_vars PROVE OutboxStep /\ BurnStep
  OBVIOUS
<1>1. CASE UNCHANGED vars
  BY <1>1 DEF vars, payVars, burnVars, OutboxStep, BurnStep
<1>2. ASSUME NEW u \in Users, Admin(u) PROVE OutboxStep /\ BurnStep
  BY <1>2, AdminFrame DEF payVars, burnVars, OutboxStep, BurnStep
<1> QED BY <1>1, <1>2, SupplyWrites, PaymentWrites, DelegationWrites DEF Next

-----------------------------------------------------------------------------
(* The invariant of progress.                                              *)
LEMMA InitProgress == Init => ProgressInv
<1> SUFFICES ASSUME Init PROVE ProgressInv
  OBVIOUS
<1>1. PresentIsProvable
  BY DEF Init, PresentIsProvable
<1>2. NobodyPaysItself
  BY DEF Init, NobodyPaysItself
<1>3. OverIsClosed
  BY DEF Init, OverIsClosed, NoSpend
<1> QED BY <1>1, <1>2, <1>3 DEF ProgressInv

LEMMA OutboxProvable ==
    ASSUME TypeOK, OutboxStep, ProgressInv
    PROVE  /\ \A u, v \in Users : amount_sent'[u][v] \in past_sent'[u][v]
           /\ NobodyPaysItself'
<1>1. CASE UNCHANGED <<amount_sent, past_sent>>
  BY <1>1 DEF ProgressInv, PresentIsProvable, NobodyPaysItself
<1>2. ASSUME NEW w \in Users, NEW box \in [Users -> Felt], WriteOutbox(w, box),
             box[w] = amount_sent[w][w]
      PROVE  /\ \A u, v \in Users : amount_sent'[u][v] \in past_sent'[u][v]
             /\ NobodyPaysItself'
  <2> DEFINE past == [x \in Users |-> past_sent[w][x] \cup {box[x]}]
  <2>1. amount_sent' = [amount_sent EXCEPT ![w] = box] /\ past_sent' = [past_sent EXCEPT ![w] = past]
    BY <1>2 DEF WriteOutbox
  <2>2. \A v \in Users : box[v] \in past[v]
    OBVIOUS
  <2> HIDE DEF past
  <2>3. /\ amount_sent'[w] = box /\ past_sent'[w] = past
        /\ \A u \in Users \ {w} : amount_sent'[u] = amount_sent[u] /\ past_sent'[u] = past_sent[u]
    BY <2>1 DEF TypeOK
  <2> QED BY <1>2, <2>2, <2>3 DEF ProgressInv, PresentIsProvable, NobodyPaysItself
<1> QED BY <1>1, <1>2 DEF OutboxStep, PaysOthers

LEMMA BurnProvable ==
    ASSUME TypeOK, BurnStep, ProgressInv
    PROVE  \A u \in Users : burn_requested'[u] \in past_burn'[u]
<1>1. CASE UNCHANGED <<burn_requested, past_burn>>
  BY <1>1 DEF ProgressInv, PresentIsProvable
<1>2. ASSUME NEW w \in Users, NEW total \in Nat, WriteBurnRequest(w, total)
      PROVE  \A u \in Users : burn_requested'[u] \in past_burn'[u]
  BY <1>2 DEF WriteBurnRequest, TypeOK, ProgressInv, PresentIsProvable
<1> QED BY <1>1, <1>2 DEF BurnStep

(* The slots: a version is over when its slot is refunded, which asks for  *)
(* the spender's closed ledger.                                            *)
LEMMA SlotProvable ==
    ASSUME TypeOK, SlotInv, SlotStep, ProgressInv
    PROVE  /\ \A o \in Users, c \in Channels : delegations'[o][c] \in past_delegations'[o][c]
           /\ \A s, o \in Users, c \in Channels :
                delegation_spends'[s][o][c] \in past_spends'[s][o][c]
<1> DEFINE Goal == /\ \A p \in Users, d \in Channels : delegations'[p][d] \in past_delegations'[p][d]
                   /\ \A t, p \in Users, d \in Channels :
                        delegation_spends'[t][p][d] \in past_spends'[t][p][d]
<1>1. CASE UNCHANGED delegVars
  BY <1>1 DEF delegVars, ProgressInv, PresentIsProvable
<1>2. ASSUME NEW o \in Users, NEW c \in Channels, NEW ch, WriteChannel(o, c, ch)
      PROVE  Goal
  BY <1>2, ChannelWrite DEF ProgressInv, PresentIsProvable
<1>3. ASSUME NEW s \in Users, NEW o \in Users, NEW c \in Channels, NEW l, WriteLedger(s, o, c, l)
      PROVE  Goal
  <2>1. UNCHANGED <<delegations, past_delegations>> /\ delegation_spends'[s][o][c] \in past_spends'[s][o][c]
    BY <1>3, LedgerWritten
  <2>2. ASSUME NEW t \in Users, NEW p \in Users, NEW d \in Channels, t # s \/ p # o \/ d # c
        PROVE  delegation_spends'[t][p][d] \in past_spends'[t][p][d]
    BY <1>3, <2>2, OtherLedgersKept DEF ProgressInv, PresentIsProvable
  <2> QED BY <2>1, <2>2 DEF ProgressInv, PresentIsProvable
<1> QED BY <1>1, <1>2, <1>3 DEF SlotStep, Opened, RevocationAsked, Refunded, LedgerKept

LEMMA OverStaysClosed ==
    ASSUME TypeOK, SlotInv, SlotStep, OverIsClosed
    PROVE  OverIsClosed'
<1> DEFINE Over(s, p, d) ==
             LET l == delegation_spends'[s][p][d] IN
             \/ l.channel_version = 0 \/ l.closed = 1
             \/ Escrowed(p, d)' /\ l.channel_version = delegations'[p][d].channel_version
<1>1. CASE UNCHANGED delegVars
  BY <1>1 DEF delegVars, OverIsClosed, Escrowed
<1>2. ASSUME NEW o \in Users, NEW c \in Channels, NEW ch, WriteChannel(o, c, ch),
             NEW s \in Users, NEW p \in Users, NEW d \in Channels, p # o \/ d # c
      PROVE  Over(s, p, d)
  BY <1>2, ChannelWrite DEF OverIsClosed, Escrowed
<1>3. ASSUME NEW o \in Users, NEW c \in Channels, NEW ch, Opened(o, c, ch), NEW s \in Users
      PROVE  Over(s, o, c)
  <2>1. delegation_spends' = delegation_spends /\ ~Escrowed(o, c)
    BY <1>3, ChannelWrite DEF Opened
  <2> QED BY <2>1 DEF OverIsClosed
<1>4. ASSUME NEW o \in Users, NEW c \in Channels, NEW ch, RevocationAsked(o, c, ch), NEW s \in Users
      PROVE  Over(s, o, c)
  <2>1. /\ delegation_spends' = delegation_spends /\ delegations'[o][c] = ch
        /\ ch.status = REVOKE_PENDING /\ ch.channel_version = delegations[o][c].channel_version
    BY <1>4, ChannelWrite DEF RevocationAsked
  <2>2. Escrowed(o, c)'
    BY <2>1 DEF Escrowed
  <2> QED BY <2>1, <2>2 DEF OverIsClosed
<1>5. ASSUME NEW o \in Users, NEW c \in Channels, NEW ch, Refunded(o, c, ch), NEW s \in Users
      PROVE  Over(s, o, c)
  <2>1. /\ delegation_spends' = delegation_spends /\ Escrowed(o, c)
        /\ IsSettled(delegation_spends[delegations[o][c].spender][o][c], delegations[o][c])
    BY <1>5, ChannelWrite DEF Refunded
  <2>2. CASE s = delegations[o][c].spender
    BY <2>1, <2>2 DEF IsSettled
  <2>3. CASE s # delegations[o][c].spender
    BY <2>1, <2>3 DEF OverIsClosed, SlotInv, LedgersWellFormed
  <2> QED BY <2>2, <2>3
<1>6. ASSUME NEW r \in Users, NEW o \in Users, NEW c \in Channels, NEW l, LedgerKept(r, o, c, l),
             NEW s \in Users, NEW p \in Users, NEW d \in Channels
      PROVE  Over(s, p, d)
  <2>1. /\ UNCHANGED <<delegations, past_delegations>> /\ delegation_spends'[r][o][c] = l
        /\ Escrowed(o, c) /\ l.channel_version = delegations[o][c].channel_version
    BY <1>6, LedgerWritten DEF LedgerKept
  <2>2. \A q \in Users, e \in Channels : Escrowed(q, e)' <=> Escrowed(q, e)
    BY <2>1 DEF Escrowed
  <2>3. CASE s = r /\ p = o /\ d = c
    BY <2>1, <2>2, <2>3
  <2>4. CASE s # r \/ p # o \/ d # c
    <3>1. delegation_spends'[s][p][d] = delegation_spends[s][p][d]
      BY <1>6, <2>4, OtherLedgersKept DEF LedgerKept
    <3> QED BY <2>1, <2>2, <3>1 DEF OverIsClosed
  <2> QED BY <2>3, <2>4
<1>7. CASE \E o \in Users, c \in Channels, ch \in DelegationChannel :
             Opened(o, c, ch) \/ RevocationAsked(o, c, ch) \/ Refunded(o, c, ch)
  <2>1. PICK o \in Users, c \in Channels, ch \in DelegationChannel :
          Opened(o, c, ch) \/ RevocationAsked(o, c, ch) \/ Refunded(o, c, ch)
    BY <1>7
  <2>2. WriteChannel(o, c, ch)
    BY <2>1 DEF Opened, RevocationAsked, Refunded
  <2>3. \A s, p \in Users, d \in Channels : Over(s, p, d)
    BY <1>2, <1>3, <1>4, <1>5, <2>1, <2>2
  <2> QED BY <2>3 DEF OverIsClosed
<1>8. CASE \E s, o \in Users, c \in Channels, l \in DelegationSpend : LedgerKept(s, o, c, l)
  <2>1. \A s, p \in Users, d \in Channels : Over(s, p, d)
    BY <1>6, <1>8
  <2> QED BY <2>1 DEF OverIsClosed
<1> QED BY <1>1, <1>7, <1>8 DEF SlotStep

LEMMA NextProgress == TypeOK /\ SlotInv /\ ProgressInv /\ [Next]_vars => ProgressInv'
<1> SUFFICES ASSUME TypeOK, SlotInv, ProgressInv, [Next]_vars PROVE ProgressInv'
  OBVIOUS
<1>1. OutboxStep /\ BurnStep /\ SlotStep
  BY NextWrites, NextIsSlotStep
<1>2. PresentIsProvable'
  BY <1>1, OutboxProvable, BurnProvable, SlotProvable DEF PresentIsProvable
<1>3. NobodyPaysItself'
  BY <1>1, OutboxProvable
<1>4. OverIsClosed'
  BY <1>1, OverStaysClosed DEF ProgressInv
<1> QED BY <1>2, <1>3, <1>4 DEF ProgressInv

LEMMA ProgressCorrect == Spec => []ProgressInv
  BY InitProgress, NextProgress, TypeCorrect, SlotsCorrect, PTL DEF Spec

(* The invariant TLC checks on small instances holds on every instance.    *)
THEOREM TokenCorrect == Spec => []TokenInv
    BY TypeCorrect, CountersCorrect, SupplySafety, SlotsCorrect, ProgressCorrect, PTL DEF TokenInv

-----------------------------------------------------------------------------
(* Nothing is stranded: the proof is at hand, the ledgers admit it, and,   *)
(* since all places together hold the supply, there is room for it.        *)
LEMMA WholeBounds ==
    ASSUME NEW Columns, IsFiniteSet(Columns), NEW f \in Table(Columns),
           \A p \in Users, q \in Columns : f[p][q] >= 0
    PROVE  /\ Whole(f, Columns) \in Int /\ Whole(f, Columns) >= 0
           /\ \A p \in Users, q \in Columns : f[p][q] <= Whole(f, Columns)
<1>1. f \in Tables(Users, Columns) /\ Whole(f, Columns) = TableSum(f, Users, Columns)
  BY DEF Table, Tables, Whole, TableSum, Rows, RowSums
<1> QED BY <1>1, TableSumBounds

LEMMA RoomForAll ==
    ASSUME TypeOK, CounterInv, SlotInv, Conserved
    PROVE  /\ \A u, v \in Users : balance[v] + InTransit[u][v] <= MaxFelt
           /\ \A u \in Users : Unsettled[u] <= total_supply
           /\ \A o \in Users, c \in Channels : balance[o] + Unspent[o][c] <= MaxFelt
<1>1. LedgerOK
  BY TokenHasLedger
<1>2. /\ \A u \in Users : balance[u] >= 0 /\ Unsettled[u] >= 0
      /\ \A u, v \in Users : InTransit[u][v] >= 0
  BY DEF TypeOK, CounterInv, ClaimedWithinSent, SettledWithinRequested, Unsettled, InTransit
<1>3. \A o \in Users, c \in Channels : Unspent[o][c] >= 0
  <2> SUFFICES ASSUME NEW o \in Users, NEW c \in Channels PROVE Unspent[o][c] >= 0
    OBVIOUS
  <2>1. CASE Escrowed(o, c)
    BY <2>1, HeldIsNat
  <2>2. CASE ~Escrowed(o, c)
    BY <2>2 DEF Unspent, Remaining
  <2> QED BY <2>1, <2>2
<1>4. /\ Sum(balance, Users) \in Int /\ \A u \in Users : balance[u] \in Int /\ balance[u] <= Sum(balance, Users)
      /\ Sum(balance, Users) >= 0
  BY <1>1, <1>2, SumBounds DEF LedgerOK
<1>5. /\ Sum(Unsettled, Users) \in Int /\ Sum(Unsettled, Users) >= 0
      /\ \A u \in Users : Unsettled[u] \in Int /\ Unsettled[u] <= Sum(Unsettled, Users)
  BY <1>1, <1>2, SumBounds DEF LedgerOK
<1>6. /\ Whole(InTransit, Users) \in Int /\ Whole(InTransit, Users) >= 0
      /\ \A u, v \in Users : InTransit[u][v] <= Whole(InTransit, Users)
  BY <1>1, <1>2, WholeBounds DEF LedgerOK
<1>7. /\ Whole(Unspent, Channels) \in Int /\ Whole(Unspent, Channels) >= 0
      /\ \A o \in Users, c \in Channels : Unspent[o][c] <= Whole(Unspent, Channels)
  BY <1>1, <1>3, WholeBounds DEF LedgerOK
<1>8. /\ Sum(balance, Users) + Whole(InTransit, Users) + Whole(Unspent, Channels)
           + Sum(Unsettled, Users) = total_supply
      /\ total_supply \in Int /\ total_supply <= MaxFelt /\ MaxFelt \in Int
  BY DEF Conserved, Everything, TypeOK
<1>9. \A u, v \in Users : InTransit[u][v] \in Int
  BY <1>1 DEF LedgerOK, Table
<1>10. \A o \in Users, c \in Channels : Unspent[o][c] \in Int
  BY <1>1 DEF LedgerOK, Table
<1>11. ASSUME NEW u \in Users, NEW v \in Users PROVE balance[v] + InTransit[u][v] <= MaxFelt
  BY <1>4, <1>5, <1>6, <1>7, <1>8, <1>9
<1>12. ASSUME NEW u \in Users PROVE Unsettled[u] <= total_supply
  BY <1>4, <1>5, <1>6, <1>7, <1>8
<1>13. ASSUME NEW o \in Users, NEW c \in Channels PROVE balance[o] + Unspent[o][c] <= MaxFelt
  BY <1>4, <1>5, <1>6, <1>7, <1>8, <1>10
<1> QED BY <1>11, <1>12, <1>13

LEMMA PaymentsGetThrough ==
    ASSUME TypeOK, CounterInv, SlotInv, ProgressInv, Conserved, NEW u \in Users, NEW v \in Users,
           amount_claimed[v][u] < amount_sent[u][v]
    PROVE  \E total \in past_sent[u][v] : CanClaim(v, u, total)
<1>1. amount_sent[u][v] \in past_sent[u][v]
  BY DEF ProgressInv, PresentIsProvable
<1>2. /\ amount_sent[u][v] \in Felt /\ amount_claimed[v][u] \in Felt /\ balance[v] \in Felt
      /\ InTransit[u][v] = amount_sent[u][v] - amount_claimed[v][u]
  BY DEF TypeOK, InTransit
<1>3. u # v
  BY <1>2 DEF ProgressInv, NobodyPaysItself
<1>4. balance[v] + InTransit[u][v] <= MaxFelt
  BY RoomForAll
<1>5. CanClaim(v, u, amount_sent[u][v])
  BY <1>2, <1>3, <1>4 DEF CanClaim, IsNews
<1> QED BY <1>1, <1>5

LEMMA BurnsGetThrough ==
    ASSUME TypeOK, CounterInv, SlotInv, ProgressInv, Conserved, NEW u \in Users,
           burn_settled[u] < burn_requested[u]
    PROVE  \E total \in past_burn[u] : CanSettle(Issuer, u, total)
<1>1. burn_requested[u] \in past_burn[u]
  BY DEF ProgressInv, PresentIsProvable
<1>2. /\ burn_requested[u] \in Felt /\ burn_settled[u] \in Felt
      /\ Unsettled[u] = burn_requested[u] - burn_settled[u] /\ total_supply \in Int
  BY DEF TypeOK, Unsettled
<1>3. Unsettled[u] <= total_supply
  BY RoomForAll
<1>4. CanSettle(Issuer, u, burn_requested[u])
  BY <1>2, <1>3 DEF CanSettle
<1> QED BY <1>1, <1>4

LEMMA EscrowGetsBack ==
    ASSUME TypeOK, CounterInv, SlotInv, ProgressInv, Conserved, NEW u \in Users, NEW v \in Users,
           NEW c \in Channels, Escrowed(u, c), delegations[u][c].spender = v
    PROVE  \/ \E ch \in past_delegations[u][c] : CanClose(v, u, c, ch)
           \/ delegations[u][c].status = ACTIVE
           \/ \E ledger \in past_spends[v][u][c] : CanFinalize(u, c, v, ledger)
<1> DEFINE ch == delegations[u][c]
           l == delegation_spends[v][u][c]
<1>1. ch \in past_delegations[u][c] /\ l \in past_spends[v][u][c]
  BY DEF ProgressInv, PresentIsProvable
<1>2. ch.spender = v /\ v # u /\ ch.channel_version > 0 /\ ch.status \in {ACTIVE, REVOKE_PENDING}
  BY DEF Escrowed, SlotInv, SlotsWellFormed
<1>3. /\ l.channel_version \in Nat /\ ch.channel_version \in Nat /\ l.closed \in {0, 1}
      /\ l.spent \in Nat /\ ch.allocated_amount \in Nat /\ balance[u] \in Nat
  <2>1. /\ l.channel_version \in Felt /\ l.closed \in {0, 1} /\ l.spent \in Felt
        /\ ch.allocated_amount \in Felt /\ ch.channel_version \in Felt
    BY SlotTypes
  <2>2. balance[u] \in Felt
    BY DEF TypeOK
  <2> QED BY <2>1, <2>2
<1>4. l.channel_version <= ch.channel_version
  BY DEF SlotInv, LedgersWellFormed
<1>5. \/ l.channel_version = 0 \/ l.closed = 1
      \/ l.channel_version = ch.channel_version
  BY DEF ProgressInv, OverIsClosed
<1>6. CASE l.channel_version = ch.channel_version /\ l.closed = 1
  <2>1. PaidOut(u, c) = l.spent /\ l.spent <= ch.allocated_amount
    BY <1>2, <1>6 DEF PaidOut, LedgerFor, SlotInv, SpentWithinAllocation
  <2>2. Unspent[u][c] = ch.allocated_amount - l.spent
    BY <2>1 DEF Unspent, Remaining
  <2>3. balance[u] + Unspent[u][c] <= MaxFelt
    BY RoomForAll
  <2>4. ch.allocated_amount - l.spent <= MaxFelt - balance[u]
    BY <1>3, <2>2, <2>3
  <2>5. ch.status = REVOKE_PENDING => CanFinalize(u, c, v, l)
    BY <1>2, <1>6, <2>1, <2>4 DEF CanFinalize, IsSettled
  <2> QED BY <1>1, <1>2, <2>5
<1>7. CASE ~(l.channel_version = ch.channel_version /\ l.closed = 1)
  <2>1. LedgerAdmits(l, ch.channel_version)
    BY <1>3, <1>4, <1>5, <1>7 DEF LedgerAdmits
  <2>2. CanClose(v, u, c, ch)
    BY <1>2, <2>1 DEF CanClose
  <2> QED BY <1>1, <2>2
<1> QED BY <1>6, <1>7

(* THEOREM: no value is stranded, whatever old proofs others have used:    *)
(* every payment in transit can be claimed, every burn settled and every   *)
(* escrow closed and refunded (claim, settle_burn, close_delegation_channel *)
(* and finalize_revoke_delegation).  No sum overflows on the way, since    *)
(* all that is held together is the supply, a field element.               *)
THEOREM NoValueIsStranded == Spec => []NothingStranded
<1>1. TypeOK /\ CounterInv /\ SlotInv /\ ProgressInv /\ Conserved => NothingStranded
  BY PaymentsGetThrough, BurnsGetThrough, EscrowGetsBack DEF NothingStranded
<1>2. TypeOK /\ CounterInv /\ SlotInv /\ Conserved /\ [Next]_vars => Conserved'
  BY NextConserved
<1> QED BY <1>1, <1>2, InitConserved, TypeCorrect, CountersCorrect, SlotsCorrect, ProgressCorrect, PTL DEF Spec
=============================================================================
