---------------------------- MODULE PsyNFTProofs ----------------------------
(***************************************************************************)
(* Proofs of PsyNFTProps for any set of users, any number of slots and any *)
(* size of the field.                                                      *)
(***************************************************************************)
EXTENDS PsyNFTProps, SequenceTheorems, Sums, TLAPS

USE UsersAssumption, MaxFeltAssumption, CapsAssumption DEF Felt, Token, NoToken, Window
-----------------------------------------------------------------------------
(* The ring.                                                               *)

LEMMA EntryInRing ==
    ASSUME NEW n \in Nat
    PROVE  QueueEntry(n) \in 0..Window-1
    BY DEF QueueEntry

(* Positions less than four apart have different entries.                  *)
LEMMA EntriesApart ==
    ASSUME NEW n \in Nat, NEW m \in Nat, n < m, m < n + Window
    PROVE  QueueEntry(n) # QueueEntry(m)
    BY DEF QueueEntry
-----------------------------------------------------------------------------
(* Types.                                                                  *)

LEMMA InitType == Init => TypeOK
    BY EntryInRing DEF Init, TypeOK, Ring, EmptyRing, Outbox

LEMMA ClearType ==
    ASSUME TypeOK, NEW u \in Users, NEW s \in Slots, Clear(u, s), balance[u] > 0
    PROVE  /\ balance' \in [Users -> Felt]
           /\ owned_tokens' \in [Users -> [Slots -> Token \cup {NoToken}]]
<1>1. balance' \in [Users -> Felt]
  BY DEF Clear, TypeOK
<1>2. owned_tokens' \in [Users -> [Slots -> Token \cup {NoToken}]]
  BY DEF Clear, TypeOK
<1> QED BY <1>1, <1>2

LEMMA TransferType ==
    ASSUME TypeOK, NEW u \in Users, NEW s \in Slots, NEW v \in Users, Transfer(u, s, v)
    PROVE  /\ ring' \in [Users -> [Users -> Ring]]
           /\ nonce_sent' \in [Users -> [Users -> Felt]]
           /\ past_outbox' \in [Users -> [Users -> SUBSET Outbox]]
<1> DEFINE n == nonce_sent[u][v]
           entries == [ring[u][v] EXCEPT ![QueueEntry(n)] = owned_tokens[u][s]]
<1>1. n \in Nat /\ n + 1 \in Felt
  BY DEF Transfer, TypeOK
<1>2. entries \in Ring
  <2>1. ring[u][v] \in Ring /\ owned_tokens[u][s] \in Token \cup {NoToken}
    BY DEF TypeOK
  <2> QED BY <2>1 DEF Ring
<1>3. /\ ring' = [ring EXCEPT ![u][v] = entries]
      /\ nonce_sent' = [nonce_sent EXCEPT ![u][v] = n + 1]
      /\ past_outbox' = [past_outbox EXCEPT ![u][v] =
                            @ \cup {[ring |-> entries, nonce_sent |-> n + 1]}]
  BY DEF Transfer
<1>4. [ring |-> entries, nonce_sent |-> n + 1] \in Outbox
  BY <1>1, <1>2 DEF Outbox
<1> HIDE DEF n, entries
<1>5. ring' \in [Users -> [Users -> Ring]]
  BY <1>2, <1>3 DEF TypeOK
<1>6. nonce_sent' \in [Users -> [Users -> Felt]]
  BY <1>1, <1>3 DEF TypeOK
<1>7. past_outbox' \in [Users -> [Users -> SUBSET Outbox]]
  BY <1>3, <1>4 DEF TypeOK
<1> QED BY <1>5, <1>6, <1>7

LEMMA ClaimType ==
    ASSUME TypeOK, NEW u \in Users, NEW s \in Slots, NEW v \in Users, Claim(u, s, v)
    PROVE  /\ balance' \in [Users -> Felt]
           /\ owned_tokens' \in [Users -> [Slots -> Token \cup {NoToken}]]
           /\ nonce_claimed' \in [Users -> [Users -> Felt]]
           /\ past_claimed' \in [Users -> [Users -> SUBSET Felt]]
<1>1. PICK outbox \in past_outbox[v][u] :
        LET claimed == nonce_claimed[u][v]
            token == NextUnclaimed(outbox, claimed)
        IN /\ owned_tokens' = [owned_tokens EXCEPT ![u][s] = token]
           /\ nonce_claimed' = [nonce_claimed EXCEPT ![u][v] = NextCursor(claimed)]
           /\ past_claimed' = [past_claimed EXCEPT ![u][v] = @ \cup {NextCursor(claimed)}]
  BY DEF Claim, CanClaim
<1>2. outbox \in Outbox /\ nonce_claimed[u][v] \in Nat /\ nonce_claimed[u][v] + 1 \in Felt
  BY DEF Claim, CanClaim, TypeOK
<1>3. NextUnclaimed(outbox, nonce_claimed[u][v]) \in Token \cup {NoToken}
  BY <1>2, EntryInRing DEF NextUnclaimed, Outbox, Ring
<1>4. balance' \in [Users -> Felt]
  BY DEF Claim, CanClaim, TypeOK
<1>5. owned_tokens' \in [Users -> [Slots -> Token \cup {NoToken}]]
  BY <1>1, <1>3 DEF TypeOK
<1>6. nonce_claimed' \in [Users -> [Users -> Felt]]
  BY <1>1, <1>2 DEF TypeOK, NextCursor
<1>7. past_claimed' \in [Users -> [Users -> SUBSET Felt]]
  BY <1>1, <1>2 DEF TypeOK, NextCursor
<1> QED BY <1>4, <1>5, <1>6, <1>7

LEMMA NextType == TypeOK /\ [Next]_vars => TypeOK'
<1> SUFFICES ASSUME TypeOK, [Next]_vars PROVE TypeOK'
  OBVIOUS
<1> USE DEF adminVars, supplyVars, homeVars, burnVars, sentVars, seenVars
<1>1. CASE UNCHANGED vars
  BY <1>1 DEF TypeOK, vars
<1>2. ASSUME NEW u \in Users, Admin(u) PROVE TypeOK'
  BY <1>2 DEF TypeOK, Admin, SetCollectionMetadata, SetCollectionDetails, SetMaxSupply,
              RenounceMintAuthority
<1>3. ASSUME NEW u \in Users, NEW s \in Slots, Mint(u, s) PROVE TypeOK'
  <2>1. total_minted + 1 \in Felt /\ total_supply + 1 \in Felt /\ balance[u] + 1 \in Felt
    BY <1>3 DEF Mint, TypeOK
  <2>2. owned_tokens' \in [Users -> [Slots -> Token \cup {NoToken}]]
    BY <1>3, <2>1 DEF Mint, NextLocalId, TypeOK
  <2>3. balance' \in [Users -> Felt]
    BY <1>3, <2>1 DEF Mint, NextLocalId, TypeOK
  <2> QED BY <1>3, <2>1, <2>2, <2>3 DEF Mint, TypeOK
<1>4. ASSUME NEW u \in Users, NEW s \in Slots, Burn(u, s) PROVE TypeOK'
  <2>1. burn_requested[u] + 1 \in Felt
    BY <1>4 DEF Burn, TypeOK
  <2>2. burn_requested' \in [Users -> Felt] /\ past_burn' \in [Users -> SUBSET Felt]
    BY <1>4, <2>1 DEF Burn, TypeOK
  <2> QED BY <1>4, <2>2, ClearType DEF Burn, TypeOK
<1>5. ASSUME NEW u \in Users, NEW v \in Users, SettleBurn(u, v) PROVE TypeOK'
  <2>1. PICK requested \in past_burn[v] :
          /\ requested > burn_settled[v]
          /\ total_supply >= requested - burn_settled[v]
          /\ burn_settled' = [burn_settled EXCEPT ![v] = requested]
          /\ total_supply' = total_supply - (requested - burn_settled[v])
    BY <1>5 DEF SettleBurn, CanSettle, NewlyBurned
  <2>2. requested \in Felt /\ burn_settled[v] \in Felt /\ total_supply \in Felt
    BY DEF TypeOK
  <2>3. total_supply' \in Felt
    BY <2>1, <2>2
  <2>4. burn_settled' \in [Users -> Felt]
    BY <2>1, <2>2 DEF TypeOK
  <2> QED BY <1>5, <2>3, <2>4 DEF SettleBurn, TypeOK
<1>6. ASSUME NEW u \in Users, NEW v \in Users, Acknowledge(u, v) PROVE TypeOK'
  <2>1. nonce_acked' \in [Users -> [Users -> Felt]]
    BY <1>6 DEF Acknowledge, CanAcknowledge, TypeOK
  <2> QED BY <1>6, <2>1 DEF Acknowledge, TypeOK
<1>7. ASSUME NEW u \in Users, NEW s \in Slots, NEW v \in Users, Transfer(u, s, v) PROVE TypeOK'
  <2>1. balance[u] > 0 /\ Clear(u, s)
    BY <1>7 DEF Transfer, TypeOK
  <2> QED BY <1>7, <2>1, ClearType, TransferType DEF Transfer, TypeOK
<1>8. ASSUME NEW u \in Users, NEW s \in Slots, NEW v \in Users, Claim(u, s, v) PROVE TypeOK'
  BY <1>8, ClaimType DEF Claim, TypeOK
<1> QED BY <1>1, <1>2, <1>3, <1>4, <1>5, <1>6, <1>7, <1>8 DEF Next, Holding, Passing

(* No call wraps: every counter stays a field element.                     *)
THEOREM TypeCorrect == Spec => []TypeOK
    BY InitType, NextType, PTL DEF Spec
-----------------------------------------------------------------------------
(* What the two calls that use a ring do to its pending entries.  A proof  *)
(* from here on sees the rings only through Pending and Entry.             *)

LEMMA PendingNat ==
    ASSUME TypeOK, NEW u \in Users, NEW v \in Users, NEW n \in Pending(u, v)
    PROVE  n \in Nat
<1>1. nonce_claimed[v][u] \in Nat /\ nonce_sent[u][v] \in Nat
  BY DEF TypeOK
<1> QED BY <1>1 DEF Pending

(* A transfer adds one position, leaves the entries of the pending ones    *)
(* alone and puts the token of the slot into the new one.                  *)
LEMMA TransferEffect ==
    ASSUME TypeOK, CursorsInOrder, NEW u \in Users, NEW s \in Slots, NEW v \in Users,
           Transfer(u, s, v), NEW n, n = nonce_sent[u][v]
    PROVE
           /\ n \in Nat /\ nonce_sent'[u][v] = n + 1 /\ n + 1 <= nonce_acked[u][v] + Window
           /\ \A w, x \in Users : w # u \/ x # v => nonce_sent'[w][x] = nonce_sent[w][x]
           /\ n \notin Pending(u, v) /\ Pending(u, v)' = Pending(u, v) \cup {n}
           /\ \A w, x \in Users : w # u \/ x # v => Pending(w, x)' = Pending(w, x)
           /\ Entry(u, v, n)' = owned_tokens[u][s]
           /\ \A w, x \in Users : \A m \in Pending(w, x) : Entry(w, x, m)' = Entry(w, x, m)
<1> DEFINE t == owned_tokens[u][s]
<1>1. /\ n \in Nat /\ nonce_acked[u][v] \in Nat /\ nonce_claimed[v][u] \in Nat
      /\ nonce_acked[u][v] <= nonce_claimed[v][u] /\ nonce_claimed[v][u] <= n
  BY DEF TypeOK, CursorsInOrder
<1>2. n - nonce_acked[u][v] < Window
  BY DEF Transfer, HasRoom
<1>3. /\ ring' = [ring EXCEPT ![u][v] = [ring[u][v] EXCEPT ![QueueEntry(n)] = t]]
      /\ nonce_sent' = [nonce_sent EXCEPT ![u][v] = n + 1]
      /\ nonce_claimed' = nonce_claimed
  BY DEF Transfer, seenVars
<1>4. /\ nonce_sent'[u][v] = n + 1
      /\ \A w, x \in Users : w # u \/ x # v => nonce_sent'[w][x] = nonce_sent[w][x]
  BY <1>3 DEF TypeOK
<1>5. /\ ring'[u][v] = [ring[u][v] EXCEPT ![QueueEntry(n)] = t]
      /\ \A w, x \in Users : w # u \/ x # v => ring'[w][x] = ring[w][x]
  BY <1>3 DEF TypeOK
<1>6. QueueEntry(n) \in 0..Window-1 /\ ring[u][v] \in Ring
  BY <1>1, EntryInRing DEF TypeOK
<1>7. ring'[u][v][QueueEntry(n)] = t
  <2> HIDE DEF t
  <2> QED BY <1>5, <1>6 DEF Entry, Ring
<1>8. ASSUME NEW m \in Pending(u, v) PROVE Entry(u, v, m)' = Entry(u, v, m)
  <2>1. m \in Nat /\ m < n /\ n < m + Window
    BY <1>1, <1>2 DEF Pending
  <2>2. QueueEntry(m) # QueueEntry(n) /\ QueueEntry(m) \in 0..Window-1
    BY <1>1, <2>1, EntriesApart, EntryInRing
  <2> QED BY <1>5, <1>6, <2>2 DEF Entry, Ring
<1>9. ASSUME NEW w \in Users, NEW x \in Users, NEW m \in Pending(w, x)
      PROVE  Entry(w, x, m)' = Entry(w, x, m)
  <2>1. CASE w = u /\ x = v
    BY <1>8, <2>1
  <2>2. CASE w # u \/ x # v
    BY <1>5, <2>2 DEF Entry
  <2> QED BY <2>1, <2>2
<1>10. n \notin Pending(u, v) /\ Pending(u, v)' = Pending(u, v) \cup {n}
  BY <1>1, <1>3, <1>4 DEF Pending
<1>11. \A w, x \in Users : w # u \/ x # v => Pending(w, x)' = Pending(w, x)
  BY <1>3, <1>4 DEF Pending
<1>12. n + 1 <= nonce_acked[u][v] + Window
  BY <1>1, <1>2
<1>13. Entry(u, v, n)' = owned_tokens[u][s]
  BY <1>7 DEF Entry
<1> QED BY <1>1, <1>4, <1>13, <1>9, <1>10, <1>11, <1>12

(* A claim takes the entry at the cursor as the ring holds it now, though  *)
(* it was read from an outbox that may be old.                             *)
LEMMA ClaimEffect ==
    ASSUME TypeOK, RingInv, NEW u \in Users, NEW s \in Slots, NEW v \in Users,
           Claim(u, s, v)
    PROVE  LET claimed == nonce_claimed[u][v] IN
           /\ claimed \in Nat /\ claimed \in Pending(v, u)
           /\ nonce_claimed'[u][v] = claimed + 1 /\ claimed + 1 <= nonce_sent[v][u]
           /\ \A w, x \in Users : w # u \/ x # v => nonce_claimed'[w][x] = nonce_claimed[w][x]
           /\ Pending(v, u)' = Pending(v, u) \ {claimed}
           /\ \A w, x \in Users : w # v \/ x # u => Pending(w, x)' = Pending(w, x)
           /\ owned_tokens' = [owned_tokens EXCEPT ![u][s] = Entry(v, u, claimed)]
           /\ \A w, x \in Users : \A m \in Pending(w, x) : Entry(w, x, m)' = Entry(w, x, m)
<1> DEFINE claimed == nonce_claimed[u][v]
<1>1. PICK outbox \in past_outbox[v][u] :
        /\ outbox.nonce_sent > claimed
        /\ owned_tokens' = [owned_tokens EXCEPT ![u][s] = outbox.ring[QueueEntry(claimed)]]
        /\ nonce_claimed' = [nonce_claimed EXCEPT ![u][v] = claimed + 1]
  BY DEF Claim, CanClaim, NextUnclaimed, NextCursor
<1>2. /\ claimed \in Nat /\ nonce_sent[v][u] \in Nat /\ outbox.nonce_sent \in Nat
      /\ outbox.nonce_sent <= nonce_sent[v][u]
  BY DEF TypeOK, Outbox, RingInv, OldOutboxesAgree
<1>3. claimed \in Pending(v, u) /\ claimed + 1 <= nonce_sent[v][u]
  BY <1>1, <1>2 DEF Pending
<1>4. outbox.ring[QueueEntry(claimed)] = Entry(v, u, claimed)
  BY <1>1, <1>3 DEF RingInv, OldOutboxesAgree
<1>5. /\ nonce_claimed'[u][v] = claimed + 1
      /\ \A w, x \in Users : w # u \/ x # v => nonce_claimed'[w][x] = nonce_claimed[w][x]
  BY <1>1 DEF TypeOK
<1>6. ring' = ring /\ nonce_sent' = nonce_sent
  BY DEF Claim, sentVars
<1>7. Pending(v, u)' = Pending(v, u) \ {claimed}
  BY <1>2, <1>5, <1>6 DEF Pending
<1>8. \A w, x \in Users : w # v \/ x # u => Pending(w, x)' = Pending(w, x)
  BY <1>5, <1>6 DEF Pending
<1>9. \A w, x \in Users : \A m \in Pending(w, x) : Entry(w, x, m)' = Entry(w, x, m)
  BY <1>6 DEF Entry
<1> QED BY <1>1, <1>2, <1>3, <1>4, <1>5, <1>7, <1>8, <1>9
-----------------------------------------------------------------------------
(* The rings and their cursors.                                            *)

LEMMA InitRing == Init => RingInv
<1> SUFFICES ASSUME Init PROVE RingInv
  OBVIOUS
<1>1. CursorsInOrder
  BY DEF Init, CursorsInOrder
<1>2. ASSUME NEW u \in Users, NEW v \in Users, NEW old \in past_outbox[u][v]
      PROVE  /\ old.nonce_sent <= nonce_sent[u][v]
             /\ \A n \in Pending(u, v) :
                  n < old.nonce_sent => old.ring[QueueEntry(n)] = Entry(u, v, n)
  <2>1. old = [ring |-> EmptyRing, nonce_sent |-> 0] /\ nonce_sent[u][v] = 0
    BY <1>2 DEF Init
  <2>2. Pending(u, v) = {}
    BY DEF Init, Pending
  <2> QED BY <2>1, <2>2
<1>3. OldCursorsBehind
  BY DEF Init, OldCursorsBehind
<1> QED BY <1>1, <1>2, <1>3 DEF RingInv, OldOutboxesAgree

(* The calls that leave rings and cursors alone.                           *)
LEMMA RingKept ==
    ASSUME RingInv, UNCHANGED <<sentVars, nonce_acked, seenVars>>
    PROVE  RingInv'
<1> USE DEF sentVars, seenVars
<1>1. CursorsInOrder'
  BY DEF RingInv, CursorsInOrder
<1>2. OldOutboxesAgree'
  BY DEF RingInv, OldOutboxesAgree, Pending, Entry
<1>3. OldCursorsBehind'
  BY DEF RingInv, OldCursorsBehind
<1> QED BY <1>1, <1>2, <1>3 DEF RingInv

(* An acknowledged cursor may be old: it is behind the current one.        *)
LEMMA AcknowledgeRing ==
    ASSUME TypeOK, RingInv, NEW u \in Users, NEW v \in Users, Acknowledge(u, v)
    PROVE  RingInv'
<1> USE DEF sentVars, seenVars
<1>1. PICK claimed \in past_claimed[v][u] :
        /\ claimed >= nonce_acked[u][v]
        /\ nonce_acked' = [nonce_acked EXCEPT ![u][v] = claimed]
  BY DEF Acknowledge, CanAcknowledge, IsKnownClaim
<1>2. claimed \in Nat /\ claimed <= nonce_claimed[v][u]
  BY DEF TypeOK, RingInv, OldCursorsBehind
<1>3. UNCHANGED <<sentVars, seenVars>>
  BY DEF Acknowledge
<1>4. CursorsInOrder'
  <2> SUFFICES ASSUME NEW w \in Users, NEW x \in Users
               PROVE  /\ nonce_acked'[w][x] <= nonce_claimed[x][w]
                      /\ nonce_claimed[x][w] <= nonce_sent[w][x]
                      /\ nonce_sent[w][x] <= nonce_acked'[w][x] + Window
    BY <1>3 DEF CursorsInOrder
  <2>1. /\ nonce_acked[w][x] <= nonce_claimed[x][w]
        /\ nonce_claimed[x][w] <= nonce_sent[w][x]
        /\ nonce_sent[w][x] <= nonce_acked[w][x] + Window
    BY DEF RingInv, CursorsInOrder
  <2>2. nonce_acked[w][x] \in Nat /\ nonce_claimed[x][w] \in Nat /\ nonce_sent[w][x] \in Nat
    BY DEF TypeOK
  <2>3. CASE w = u /\ x = v
    <3>1. nonce_acked'[w][x] = claimed
      BY <1>1, <2>3 DEF TypeOK
    <3> QED BY <1>1, <1>2, <2>1, <2>2, <2>3, <3>1
  <2>4. CASE w # u \/ x # v
    <3>1. nonce_acked'[w][x] = nonce_acked[w][x]
      BY <1>1, <2>4 DEF TypeOK
    <3> QED BY <2>1, <3>1
  <2> QED BY <2>3, <2>4
<1>5. OldOutboxesAgree'
  BY <1>3 DEF RingInv, OldOutboxesAgree, Pending, Entry
<1>6. OldCursorsBehind'
  BY <1>3 DEF RingInv, OldCursorsBehind
<1> QED BY <1>4, <1>5, <1>6 DEF RingInv

(* A transfer overwrites an entry no old outbox is still good for.         *)
LEMMA TransferRing ==
    ASSUME TypeOK, RingInv, NEW u \in Users, NEW s \in Slots, NEW v \in Users,
           Transfer(u, s, v)
    PROVE  RingInv'
<1>1. PICK n : n = nonce_sent[u][v]
  OBVIOUS
<1>2. CursorsInOrder /\ OldOutboxesAgree /\ OldCursorsBehind
  BY DEF RingInv
<1>3. /\ n \in Nat /\ nonce_sent'[u][v] = n + 1 /\ n + 1 <= nonce_acked[u][v] + Window
      /\ \A w, x \in Users : w # u \/ x # v => nonce_sent'[w][x] = nonce_sent[w][x]
      /\ n \notin Pending(u, v) /\ Pending(u, v)' = Pending(u, v) \cup {n}
      /\ \A w, x \in Users : w # u \/ x # v => Pending(w, x)' = Pending(w, x)
      /\ \A w, x \in Users : \A m \in Pending(w, x) : Entry(w, x, m)' = Entry(w, x, m)
  BY <1>1, <1>2, TransferEffect
<1>4. UNCHANGED <<nonce_acked, nonce_claimed, past_claimed>>
  BY DEF Transfer, seenVars
<1>5. CursorsInOrder'
  <2> SUFFICES ASSUME NEW w \in Users, NEW x \in Users
               PROVE  /\ nonce_acked[w][x] <= nonce_claimed[x][w]
                      /\ nonce_claimed[x][w] <= nonce_sent'[w][x]
                      /\ nonce_sent'[w][x] <= nonce_acked[w][x] + Window
    BY <1>4 DEF CursorsInOrder
  <2>1. /\ nonce_acked[w][x] <= nonce_claimed[x][w]
        /\ nonce_claimed[x][w] <= nonce_sent[w][x]
        /\ nonce_sent[w][x] <= nonce_acked[w][x] + Window
    BY <1>2 DEF CursorsInOrder
  <2>2. nonce_acked[w][x] \in Nat /\ nonce_claimed[x][w] \in Nat /\ nonce_sent[w][x] \in Nat
    BY DEF TypeOK
  <2>3. CASE w = u /\ x = v
    BY <1>1, <1>3, <2>1, <2>2, <2>3
  <2>4. CASE w # u \/ x # v
    BY <1>3, <2>1, <2>4
  <2> QED BY <2>3, <2>4
<1>6. OldOutboxesAgree'
  <2> SUFFICES ASSUME NEW w \in Users, NEW x \in Users, NEW old \in past_outbox'[w][x]
               PROVE  /\ old.nonce_sent <= nonce_sent'[w][x]
                      /\ \A m \in Pending(w, x)' :
                          m < old.nonce_sent => old.ring[QueueEntry(m)] = Entry(w, x, m)'
    BY DEF OldOutboxesAgree
  <2>1. PICK new : new = [ring |-> ring'[u][v], nonce_sent |-> n + 1]
    OBVIOUS
  <2>2. /\ past_outbox'[u][v] = past_outbox[u][v] \cup {new}
        /\ w # u \/ x # v => past_outbox'[w][x] = past_outbox[w][x]
    BY <1>1, <2>1 DEF Transfer, TypeOK
  <2>3. CASE w = u /\ x = v /\ old = new
    <3>1. old.nonce_sent = n + 1 /\ old.ring = ring'[u][v]
      BY <2>1, <2>3
    <3> QED BY <1>3, <2>3, <3>1 DEF Entry
  <2>4. CASE old \in past_outbox[w][x]
    <3>1. /\ old.nonce_sent <= nonce_sent[w][x]
          /\ \A m \in Pending(w, x) :
              m < old.nonce_sent => old.ring[QueueEntry(m)] = Entry(w, x, m)
      BY <1>2, <2>4 DEF OldOutboxesAgree
    <3>2. old.nonce_sent \in Nat /\ nonce_sent[w][x] \in Nat
      BY <2>4 DEF TypeOK, Outbox
    <3>3. old.nonce_sent <= nonce_sent'[w][x]
      BY <1>1, <1>3, <3>1, <3>2
    <3>4. ASSUME NEW m \in Pending(w, x)', m < old.nonce_sent
          PROVE  m \in Pending(w, x)
      BY <1>1, <1>3, <3>1, <3>2, <3>4
    <3> QED BY <1>3, <3>1, <3>3, <3>4
  <2> QED BY <2>2, <2>3, <2>4
<1>7. OldCursorsBehind'
  BY <1>2, <1>4 DEF OldCursorsBehind
<1> QED BY <1>5, <1>6, <1>7 DEF RingInv

(* A claim moves the cursor past one position.                             *)
LEMMA ClaimRing ==
    ASSUME TypeOK, RingInv, NEW u \in Users, NEW s \in Slots, NEW v \in Users,
           Claim(u, s, v)
    PROVE  RingInv'
<1>1. PICK claimed : claimed = nonce_claimed[u][v]
  OBVIOUS
<1>2. CursorsInOrder /\ OldOutboxesAgree /\ OldCursorsBehind
  BY DEF RingInv
<1>3. /\ claimed \in Nat
      /\ nonce_claimed'[u][v] = claimed + 1 /\ claimed + 1 <= nonce_sent[v][u]
      /\ \A w, x \in Users : w # u \/ x # v => nonce_claimed'[w][x] = nonce_claimed[w][x]
      /\ \A w, x \in Users : Pending(w, x)' \subseteq Pending(w, x)
      /\ \A w, x \in Users : \A m \in Pending(w, x) : Entry(w, x, m)' = Entry(w, x, m)
  BY <1>1, ClaimEffect
<1>4. UNCHANGED <<nonce_acked, nonce_sent, past_outbox>>
  BY DEF Claim, sentVars
<1>5. CursorsInOrder'
  <2> SUFFICES ASSUME NEW w \in Users, NEW x \in Users
               PROVE  /\ nonce_acked[w][x] <= nonce_claimed'[x][w]
                      /\ nonce_claimed'[x][w] <= nonce_sent[w][x]
                      /\ nonce_sent[w][x] <= nonce_acked[w][x] + Window
    BY <1>4 DEF CursorsInOrder
  <2>1. /\ nonce_acked[w][x] <= nonce_claimed[x][w]
        /\ nonce_claimed[x][w] <= nonce_sent[w][x]
        /\ nonce_sent[w][x] <= nonce_acked[w][x] + Window
    BY <1>2 DEF CursorsInOrder
  <2>2. nonce_acked[w][x] \in Nat /\ nonce_claimed[x][w] \in Nat /\ nonce_sent[w][x] \in Nat
    BY DEF TypeOK
  <2>3. CASE x = u /\ w = v
    BY <1>1, <1>3, <2>1, <2>2, <2>3
  <2>4. CASE x # u \/ w # v
    BY <1>3, <2>1, <2>4
  <2> QED BY <2>3, <2>4
<1>6. OldOutboxesAgree'
  BY <1>2, <1>3, <1>4 DEF OldOutboxesAgree
<1>7. OldCursorsBehind'
  <2> SUFFICES ASSUME NEW w \in Users, NEW x \in Users, NEW old \in past_claimed'[x][w]
               PROVE  old <= nonce_claimed'[x][w]
    BY DEF OldCursorsBehind
  <2>1. /\ past_claimed'[u][v] = past_claimed[u][v] \cup {claimed + 1}
        /\ x # u \/ w # v => past_claimed'[x][w] = past_claimed[x][w]
    BY <1>1 DEF Claim, CanClaim, NextCursor, TypeOK
  <2>2. CASE old \in past_claimed[x][w]
    <3>1. old \in Nat /\ nonce_claimed[x][w] \in Nat /\ old <= nonce_claimed[x][w]
      BY <1>2, <2>2 DEF TypeOK, OldCursorsBehind
    <3>2. CASE x = u /\ w = v
      BY <1>1, <1>3, <3>1, <3>2
    <3>3. CASE x # u \/ w # v
      BY <1>3, <3>1, <3>3
    <3> QED BY <3>2, <3>3
  <2>3. CASE x = u /\ w = v /\ old = claimed + 1
    BY <1>3, <2>3
  <2> QED BY <2>1, <2>2, <2>3
<1> QED BY <1>5, <1>6, <1>7 DEF RingInv

LEMMA NextRing == TypeOK /\ RingInv /\ [Next]_vars => RingInv'
<1> SUFFICES ASSUME TypeOK, RingInv, [Next]_vars PROVE RingInv'
  OBVIOUS
<1>1. CASE UNCHANGED vars
  BY <1>1, RingKept DEF vars
<1>2. ASSUME NEW u \in Users, Admin(u) PROVE RingInv'
  BY <1>2, RingKept DEF Admin, SetCollectionMetadata, SetCollectionDetails, SetMaxSupply,
                        RenounceMintAuthority
<1>3. ASSUME NEW u \in Users, Holding(u) PROVE RingInv'
  BY <1>3, RingKept DEF Holding, Mint, Burn
<1>4. ASSUME NEW u \in Users, NEW v \in Users, SettleBurn(u, v) PROVE RingInv'
  BY <1>4, RingKept DEF SettleBurn
<1>5. ASSUME NEW u \in Users, NEW v \in Users, Acknowledge(u, v) PROVE RingInv'
  BY <1>5, AcknowledgeRing
<1>6. ASSUME NEW u \in Users, NEW s \in Slots, NEW v \in Users, Transfer(u, s, v) PROVE RingInv'
  BY <1>6, TransferRing
<1>7. ASSUME NEW u \in Users, NEW s \in Slots, NEW v \in Users, Claim(u, s, v) PROVE RingInv'
  BY <1>7, ClaimRing
<1> QED BY <1>1, <1>2, <1>3, <1>4, <1>5, <1>6, <1>7 DEF Next, Passing
-----------------------------------------------------------------------------
(* The homes of tokens.                                                    *)

HomesInv == HomesAreMinted /\ OneHome

LEMMA InitHomes == Init => HomesInv
<1> SUFFICES ASSUME Init PROVE HomesInv
  OBVIOUS
<1>1. \A u, v \in Users : Pending(u, v) = {}
  BY DEF Init, Pending
<1>2. \A u \in Users, s \in Slots : owned_tokens[u][s] = NoToken /\ total_minted = 0
  BY DEF Init
<1> QED BY <1>1, <1>2 DEF HomesInv, HomesAreMinted, OneHome, SlotsDiffer, EntriesDiffer,
                          SlotsAndEntriesDiffer

(* The calls that leave slots, rings and cursors alone.                    *)
LEMMA HomesKept ==
    ASSUME HomesInv,
           UNCHANGED <<total_minted, owned_tokens, ring, nonce_sent, nonce_claimed>>
    PROVE  HomesInv'
<1>1. HomesAreMinted'
  BY DEF HomesInv, HomesAreMinted, Pending, Entry
<1>2. SlotsDiffer'
  BY DEF HomesInv, OneHome, SlotsDiffer
<1>3. EntriesDiffer'
  BY DEF HomesInv, OneHome, EntriesDiffer, Pending, Entry
<1>4. SlotsAndEntriesDiffer'
  BY DEF HomesInv, OneHome, SlotsAndEntriesDiffer, Pending, Entry
<1> QED BY <1>1, <1>2, <1>3, <1>4 DEF HomesInv, OneHome

LEMMA MintHomes ==
    ASSUME TypeOK, HomesInv, NEW u \in Users, NEW s \in Slots, Mint(u, s)
    PROVE  HomesInv'
<1>1. PICK t : t = total_minted + 1
  OBVIOUS
<1>2. t \in Nat /\ t > total_minted /\ total_minted \in Nat /\ total_minted' = t
  BY <1>1 DEF Mint, NextLocalId, TypeOK
<1>3. /\ owned_tokens'[u][s] = t
      /\ \A w \in Users, r \in Slots :
           w # u \/ r # s => owned_tokens'[w][r] = owned_tokens[w][r]
  BY <1>1 DEF Mint, NextLocalId, TypeOK
<1>4. /\ \A w, x \in Users : Pending(w, x)' = Pending(w, x)
      /\ \A w, x \in Users : \A m \in Pending(w, x) : Entry(w, x, m)' = Entry(w, x, m)
  BY DEF Mint, sentVars, seenVars, Pending, Entry
<1>5. /\ \A w \in Users, r \in Slots :
           owned_tokens[w][r] \in Nat /\ owned_tokens[w][r] <= total_minted
      /\ \A w, x \in Users : \A m \in Pending(w, x) :
           Entry(w, x, m) # NoToken /\ Entry(w, x, m) <= total_minted
  BY DEF TypeOK, HomesInv, HomesAreMinted
<1>6. \A w, x \in Users : \A m \in Pending(w, x) : Entry(w, x, m) \in Nat
  <2> SUFFICES ASSUME NEW w \in Users, NEW x \in Users, NEW m \in Pending(w, x)
               PROVE  Entry(w, x, m) \in Nat
    OBVIOUS
  <2>1. QueueEntry(m) \in 0..Window-1 /\ ring[w][x] \in Ring
    BY PendingNat, EntryInRing DEF TypeOK
  <2> QED BY <2>1 DEF Entry, Ring
<1>7. HomesAreMinted'
  <2>1. \A w \in Users, r \in Slots : owned_tokens'[w][r] <= total_minted'
    BY <1>2, <1>3, <1>5
  <2>2. \A w, x \in Users : \A m \in Pending(w, x)' :
          Entry(w, x, m)' # NoToken /\ Entry(w, x, m)' <= total_minted'
    BY <1>2, <1>4, <1>5, <1>6
  <2> QED BY <2>1, <2>2 DEF HomesAreMinted
<1>8. SlotsDiffer'
  BY <1>2, <1>3, <1>5 DEF HomesInv, OneHome, SlotsDiffer
<1>9. EntriesDiffer'
  BY <1>4 DEF HomesInv, OneHome, EntriesDiffer
<1>10. SlotsAndEntriesDiffer'
  BY <1>2, <1>3, <1>4, <1>5, <1>6 DEF HomesInv, OneHome, SlotsAndEntriesDiffer
<1> QED BY <1>7, <1>8, <1>9, <1>10 DEF HomesInv, OneHome

LEMMA BurnHomes ==
    ASSUME TypeOK, HomesInv, NEW u \in Users, NEW s \in Slots, Burn(u, s)
    PROVE  HomesInv'
<1>1. /\ owned_tokens'[u][s] = NoToken
      /\ \A w \in Users, r \in Slots :
           w # u \/ r # s => owned_tokens'[w][r] = owned_tokens[w][r]
  BY DEF Burn, Clear, TypeOK
<1>2. /\ total_minted' = total_minted /\ total_minted \in Nat
      /\ \A w, x \in Users : Pending(w, x)' = Pending(w, x)
      /\ \A w, x \in Users : \A m \in Pending(w, x) : Entry(w, x, m)' = Entry(w, x, m)
  BY DEF Burn, supplyVars, sentVars, seenVars, Pending, Entry, TypeOK
<1>3. HomesAreMinted'
  BY <1>1, <1>2 DEF HomesInv, HomesAreMinted
<1>4. SlotsDiffer'
  BY <1>1 DEF HomesInv, OneHome, SlotsDiffer
<1>5. EntriesDiffer'
  BY <1>2 DEF HomesInv, OneHome, EntriesDiffer
<1>6. SlotsAndEntriesDiffer'
  BY <1>1, <1>2 DEF HomesInv, OneHome, SlotsAndEntriesDiffer, HomesAreMinted
<1> QED BY <1>3, <1>4, <1>5, <1>6 DEF HomesInv, OneHome

(* The token of the slot moves to the new pending entry.                   *)
LEMMA TransferHomes ==
    ASSUME TypeOK, CursorsInOrder, HomesInv,
           NEW u \in Users, NEW s \in Slots, NEW v \in Users, Transfer(u, s, v)
    PROVE  HomesInv'
<1>1. PICK n, t : n = nonce_sent[u][v] /\ t = owned_tokens[u][s]
  OBVIOUS
<1>2. /\ owned_tokens'[u][s] = NoToken
      /\ \A w \in Users, r \in Slots :
           w # u \/ r # s => owned_tokens'[w][r] = owned_tokens[w][r]
  BY DEF Transfer, Clear, TypeOK
<1>3. /\ n \notin Pending(u, v) /\ Pending(u, v)' = Pending(u, v) \cup {n}
      /\ \A w, x \in Users : w # u \/ x # v => Pending(w, x)' = Pending(w, x)
      /\ Entry(u, v, n)' = t
      /\ \A w, x \in Users : \A m \in Pending(w, x) : Entry(w, x, m)' = Entry(w, x, m)
  BY <1>1, TransferEffect
<1>4. /\ t # NoToken /\ total_minted' = total_minted /\ total_minted \in Nat
      /\ t <= total_minted
  BY <1>1 DEF Transfer, supplyVars, TypeOK, HomesInv, HomesAreMinted
<1>5. HomesAreMinted'
  <2>1. \A w \in Users, r \in Slots : owned_tokens'[w][r] <= total_minted'
    BY <1>2, <1>4 DEF HomesInv, HomesAreMinted
  <2>2. \A w, x \in Users : \A m \in Pending(w, x)' :
          Entry(w, x, m)' # NoToken /\ Entry(w, x, m)' <= total_minted'
    BY <1>3, <1>4 DEF HomesInv, HomesAreMinted
  <2> QED BY <2>1, <2>2 DEF HomesAreMinted
<1>6. SlotsDiffer'
  BY <1>2 DEF HomesInv, OneHome, SlotsDiffer
<1>7. \A w, x \in Users : \A m \in Pending(w, x) : Entry(w, x, m) # t
  BY <1>1 DEF HomesInv, OneHome, SlotsAndEntriesDiffer
<1>8. EntriesDiffer'
  <2> SUFFICES ASSUME NEW w \in Users, NEW x \in Users, NEW m \in Pending(w, x)',
                      NEW y \in Users, NEW z \in Users, NEW k \in Pending(y, z)',
                      Entry(w, x, m)' = Entry(y, z, k)'
               PROVE  w = y /\ x = z /\ m = k
    BY DEF EntriesDiffer
  <2>1. CASE m \in Pending(w, x) /\ k \in Pending(y, z)
    BY <1>3, <2>1 DEF HomesInv, OneHome, EntriesDiffer
  <2>2. CASE m \in Pending(w, x) /\ y = u /\ z = v /\ k = n
    BY <1>3, <1>7, <2>2
  <2>3. CASE w = u /\ x = v /\ m = n /\ k \in Pending(y, z)
    <3>1. Entry(y, z, k)' = Entry(y, z, k)
      BY <1>3, <2>3
    <3>2. Entry(y, z, k) # t
      BY <1>7, <2>3
    <3>3. Entry(w, x, m)' = t
      BY <1>3, <2>3
    <3> QED BY <3>1, <3>2, <3>3
  <2>4. CASE w = u /\ x = v /\ m = n /\ y = u /\ z = v /\ k = n
    BY <2>4
  <2>5. /\ m \in Pending(w, x) \/ (w = u /\ x = v /\ m = n)
        /\ k \in Pending(y, z) \/ (y = u /\ z = v /\ k = n)
    BY <1>3
  <2> QED BY <2>1, <2>2, <2>3, <2>4, <2>5
<1>9. SlotsAndEntriesDiffer'
  <2> SUFFICES ASSUME NEW w \in Users, NEW x \in Users, NEW m \in Pending(w, x)',
                      NEW y \in Users, NEW r \in Slots
               PROVE  owned_tokens'[y][r] # Entry(w, x, m)'
    BY DEF SlotsAndEntriesDiffer
  <2>1. CASE m \in Pending(w, x)
    BY <1>2, <1>3, <2>1 DEF HomesInv, OneHome, SlotsAndEntriesDiffer, HomesAreMinted
  <2>2. CASE w = u /\ x = v /\ m = n
    BY <1>1, <1>2, <1>3, <1>4, <2>2 DEF HomesInv, OneHome, SlotsDiffer
  <2> QED BY <1>3, <2>1, <2>2
<1> QED BY <1>5, <1>6, <1>8, <1>9 DEF HomesInv, OneHome

(* The token of the entry at the cursor moves to the slot.                 *)
LEMMA ClaimHomes ==
    ASSUME TypeOK, RingInv, HomesInv,
           NEW u \in Users, NEW s \in Slots, NEW v \in Users, Claim(u, s, v)
    PROVE  HomesInv'
<1>1. PICK n, t : n = nonce_claimed[u][v] /\ t = Entry(v, u, n)
  OBVIOUS
<1>2. /\ n \in Pending(v, u) /\ Pending(v, u)' = Pending(v, u) \ {n}
      /\ \A w, x \in Users : w # v \/ x # u => Pending(w, x)' = Pending(w, x)
      /\ owned_tokens' = [owned_tokens EXCEPT ![u][s] = t]
      /\ \A w, x \in Users : \A m \in Pending(w, x) : Entry(w, x, m)' = Entry(w, x, m)
  BY <1>1, ClaimEffect
<1>3. /\ owned_tokens'[u][s] = t
      /\ \A w \in Users, r \in Slots :
           w # u \/ r # s => owned_tokens'[w][r] = owned_tokens[w][r]
  BY <1>2 DEF TypeOK
<1>4. /\ total_minted' = total_minted /\ t # NoToken /\ t <= total_minted
      /\ \A w \in Users, r \in Slots : owned_tokens[w][r] # t
      /\ \A w, x \in Users : \A m \in Pending(w, x) :
           Entry(w, x, m) = t => w = v /\ x = u /\ m = n
  BY <1>1, <1>2 DEF Claim, CanClaim, supplyVars, HomesInv, HomesAreMinted, OneHome, EntriesDiffer,
                    SlotsAndEntriesDiffer
<1>5. HomesAreMinted'
  BY <1>2, <1>3, <1>4 DEF HomesInv, HomesAreMinted
<1>6. SlotsDiffer'
  BY <1>3, <1>4 DEF HomesInv, OneHome, SlotsDiffer
<1>7. \A w, x \in Users : \A m \in Pending(w, x)' :
        m \in Pending(w, x) /\ (w # v \/ x # u \/ m # n)
  BY <1>2
<1>8. EntriesDiffer'
  BY <1>2, <1>7 DEF HomesInv, OneHome, EntriesDiffer
<1>9. SlotsAndEntriesDiffer'
  BY <1>2, <1>3, <1>4, <1>7 DEF HomesInv, OneHome, SlotsAndEntriesDiffer
<1> QED BY <1>5, <1>6, <1>8, <1>9 DEF HomesInv, OneHome

LEMMA NextHomes == TypeOK /\ RingInv /\ HomesInv /\ [Next]_vars => HomesInv'
<1> SUFFICES ASSUME TypeOK, RingInv, HomesInv, [Next]_vars PROVE HomesInv'
  OBVIOUS
<1> USE DEF supplyVars, homeVars, sentVars, seenVars
<1>1. CASE UNCHANGED vars
  BY <1>1, HomesKept DEF vars
<1>2. ASSUME NEW u \in Users, Admin(u) PROVE HomesInv'
  BY <1>2, HomesKept DEF Admin, SetCollectionMetadata, SetCollectionDetails, SetMaxSupply,
                         RenounceMintAuthority
<1>3. ASSUME NEW u \in Users, NEW s \in Slots, Mint(u, s) PROVE HomesInv'
  BY <1>3, MintHomes
<1>4. ASSUME NEW u \in Users, NEW s \in Slots, Burn(u, s) PROVE HomesInv'
  BY <1>4, BurnHomes
<1>5. ASSUME NEW u \in Users, NEW v \in Users, SettleBurn(u, v) PROVE HomesInv'
  BY <1>5, HomesKept DEF SettleBurn
<1>6. ASSUME NEW u \in Users, NEW v \in Users, Acknowledge(u, v) PROVE HomesInv'
  BY <1>6, HomesKept DEF Acknowledge
<1>7. ASSUME NEW u \in Users, NEW s \in Slots, NEW v \in Users, Transfer(u, s, v) PROVE HomesInv'
  BY <1>7, TransferHomes DEF RingInv
<1>8. ASSUME NEW u \in Users, NEW s \in Slots, NEW v \in Users, Claim(u, s, v) PROVE HomesInv'
  BY <1>8, ClaimHomes
<1> QED BY <1>1, <1>2, <1>3, <1>4, <1>5, <1>6, <1>7, <1>8 DEF Next, Holding, Passing

(* The cursors of every pair of users stay in order, and an old outbox     *)
(* shows what can still be claimed as the ring holds it now: what makes    *)
(* claim and acknowledge safe with proofs that are not recent.             *)
THEOREM OldProofsAreGood == Spec => []RingInv
<1>1. Init => TypeOK /\ RingInv
  BY InitType, InitRing
<1>2. TypeOK /\ RingInv /\ [Next]_vars => (TypeOK /\ RingInv)'
  BY NextType, NextRing
<1> QED BY <1>1, <1>2, PTL DEF Spec

(* A token has at most one home, a slot or a pending entry, with any number *)
(* of users, slots and transfers under way.                                *)
THEOREM NoTokenTwice == Spec => []OneHome
<1>1. Init => TypeOK /\ RingInv /\ HomesInv
  BY InitType, InitRing, InitHomes
<1>2. TypeOK /\ RingInv /\ HomesInv /\ [Next]_vars => (TypeOK /\ RingInv /\ HomesInv)'
  BY NextType, NextRing, NextHomes
<1>3. HomesInv => OneHome
  BY DEF HomesInv
<1> QED BY <1>1, <1>2, <1>3, PTL DEF Spec
-----------------------------------------------------------------------------
(* Steps.                                                                  *)

LEMMA HomesOnlyMove ==
    ASSUME TypeOK, RingInv, HomesInv, [Next]_vars,
           NEW t \in 1..total_minted, HasHome(t)'
    PROVE  HasHome(t)
<1> USE DEF homeVars, sentVars, seenVars
<1>1. ASSUME UNCHANGED <<owned_tokens, ring, nonce_sent, nonce_claimed>>
      PROVE  HasHome(t)
  BY <1>1 DEF HasHome, Pending, Entry
<1>2. CASE UNCHANGED vars
  BY <1>1, <1>2 DEF vars
<1>3. ASSUME NEW u \in Users, Admin(u) PROVE HasHome(t)
  BY <1>1, <1>3 DEF Admin, SetCollectionMetadata, SetCollectionDetails, SetMaxSupply,
                    RenounceMintAuthority
<1>4. ASSUME NEW u \in Users, NEW s \in Slots, Mint(u, s) \/ Burn(u, s) PROVE HasHome(t)
  <2>1. /\ owned_tokens'[u][s] # t
        /\ \A w \in Users, r \in Slots :
             w # u \/ r # s => owned_tokens'[w][r] = owned_tokens[w][r]
    BY <1>4 DEF Mint, NextLocalId, Burn, Clear, TypeOK
  <2>2. \A w, x \in Users : /\ Pending(w, x)' = Pending(w, x)
                            /\ \A m : Entry(w, x, m)' = Entry(w, x, m)
    BY <1>4 DEF Mint, Burn, Pending, Entry
  <2> QED BY <2>1, <2>2 DEF HasHome
<1>5. ASSUME NEW u \in Users, NEW v \in Users, SettleBurn(u, v) \/ Acknowledge(u, v)
      PROVE  HasHome(t)
  BY <1>1, <1>5 DEF SettleBurn, Acknowledge
<1>6. ASSUME NEW u \in Users, NEW s \in Slots, NEW v \in Users, Transfer(u, s, v)
      PROVE  HasHome(t)
  <2>1. PICK n : n = nonce_sent[u][v]
    OBVIOUS
  <2>2. /\ owned_tokens'[u][s] = NoToken
        /\ \A w \in Users, r \in Slots :
             w # u \/ r # s => owned_tokens'[w][r] = owned_tokens[w][r]
    BY <1>6 DEF Transfer, Clear, TypeOK
  <2>3. /\ Pending(u, v)' = Pending(u, v) \cup {n}
        /\ \A w, x \in Users : w # u \/ x # v => Pending(w, x)' = Pending(w, x)
        /\ Entry(u, v, n)' = owned_tokens[u][s]
        /\ \A w, x \in Users : \A m \in Pending(w, x) : Entry(w, x, m)' = Entry(w, x, m)
    BY <1>6, <2>1, TransferEffect DEF RingInv
  <2> QED BY <2>2, <2>3 DEF HasHome
<1>7. ASSUME NEW u \in Users, NEW s \in Slots, NEW v \in Users, Claim(u, s, v)
      PROVE  HasHome(t)
  <2>1. PICK n : n = nonce_claimed[u][v]
    OBVIOUS
  <2>2. /\ n \in Pending(v, u)
        /\ \A w, x \in Users : Pending(w, x)' \subseteq Pending(w, x)
        /\ owned_tokens' = [owned_tokens EXCEPT ![u][s] = Entry(v, u, n)]
        /\ \A w, x \in Users : \A m \in Pending(w, x) : Entry(w, x, m)' = Entry(w, x, m)
    BY <1>7, <2>1, ClaimEffect
  <2>3. /\ owned_tokens'[u][s] = Entry(v, u, n)
        /\ \A w \in Users, r \in Slots :
             w # u \/ r # s => owned_tokens'[w][r] = owned_tokens[w][r]
    BY <2>2 DEF TypeOK
  <2> QED BY <2>2, <2>3 DEF HasHome
<1> QED BY <1>2, <1>3, <1>4, <1>5, <1>6, <1>7 DEF Next, Holding, Passing

(* A minted token without a home never gets one again: neither an old      *)
(* outbox nor a reused entry brings a burned token back.                   *)
THEOREM BurnIsFinal == Spec => BurnedForGood
<1>1. Init => TypeOK /\ RingInv /\ HomesInv
  BY InitType, InitRing, InitHomes
<1>2. TypeOK /\ RingInv /\ HomesInv /\ [Next]_vars => (TypeOK /\ RingInv /\ HomesInv)'
  BY NextType, NextRing, NextHomes
<1>3. TypeOK /\ RingInv /\ HomesInv /\ [Next]_vars =>
        [\A t \in 1..total_minted : HasHome(t)' => HasHome(t)]_vars
  BY HomesOnlyMove
<1> QED BY <1>1, <1>2, <1>3, PTL DEF Spec, BurnedForGood

LEMMA MintStep ==
    TypeOK /\ [Next]_vars =>
        [ total_minted' # total_minted =>
            /\ total_minted' = total_minted + 1
            /\ is_mint_renounced = 0
            /\ max_supply # 0 => total_minted < max_supply ]_vars
<1> SUFFICES ASSUME Next, total_minted' # total_minted
             PROVE  /\ total_minted' = total_minted + 1
                    /\ is_mint_renounced = 0
                    /\ max_supply # 0 => total_minted < max_supply
  BY DEF vars
<1>1. PICK u \in Users, s \in Slots : Mint(u, s)
  BY DEF Next, Admin, Holding, Passing, SetCollectionMetadata, SetCollectionDetails,
         SetMaxSupply, RenounceMintAuthority, Burn, SettleBurn, Acknowledge, Transfer, Claim,
         supplyVars
<1> QED BY <1>1 DEF Mint, UnderCap

(* Nothing is minted beyond the cap or after the authority is renounced.   *)
THEOREM MintStaysBounded == Spec => MintIsBounded
    BY InitType, NextType, MintStep, PTL DEF Spec, MintIsBounded
-----------------------------------------------------------------------------
(* The refinement of NFTRegistry.                                          *)

LEMMA EntryToken ==
    ASSUME TypeOK, HomesInv, NEW u \in Users, NEW v \in Users, NEW n \in Pending(u, v)
    PROVE  Entry(u, v, n) \in Token
<1>1. QueueEntry(n) \in 0..Window-1 /\ ring[u][v] \in Ring
  BY PendingNat, EntryInRing DEF TypeOK
<1>2. Entry(u, v, n) \in Token \cup {NoToken}
  BY <1>1 DEF Entry, Ring
<1> QED BY <1>2 DEF HomesInv, HomesAreMinted

LEMMA SeqOfFunction ==
    ASSUME NEW S, NEW k \in Nat, NEW f \in [1..k -> S]
    PROVE  f \in Seq(S) /\ Len(f) = k
    OBVIOUS

(* chan lists the entries of the ring at the positions c..(n - 1).         *)
Lists(chan, entries, n, c) ==
    /\ chan \in Seq(Token) /\ Len(chan) = n - c
    /\ \A i \in 1..(n - c) : chan[i] = entries[QueueEntry(c + i - 1)]

LEMMA ChannelSeq ==
    ASSUME TypeOK, CursorsInOrder, HomesInv, NEW u \in Users, NEW v \in Users,
           NEW n \in Nat, NEW c \in Nat, nonce_sent[u][v] = n, nonce_claimed[v][u] = c
    PROVE  Lists(Channel(u, v), ring[u][v], n, c)
<1>1. n - c \in Nat
  BY DEF CursorsInOrder
<1>2. Channel(u, v) = [i \in 1..(n - c) |-> Entry(u, v, c + i - 1)]
  BY DEF Channel
<1>3. \A i \in 1..(n - c) : Entry(u, v, c + i - 1) \in Token
  <2> SUFFICES ASSUME NEW i \in 1..(n - c) PROVE Entry(u, v, c + i - 1) \in Token
    OBVIOUS
  <2>1. c + i - 1 \in Pending(u, v)
    BY <1>1 DEF Pending
  <2> QED BY <2>1, EntryToken
<1>4. Channel(u, v) \in [1..(n - c) -> Token]
  BY <1>2, <1>3
<1>5. Channel(u, v) \in Seq(Token) /\ Len(Channel(u, v)) = n - c
  BY <1>1, <1>4, SeqOfFunction
<1> QED BY <1>2, <1>5 DEF Entry, Lists

LEMMA InitRegistry == Init => Registry!Init
<1> SUFFICES ASSUME Init PROVE Registry!Init
  OBVIOUS
<1>1. total_minted = 0
  BY DEF Init
<1>2. ASSUME NEW u \in Users PROVE Held(u) = {}
  BY DEF Init, Held
<1>3. ASSUME NEW u \in Users, NEW v \in Users PROVE Channel(u, v) = <<>>
  <2>1. nonce_sent[u][v] - nonce_claimed[v][u] = 0
    BY DEF Init
  <2> QED BY <2>1 DEF Channel
<1> QED BY <1>1, <1>2, <1>3 DEF Registry!Init
(* A channel lists the pending entries, the oldest first.                  *)
ChannelsListed ==
    \A u, v \in Users, n, c \in Nat :
        nonce_sent[u][v] = n /\ nonce_claimed[v][u] = c =>
            Lists(Channel(u, v), ring[u][v], n, c)

LEMMA ListedNow == TypeOK /\ CursorsInOrder /\ HomesInv => ChannelsListed
    BY ChannelSeq DEF ChannelsListed

LEMMA ListedNext == (TypeOK /\ CursorsInOrder /\ HomesInv)' => ChannelsListed'
    BY ListedNow, PTL

(* The calls that are no step of the registry.                             *)
LEMMA RegistryKept ==
    ASSUME UNCHANGED <<total_minted, owned_tokens, ring, nonce_sent, nonce_claimed>>
    PROVE  UNCHANGED Registry!registry
<1>1. \A u \in Users : Held(u)' = Held(u)
  BY DEF Held
<1>2. \A u, v \in Users : Channel(u, v)' = Channel(u, v)
  BY DEF Channel, Entry
<1> QED BY <1>1, <1>2 DEF Registry!registry

LEMMA MintRegistry ==
    ASSUME TypeOK, NEW u \in Users, NEW s \in Slots, Mint(u, s)
    PROVE  Registry!Mint
<1>1. PICK t : t = total_minted + 1
  OBVIOUS
<1>2. /\ u = Issuer /\ t \in Token /\ total_minted' = t /\ owned_tokens[u][s] = NoToken
      /\ owned_tokens'[u][s] = t
      /\ \A w \in Users, r \in Slots :
           w # u \/ r # s => owned_tokens'[w][r] = owned_tokens[w][r]
  BY <1>1 DEF Mint, NextLocalId, TypeOK
<1>3. Held(u)' = Held(u) \cup {t}
  BY <1>2 DEF Held
<1>4. \A w \in Users : w # u => Held(w)' = Held(w)
  BY <1>2 DEF Held
<1>5. \A w, x \in Users : Channel(w, x)' = Channel(w, x)
  BY DEF Mint, sentVars, seenVars, Channel, Entry
<1>6. [w \in Users |-> Held(w)]' = [[w \in Users |-> Held(w)] EXCEPT ![Issuer] = @ \cup {t}]
  BY <1>2, <1>3, <1>4
<1>7. UNCHANGED [w \in Users |-> [x \in Users |-> Channel(w, x)]]
  BY <1>5
<1> QED BY <1>1, <1>2, <1>6, <1>7 DEF Registry!Mint

LEMMA BurnRegistry ==
    ASSUME TypeOK, HomesInv, NEW u \in Users, NEW s \in Slots, Burn(u, s)
    PROVE  \E t \in Token : Registry!Burn(u, t)
<1>1. PICK t : t = owned_tokens[u][s]
  OBVIOUS
<1>2. /\ t \in Token /\ total_minted' = total_minted
      /\ owned_tokens'[u][s] = NoToken
      /\ \A w \in Users, r \in Slots :
           w # u \/ r # s => owned_tokens'[w][r] = owned_tokens[w][r]
  BY <1>1 DEF Burn, Clear, supplyVars, TypeOK
<1>3. t \in Held(u) /\ Held(u)' = Held(u) \ {t}
  BY <1>1, <1>2 DEF Held, HomesInv, OneHome, SlotsDiffer
<1>4. \A w \in Users : w # u => Held(w)' = Held(w)
  BY <1>2 DEF Held
<1>5. \A w, x \in Users : Channel(w, x)' = Channel(w, x)
  BY DEF Burn, sentVars, seenVars, Channel, Entry
<1>6. [w \in Users |-> Held(w)]' = [[w \in Users |-> Held(w)] EXCEPT ![u] = @ \ {t}]
  BY <1>3, <1>4
<1>7. UNCHANGED [w \in Users |-> [x \in Users |-> Channel(w, x)]]
  BY <1>5
<1> QED BY <1>2, <1>3, <1>6, <1>7 DEF Registry!Burn

LEMMA TransferRegistry ==
    ASSUME TypeOK, CursorsInOrder, HomesInv, ChannelsListed, ChannelsListed',
           NEW u \in Users, NEW s \in Slots, NEW v \in Users, Transfer(u, s, v)
    PROVE  \E t \in Token : Registry!Send(u, v, t)
<1>1. PICK n, c, t : n = nonce_sent[u][v] /\ c = nonce_claimed[v][u] /\ t = owned_tokens[u][s]
  OBVIOUS
<1>2. /\ t \in Token /\ total_minted' = total_minted
      /\ owned_tokens'[u][s] = NoToken
      /\ \A w \in Users, r \in Slots :
           w # u \/ r # s => owned_tokens'[w][r] = owned_tokens[w][r]
  BY <1>1 DEF Transfer, Clear, supplyVars, TypeOK
<1>3. t \in Held(u) /\ Held(u)' = Held(u) \ {t}
  BY <1>1, <1>2 DEF Held, HomesInv, OneHome, SlotsDiffer
<1>4. \A w \in Users : w # u => Held(w)' = Held(w)
  BY <1>2 DEF Held
<1>5. /\ nonce_sent'[u][v] = n + 1
      /\ \A w, x \in Users : w # u \/ x # v => nonce_sent'[w][x] = nonce_sent[w][x]
      /\ Entry(u, v, n)' = t
      /\ \A w, x \in Users : \A m \in Pending(w, x) : Entry(w, x, m)' = Entry(w, x, m)
      /\ n + 1 <= nonce_acked[u][v] + Window
  BY <1>1, TransferEffect
<1>6. /\ n \in Nat /\ c \in Nat /\ n - c \in Nat /\ n - c < Window
      /\ nonce_claimed' = nonce_claimed
  BY <1>1, <1>5 DEF TypeOK, CursorsInOrder, Transfer, seenVars
<1>7. Lists(Channel(u, v), ring[u][v], n, c)
  <2>1. n \in Nat /\ c \in Nat /\ nonce_sent[u][v] = n /\ nonce_claimed[v][u] = c
    BY <1>1, <1>6
  <2> QED BY <2>1 DEF ChannelsListed
<1>8. Lists(Channel(u, v)', ring'[u][v], n + 1, c)
  <2>1. PICK k : k = n + 1
    OBVIOUS
  <2>2. k \in Nat /\ c \in Nat /\ nonce_sent'[u][v] = k /\ nonce_claimed'[v][u] = c
    BY <1>1, <1>5, <1>6, <2>1
  <2>3. Lists(Channel(u, v)', ring'[u][v], k, c)
    BY <2>2 DEF ChannelsListed
  <2> QED BY <2>1, <2>3
<1>9. Channel(u, v)' = Append(Channel(u, v), t)
  <2>1. PICK old, new, longer :
          old = Channel(u, v) /\ new = Channel(u, v)' /\ longer = Append(old, t)
    OBVIOUS
  <2>2. /\ old \in Seq(Token) /\ Len(old) = n - c
        /\ new \in Seq(Token) /\ Len(new) = (n + 1) - c
    BY <1>7, <1>8, <2>1 DEF Lists
  <2>3. /\ longer \in Seq(Token) /\ Len(longer) = (n + 1) - c
        /\ \A i \in 1..(n - c) : longer[i] = old[i]
        /\ longer[(n - c) + 1] = t
    BY <1>2, <1>6, <2>1, <2>2, AppendProperties
  <2>4. ASSUME NEW i \in 1..(n - c) PROVE new[i] = longer[i]
    <3>1. c + i - 1 \in Pending(u, v) /\ i \in 1..((n + 1) - c)
      BY <1>1, <1>6 DEF Pending
    <3>2. Entry(u, v, c + i - 1)' = Entry(u, v, c + i - 1)
      BY <1>5, <3>1
    <3>3. new[i] = Entry(u, v, c + i - 1)' /\ old[i] = Entry(u, v, c + i - 1)
      BY <1>7, <1>8, <2>1, <3>1 DEF Entry, Lists
    <3> QED BY <2>3, <3>2, <3>3
  <2>5. new[(n - c) + 1] = longer[(n - c) + 1]
    <3>1. (n - c) + 1 \in 1..((n + 1) - c) /\ c + ((n - c) + 1) - 1 = n
      BY <1>6
    <3>2. ring'[u][v][QueueEntry(n)] = t
      BY <1>5 DEF Entry
    <3> QED BY <1>8, <2>1, <2>3, <3>1, <3>2 DEF Lists
  <2>6. \A i \in 1..((n + 1) - c) : i \in 1..(n - c) \/ i = (n - c) + 1
    BY <1>6
  <2>7. \A i \in 1..Len(new) : new[i] = longer[i]
    BY <2>2, <2>4, <2>5, <2>6
  <2>8. new = longer
    BY <2>2, <2>3, <2>7, SeqEqual
  <2> QED BY <2>1, <2>8
<1>10. ASSUME NEW w \in Users, NEW x \in Users, w # u \/ x # v
       PROVE  Channel(w, x)' = Channel(w, x)
  <2>1. /\ nonce_sent'[w][x] = nonce_sent[w][x]
        /\ nonce_claimed'[x][w] = nonce_claimed[x][w]
    BY <1>5, <1>6, <1>10
  <2>2. nonce_sent[w][x] \in Nat /\ nonce_claimed[x][w] \in Nat
    BY DEF TypeOK
  <2>3. ASSUME NEW i \in 1..(nonce_sent[w][x] - nonce_claimed[x][w])
        PROVE  Entry(w, x, nonce_claimed[x][w] + i - 1)' = Entry(w, x, nonce_claimed[x][w] + i - 1)
    <3>1. PICK m : m = nonce_claimed[x][w] + i - 1
      OBVIOUS
    <3>2. m \in Pending(w, x)
      BY <2>2, <3>1 DEF Pending
    <3>3. Entry(w, x, m)' = Entry(w, x, m)
      BY <1>5, <3>2
    <3> QED BY <1>6, <3>1, <3>3
  <2> QED BY <2>1, <2>3 DEF Channel
<1>11. Len(Channel(u, v)) < Window
  BY <1>6, <1>7 DEF Lists
<1>12. [w \in Users |-> Held(w)]'
          = [[w \in Users |-> Held(w)] EXCEPT ![u] = @ \ {t}]
  BY <1>3, <1>4
<1>13. [w \in Users |-> [x \in Users |-> Channel(w, x)]]'
          = [[w \in Users |-> [x \in Users |-> Channel(w, x)]] EXCEPT ![u][v] = Append(@, t)]
  BY <1>9, <1>10
<1> QED BY <1>2, <1>3, <1>11, <1>12, <1>13 DEF Registry!Send
LEMMA ClaimRegistry ==
    ASSUME TypeOK, RingInv, HomesInv, ChannelsListed, ChannelsListed',
           NEW u \in Users, NEW s \in Slots, NEW v \in Users, Claim(u, s, v)
    PROVE  Registry!Receive(u, v)
<1>1. PICK n, c, t : n = nonce_sent[v][u] /\ c = nonce_claimed[u][v] /\ t = Entry(v, u, c)
  OBVIOUS
<1>2. /\ c \in Pending(v, u) /\ nonce_claimed'[u][v] = c + 1 /\ c + 1 <= n
      /\ \A w, x \in Users : w # u \/ x # v => nonce_claimed'[w][x] = nonce_claimed[w][x]
      /\ owned_tokens' = [owned_tokens EXCEPT ![u][s] = t]
  BY <1>1, ClaimEffect
<1>3. n \in Nat /\ c \in Nat /\ ring' = ring /\ nonce_sent' = nonce_sent
  BY <1>1 DEF TypeOK, Claim, CanClaim, sentVars
<1>4. /\ total_minted' = total_minted /\ t # NoToken /\ owned_tokens[u][s] = NoToken
      /\ owned_tokens'[u][s] = t
      /\ \A w \in Users, r \in Slots :
           w # u \/ r # s => owned_tokens'[w][r] = owned_tokens[w][r]
  BY <1>1, <1>2 DEF Claim, CanClaim, supplyVars, TypeOK, HomesInv, HomesAreMinted
<1>5. Held(u)' = Held(u) \cup {t}
  BY <1>4 DEF Held
<1>6. \A w \in Users : w # u => Held(w)' = Held(w)
  BY <1>4 DEF Held
<1>7. Lists(Channel(v, u), ring[v][u], n, c)
  <2>1. n \in Nat /\ c \in Nat /\ nonce_sent[v][u] = n /\ nonce_claimed[u][v] = c
    BY <1>1, <1>3
  <2> QED BY <2>1 DEF ChannelsListed
<1>8. Lists(Channel(v, u)', ring[v][u], n, c + 1)
  <2>1. PICK k : k = c + 1
    OBVIOUS
  <2>2. n \in Nat /\ k \in Nat /\ nonce_sent'[v][u] = n /\ nonce_claimed'[u][v] = k
    BY <1>1, <1>2, <1>3, <2>1
  <2>3. Lists(Channel(v, u)', ring'[v][u], n, k)
    BY <2>2 DEF ChannelsListed
  <2> QED BY <1>3, <2>1, <2>3
<1>9. Channel(v, u) # <<>> /\ Head(Channel(v, u)) = t
  <2>1. PICK old : old = Channel(v, u)
    OBVIOUS
  <2>2. 1 \in 1..(n - c) /\ c + 1 - 1 = c
    BY <1>2, <1>3
  <2>3. old \in Seq(Token) /\ Len(old) = n - c /\ old[1] = t
    BY <1>1, <1>7, <2>1, <2>2 DEF Entry, Lists
  <2> QED BY <2>1, <2>2, <2>3
<1>10. Channel(v, u)' = Tail(Channel(v, u))
  <2>1. PICK old, new, shorter :
          old = Channel(v, u) /\ new = Channel(v, u)' /\ shorter = Tail(old)
    OBVIOUS
  <2>2. /\ old \in Seq(Token) /\ old # <<>> /\ Len(old) = n - c
        /\ new \in Seq(Token) /\ Len(new) = n - (c + 1)
    BY <1>7, <1>8, <1>9, <2>1 DEF Lists
  <2>3. /\ shorter \in Seq(Token) /\ Len(shorter) = n - (c + 1)
        /\ \A i \in 1..(n - (c + 1)) : shorter[i] = old[i + 1]
    BY <1>3, <2>1, <2>2, HeadTailProperties
  <2>4. ASSUME NEW i \in 1..(n - (c + 1)) PROVE new[i] = shorter[i]
    <3>1. i + 1 \in 1..(n - c) /\ (c + 1) + i - 1 = c + (i + 1) - 1
      BY <1>3
    <3>2. new[i] = ring[v][u][QueueEntry((c + 1) + i - 1)]
      BY <1>8, <2>1 DEF Lists
    <3>3. old[i + 1] = ring[v][u][QueueEntry(c + (i + 1) - 1)]
      BY <1>7, <2>1, <3>1 DEF Lists
    <3> QED BY <2>3, <3>1, <3>2, <3>3
  <2>5. \A i \in 1..Len(new) : new[i] = shorter[i]
    BY <2>2, <2>4
  <2>6. new = shorter
    BY <2>2, <2>3, <2>5, SeqEqual
  <2> QED BY <2>1, <2>6
<1>11. \A w, x \in Users : w # v \/ x # u => Channel(w, x)' = Channel(w, x)
  BY <1>2, <1>3 DEF Channel, Entry
<1>12. [w \in Users |-> Held(w)]'
          = [[w \in Users |-> Held(w)] EXCEPT ![u] = @ \cup {t}]
  BY <1>5, <1>6
<1>13. [w \in Users |-> [x \in Users |-> Channel(w, x)]]'
          = [[w \in Users |-> [x \in Users |-> Channel(w, x)]] EXCEPT ![v][u] = Tail(@)]
  BY <1>10, <1>11
<1> QED BY <1>4, <1>9, <1>12, <1>13 DEF Registry!Receive

LEMMA NextRegistry ==
    ASSUME TypeOK, RingInv, HomesInv, ChannelsListed, ChannelsListed', [Next]_vars
    PROVE  [Registry!Next]_(Registry!registry)
<1> USE DEF supplyVars, homeVars, sentVars, seenVars
<1>1. CASE UNCHANGED vars
  BY <1>1, RegistryKept DEF vars
<1>2. ASSUME NEW u \in Users, Admin(u) PROVE UNCHANGED Registry!registry
  BY <1>2, RegistryKept DEF Admin, SetCollectionMetadata, SetCollectionDetails, SetMaxSupply,
                            RenounceMintAuthority
<1>3. ASSUME NEW u \in Users, NEW v \in Users, SettleBurn(u, v) \/ Acknowledge(u, v)
      PROVE  UNCHANGED Registry!registry
  BY <1>3, RegistryKept DEF SettleBurn, Acknowledge
<1>4. ASSUME NEW u \in Users, NEW s \in Slots, Mint(u, s) PROVE Registry!Next
  BY <1>4, MintRegistry DEF Registry!Next
<1>5. ASSUME NEW u \in Users, NEW s \in Slots, Burn(u, s) PROVE Registry!Next
  BY <1>5, BurnRegistry DEF Registry!Next
<1>6. ASSUME NEW u \in Users, NEW s \in Slots, NEW v \in Users, Transfer(u, s, v)
      PROVE  Registry!Next
  BY <1>6, TransferRegistry DEF Registry!Next, RingInv
<1>7. ASSUME NEW u \in Users, NEW s \in Slots, NEW v \in Users, Claim(u, s, v)
      PROVE  Registry!Next
  BY <1>7, ClaimRegistry DEF Registry!Next
<1> QED BY <1>1, <1>2, <1>3, <1>4, <1>5, <1>6, <1>7 DEF Next, Holding, Passing

(* The contract implements the registry: a token is in one place at a time *)
(* and channels deliver in order, whatever old proofs the calls are shown. *)
THEOREM RefinesRegistry == Spec => ImplementsRegistry
<1>1. Init => TypeOK /\ RingInv /\ HomesInv
  BY InitType, InitRing, InitHomes
<1>2. TypeOK /\ RingInv /\ HomesInv /\ [Next]_vars => (TypeOK /\ RingInv /\ HomesInv)'
  BY NextType, NextRing, NextHomes
<1>3. TypeOK /\ RingInv /\ HomesInv => ChannelsListed
  BY ListedNow DEF RingInv
<1>4. TypeOK /\ RingInv /\ HomesInv /\ ChannelsListed /\ ChannelsListed' /\ [Next]_vars
        => [Registry!Next]_(Registry!registry)
  BY NextRegistry
<1> QED BY <1>1, <1>2, <1>3, <1>4, InitRegistry, PTL DEF Spec, ImplementsRegistry, Registry!Spec
-----------------------------------------------------------------------------
(* The accounts: what a call adds to a balance, a channel or a burn.       *)
USE FiniteAssumption

TokensIn(f) == Cardinality({s \in Slots : f[s] # NoToken})

With(f, s, t) == [f EXCEPT ![s] = t]

LEMMA SlotTaken ==
    ASSUME NEW f \in [Slots -> Token \cup {NoToken}], NEW s \in Slots, f[s] = NoToken, NEW t \in Token
    PROVE  TokensIn(With(f, s, t)) = TokensIn(f) + 1
<1> DEFINE old == {r \in Slots : f[r] # NoToken}
           new == {r \in Slots : With(f, s, t)[r] # NoToken}
<1>1. new = old \cup {s} /\ s \notin old
  BY DEF With
<1>2. IsFiniteSet(old)
  BY FS_Subset
<1> HIDE DEF old, new
<1>3. Cardinality(new) = Cardinality(old) + 1
  BY <1>1, <1>2, FS_AddElement
<1> QED BY <1>3 DEF TokensIn, old, new

LEMMA SlotFreed ==
    ASSUME NEW f \in [Slots -> Token \cup {NoToken}], NEW s \in Slots, f[s] # NoToken
    PROVE  TokensIn(With(f, s, NoToken)) = TokensIn(f) - 1
<1> DEFINE old == {r \in Slots : f[r] # NoToken}
           new == {r \in Slots : With(f, s, NoToken)[r] # NoToken}
<1>1. new = old \ {s} /\ s \in old
  BY DEF With
<1>2. IsFiniteSet(old)
  BY FS_Subset
<1> HIDE DEF old, new
<1>3. Cardinality(new) = Cardinality(old) - 1
  BY <1>1, <1>2, FS_RemoveElement
<1> QED BY <1>3 DEF TokensIn, old, new

(* Tokens sent and not claimed, by the two cursors.                        *)
InTransit == [u \in Users |-> [v \in Users |-> nonce_sent[u][v] - nonce_claimed[v][u]]]

LEMMA PositionsBetween ==
    ASSUME NEW claimed \in Int, NEW sent \in Int, claimed <= sent
    PROVE  Cardinality(claimed..(sent - 1)) = sent - claimed
<1>1. PICK last \in Int : last = sent - 1
  OBVIOUS
<1>2. Cardinality(claimed..last) = IF claimed > last THEN 0 ELSE last - claimed + 1
  BY FS_Interval
<1>3. (IF claimed > last THEN 0 ELSE last - claimed + 1) = sent - claimed
  BY <1>1
<1> QED BY <1>1, <1>2, <1>3

LEMMA WaitingIsInTransit == TypeOK /\ CursorsInOrder => Waiting = InTransit
<1> SUFFICES ASSUME TypeOK, CursorsInOrder, NEW u \in Users, NEW v \in Users
             PROVE  Cardinality(Pending(u, v)) = nonce_sent[u][v] - nonce_claimed[v][u]
  BY DEF Waiting, InTransit
<1>1. nonce_claimed[v][u] \in Int /\ nonce_sent[u][v] \in Int /\ nonce_claimed[v][u] <= nonce_sent[u][v]
  BY DEF TypeOK, CursorsInOrder
<1> QED BY <1>1, PositionsBetween DEF Pending

Balances == Sum(balance, Users)
Transit == TableSum(InTransit, Users, Users)
Burns == Sum(BurnsDue, Users)

AccountsAgree == balance = Occupied /\ Balances + Transit + Burns = total_supply

LEMMA TransitType ==
    TypeOK => InTransit \in Tables(Users, Users)
<1> SUFFICES ASSUME TypeOK, NEW u \in Users, NEW v \in Users
             PROVE  nonce_sent[u][v] - nonce_claimed[v][u] \in Int
  BY DEF InTransit, Tables
<1>1. nonce_sent[u][v] \in Int /\ nonce_claimed[v][u] \in Int
  BY DEF TypeOK
<1> QED BY <1>1

LEMMA AccountTypes ==
    ASSUME TypeOK
    PROVE  /\ balance \in [Users -> Int] /\ BurnsDue \in [Users -> Int]
           /\ InTransit \in Tables(Users, Users)
           /\ Balances \in Int /\ Transit \in Int /\ Burns \in Int /\ total_supply \in Int
<1>1. balance \in [Users -> Int] /\ total_supply \in Int
  BY DEF TypeOK
<1>2. BurnsDue \in [Users -> Int]
  BY DEF TypeOK, BurnsDue
<1>3. Balances \in Int /\ Burns \in Int
  BY <1>1, <1>2, SumType DEF Balances, Burns
<1>4. InTransit \in Tables(Users, Users)
  BY TransitType
<1>5. Transit \in Int
  BY <1>4, TableSumType DEF Transit
<1> QED BY <1>1, <1>2, <1>3, <1>4, <1>5

LEMMA AccountedIsAgreement ==
    ASSUME TypeOK, CursorsInOrder
    PROVE  Accounted <=> AccountsAgree
<1>1. \A f : Total(f) = Sum(f, Users)
  BY DEF Total, Sum
<1>2. Waiting = InTransit
  BY WaitingIsInTransit
<1>3. Total([u \in Users |-> Total(Waiting[u])]) = Transit
  <2>1. [u \in Users |-> Total(Waiting[u])] = RowSums(InTransit, Users, Users)
    BY <1>1, <1>2 DEF RowSums
  <2> QED BY <1>1, <2>1 DEF TableSum, Transit
<1>4. Total(BurnsDue) = Burns /\ Total(balance) = Balances
  BY <1>1 DEF Burns, Balances
<1> QED BY <1>3, <1>4 DEF Accounted, AccountsAgree

LEMMA InitAgrees == Init => AccountsAgree
<1> SUFFICES ASSUME Init PROVE AccountsAgree
  OBVIOUS
<1>0. TypeOK
  BY InitType
<1>1. balance = Occupied /\ \A u \in Users : balance[u] = 0
  <2>1. \A u \in Users : {s \in Slots : owned_tokens[u][s] # NoToken} = {}
    BY DEF Init
  <2> QED BY <2>1, FS_EmptySet DEF Init, Occupied
<1>2. \A u \in Users : BurnsDue[u] = 0
  BY DEF Init, BurnsDue
<1>3. \A u, v \in Users : InTransit[u][v] = 0
  BY DEF Init, InTransit
<1>4. Balances = 0 /\ Burns = 0
  BY <1>0, <1>1, <1>2, AccountTypes, SumOfZeros DEF Balances, Burns
<1>5. Transit = 0
  BY <1>0, <1>3, AccountTypes, TableOfZeros DEF Transit
<1> QED BY <1>1, <1>4, <1>5 DEF Init, AccountsAgree
-----------------------------------------------------------------------------
(* A token enters or leaves a slot, and the balance follows.               *)
Enters(u, s, t) ==
    /\ owned_tokens[u][s] = NoToken
    /\ owned_tokens' = [owned_tokens EXCEPT ![u][s] = t]
    /\ balance' = [balance EXCEPT ![u] = @ + 1]

Leaves(u, s) == owned_tokens[u][s] # NoToken /\ Clear(u, s)

LEMMA ColumnSum ==
    ASSUME NEW f \in [Users -> Int], NEW h \in [Users -> Int], NEW u \in Users,
           \A w \in Users \ {u} : h[w] = f[w]
    PROVE  Sum(h, Users) = Sum(f, Users) + (h[u] - f[u])
  BY SumChanges

MovedBy(f, u, n) == [f EXCEPT ![u] = f[u] + n]

LEMMA BalanceMoves ==
    ASSUME TypeOK, TypeOK', NEW u \in Users, NEW n \in Int, balance' = MovedBy(balance, u, n)
    PROVE  Balances' = Balances + n
<1>1. /\ balance \in [Users -> Int] /\ balance' \in [Users -> Int]
      /\ balance'[u] = balance[u] + n /\ \A w \in Users \ {u} : balance'[w] = balance[w]
  BY DEF TypeOK, MovedBy
<1>2. Sum(balance', Users) = Sum(balance, Users) + (balance'[u] - balance[u])
  BY <1>1, ColumnSum
<1>3. balance'[u] - balance[u] = n
  BY <1>1
<1> QED BY <1>2, <1>3 DEF Balances

LEMMA RowsCounted ==
    /\ Occupied = [u \in Users |-> TokensIn(owned_tokens[u])]
    /\ Occupied' = [u \in Users |-> TokensIn(owned_tokens'[u])]
  BY DEF Occupied, TokensIn

LEMMA EntersCounted ==
    ASSUME TypeOK, TypeOK', AccountsAgree, NEW u \in Users, NEW s \in Slots, NEW t \in Token,
           Enters(u, s, t)
    PROVE  balance' = Occupied' /\ Balances' = Balances + 1
<1>1. owned_tokens[u] \in [Slots -> Token \cup {NoToken}] /\ balance \in [Users -> Int]
  BY DEF TypeOK
<1>2. owned_tokens'[u] = With(owned_tokens[u], s, t) /\ \A w \in Users \ {u} : owned_tokens'[w] = owned_tokens[w]
  BY DEF Enters, TypeOK, With
<1>3. TokensIn(owned_tokens'[u]) = TokensIn(owned_tokens[u]) + 1
  BY <1>1, <1>2, SlotTaken DEF Enters
<1>4. balance' = [balance EXCEPT ![u] = @ + 1] /\ \A w \in Users : balance[w] = TokensIn(owned_tokens[w])
  BY RowsCounted DEF Enters, AccountsAgree
<1>5. \A w \in Users : balance'[w] = TokensIn(owned_tokens'[w])
  BY <1>1, <1>2, <1>3, <1>4
<1>6. balance' = Occupied'
  <2>1. balance' = [w \in Users |-> balance'[w]]
    BY DEF TypeOK
  <2> QED BY <1>5, <2>1, RowsCounted
<1>7. Balances' = Balances + 1
  <2>1. balance' = MovedBy(balance, u, 1)
    BY <1>4 DEF MovedBy
  <2> QED BY <2>1, BalanceMoves
<1> QED BY <1>6, <1>7

LEMMA LeavesCounted ==
    ASSUME TypeOK, TypeOK', AccountsAgree, NEW u \in Users, NEW s \in Slots, Leaves(u, s)
    PROVE  balance' = Occupied' /\ Balances' = Balances + (-1)
<1>1. owned_tokens[u] \in [Slots -> Token \cup {NoToken}] /\ balance \in [Users -> Int]
  BY DEF TypeOK
<1>2. owned_tokens'[u] = With(owned_tokens[u], s, NoToken) /\ \A w \in Users \ {u} : owned_tokens'[w] = owned_tokens[w]
  BY DEF Leaves, Clear, TypeOK, With
<1>3. TokensIn(owned_tokens'[u]) = TokensIn(owned_tokens[u]) - 1
  BY <1>1, <1>2, SlotFreed DEF Leaves
<1>4. \A w \in Users : balance[w] = TokensIn(owned_tokens[w])
  BY RowsCounted DEF AccountsAgree
<1>5. balance' = [balance EXCEPT ![u] = @ + (-1)]
  <2>1. balance[u] - 1 = balance[u] + (-1)
    BY <1>1
  <2> QED BY <2>1 DEF Leaves, Clear
<1>6. \A w \in Users : balance'[w] = TokensIn(owned_tokens'[w])
  BY <1>1, <1>2, <1>3, <1>4 DEF Leaves, Clear
<1>7. balance' = Occupied'
  <2>1. balance' = [w \in Users |-> balance'[w]]
    BY DEF TypeOK
  <2> QED BY <1>6, <2>1, RowsCounted
<1>8. Balances' = Balances + (-1)
  <2>1. balance' = MovedBy(balance, u, -1)
    BY <1>5 DEF MovedBy
  <2> QED BY <2>1, BalanceMoves
<1> QED BY <1>7, <1>8

LEMMA ChannelMoves ==
    ASSUME TypeOK, TypeOK', NEW u \in Users, NEW v \in Users,
           \A w, x \in Users : w # u \/ x # v => InTransit'[w][x] = InTransit[w][x]
    PROVE  Transit' = Transit + (InTransit'[u][v] - InTransit[u][v])
<1>1. InTransit \in Tables(Users, Users)
  BY TransitType
<1>2. InTransit' \in Tables(Users, Users)
  <2>1. ASSUME NEW w \in Users, NEW x \in Users PROVE nonce_sent'[w][x] - nonce_claimed'[x][w] \in Int
    <3>1. nonce_sent'[w][x] \in Int /\ nonce_claimed'[x][w] \in Int
      BY DEF TypeOK
    <3> QED BY <3>1
  <2> QED BY <2>1 DEF InTransit, Tables
<1>3. TableSum(InTransit', Users, Users)
        = TableSum(InTransit, Users, Users) + (InTransit'[u][v] - InTransit[u][v])
  <2>1. PICK f, h : f = InTransit /\ h = InTransit'
    OBVIOUS
  <2>2. f \in Tables(Users, Users) /\ h \in Tables(Users, Users)
    BY <1>1, <1>2, <2>1
  <2>3. \A w, x \in Users : w # u \/ x # v => h[w][x] = f[w][x]
    BY <2>1
  <2>4. TableSum(h, Users, Users) = TableSum(f, Users, Users) + (h[u][v] - f[u][v])
    <3>1. SameElsewhere(f, h, u, v, Users, Users)
      BY <2>3 DEF SameElsewhere
    <3> QED BY <2>2, <3>1, TableSumChanges
  <2> QED BY <2>1, <2>4
<1> QED BY <1>3 DEF Transit

LEMMA BurnMoves ==
    ASSUME TypeOK, TypeOK', NEW u \in Users, \A w \in Users \ {u} : BurnsDue'[w] = BurnsDue[w]
    PROVE  Burns' = Burns + (BurnsDue'[u] - BurnsDue[u])
<1>1. BurnsDue \in [Users -> Int]
  BY AccountTypes
<1>2. BurnsDue' \in [Users -> Int]
  BY DEF TypeOK, BurnsDue
<1>3. Sum(BurnsDue', Users) = Sum(BurnsDue, Users) + (BurnsDue'[u] - BurnsDue[u])
  <2>1. PICK f, h : f = BurnsDue /\ h = BurnsDue'
    OBVIOUS
  <2>2. f \in [Users -> Int] /\ h \in [Users -> Int] /\ \A w \in Users \ {u} : h[w] = f[w]
    BY <1>1, <1>2, <2>1
  <2>3. Sum(h, Users) = Sum(f, Users) + (h[u] - f[u])
    BY <2>2, ColumnSum
  <2> QED BY <2>1, <2>3
<1> QED BY <1>3 DEF Burns

TransitStays == UNCHANGED <<nonce_sent, nonce_claimed>>
BurnsStay == UNCHANGED <<burn_requested, burn_settled>>

LEMMA StaySame ==
    /\ TransitStays => Transit' = Transit
    /\ BurnsStay => Burns' = Burns
    /\ UNCHANGED balance => Balances' = Balances
    /\ UNCHANGED owned_tokens => Occupied' = Occupied
  BY DEF TransitStays, BurnsStay, Transit, InTransit, Burns, BurnsDue, Balances, Occupied

LEMMA AgreeByParts ==
    ASSUME TypeOK, AccountsAgree, balance' = Occupied', NEW a \in Int, NEW b \in Int, NEW c \in Int,
           Balances' = Balances + a, Transit' = Transit + b, Burns' = Burns + c,
           total_supply' = total_supply + (a + b + c)
    PROVE  AccountsAgree'
<1>1. Balances \in Int /\ Transit \in Int /\ Burns \in Int /\ Balances + Transit + Burns = total_supply
  BY AccountTypes DEF AccountsAgree
<1>2. Balances' + Transit' + Burns' = total_supply'
  BY <1>1
<1> QED BY <1>2 DEF AccountsAgree

LEMMA NothingMoved ==
    ASSUME AccountsAgree, TransitStays, BurnsStay, UNCHANGED <<balance, owned_tokens, total_supply>>
    PROVE  AccountsAgree'
  BY StaySame DEF AccountsAgree

LEMMA MintAgrees ==
    ASSUME TypeOK, TypeOK', AccountsAgree, NEW u \in Users, NEW s \in Slots, Mint(u, s)
    PROVE  AccountsAgree'
<1>1. total_minted \in Nat /\ total_minted < MaxFelt
  BY DEF TypeOK, Mint
<1>2. NextLocalId \in Token
  BY <1>1 DEF NextLocalId
<1>3. Enters(u, s, NextLocalId)
  BY DEF Mint, Enters
<1>4. balance' = Occupied' /\ Balances' = Balances + 1
  BY <1>2, <1>3, EntersCounted
<1>5. Transit' = Transit /\ Burns' = Burns
  BY StaySame DEF Mint, TransitStays, BurnsStay, sentVars, seenVars, burnVars
<1>6. Transit' = Transit + 0 /\ Burns' = Burns + 0
  BY <1>5, AccountTypes
<1>7. total_supply' = total_supply + (1 + 0 + 0)
  BY DEF Mint
<1> QED BY <1>4, <1>6, <1>7, AgreeByParts

LEMMA BurnAgrees ==
    ASSUME TypeOK, TypeOK', AccountsAgree, NEW u \in Users, NEW s \in Slots, Burn(u, s)
    PROVE  AccountsAgree'
<1>1. Leaves(u, s)
  BY DEF Burn, Leaves
<1>2. balance' = Occupied' /\ Balances' = Balances + (-1)
  BY <1>1, LeavesCounted
<1>3. Transit' = Transit + 0
  <2>1. Transit' = Transit
    BY StaySame DEF Burn, TransitStays, sentVars, seenVars
  <2> QED BY <2>1, AccountTypes
<1>4. Burns' = Burns + 1
  <2>1. /\ burn_requested' = [burn_requested EXCEPT ![u] = burn_requested[u] + 1]
        /\ burn_settled' = burn_settled
    BY DEF Burn
  <2>2. \A w \in Users \ {u} : BurnsDue'[w] = BurnsDue[w]
    BY <2>1 DEF BurnsDue, TypeOK
  <2>3. BurnsDue'[u] - BurnsDue[u] = 1
    <3>1. burn_requested[u] \in Int /\ burn_settled[u] \in Int /\ burn_requested'[u] = burn_requested[u] + 1
      BY <2>1 DEF TypeOK
    <3>2. BurnsDue'[u] = (burn_requested[u] + 1) - burn_settled[u] /\ BurnsDue[u] = burn_requested[u] - burn_settled[u]
      BY <2>1, <3>1 DEF BurnsDue
    <3> QED BY <3>1, <3>2
  <2>4. Burns' = Burns + (BurnsDue'[u] - BurnsDue[u])
    BY <2>2, BurnMoves
  <2> QED BY <2>3, <2>4
<1>5. total_supply' = total_supply + ((-1) + 0 + 1)
  BY AccountTypes DEF Burn, supplyVars
<1> QED BY <1>2, <1>3, <1>4, <1>5, AgreeByParts

LEMMA SettleAgrees ==
    ASSUME TypeOK, TypeOK', AccountsAgree, NEW u \in Users, NEW v \in Users, SettleBurn(u, v)
    PROVE  AccountsAgree'
<1>1. PICK requested \in past_burn[v] :
        /\ burn_settled' = [burn_settled EXCEPT ![v] = requested]
        /\ total_supply' = total_supply - (requested - burn_settled[v])
  BY DEF SettleBurn, CanSettle, NewlyBurned
<1>2. requested \in Int /\ burn_settled[v] \in Int /\ burn_requested[v] \in Int /\ total_supply \in Int
  BY DEF TypeOK
<1>3. PICK n \in Int : n = burn_settled[v] - requested
  BY <1>2
<1>4. burn_requested' = burn_requested /\ balance' = balance /\ owned_tokens' = owned_tokens
      /\ TransitStays
  BY DEF SettleBurn, homeVars, sentVars, seenVars, TransitStays
<1>5. Burns' = Burns + n
  <2>1. \A w \in Users \ {v} : BurnsDue'[w] = BurnsDue[w]
    BY <1>1, <1>4 DEF BurnsDue, TypeOK
  <2>2. BurnsDue'[v] - BurnsDue[v] = n
    <3>1. burn_settled'[v] = requested
      BY <1>1 DEF TypeOK
    <3>2. BurnsDue'[v] = burn_requested[v] - requested /\ BurnsDue[v] = burn_requested[v] - burn_settled[v]
      BY <1>4, <3>1 DEF BurnsDue
    <3> QED BY <1>2, <1>3, <3>2
  <2>3. Burns' = Burns + (BurnsDue'[v] - BurnsDue[v])
    BY <2>1, BurnMoves
  <2> QED BY <2>2, <2>3
<1>6. balance' = Occupied' /\ Balances' = Balances /\ Transit' = Transit
  BY <1>4, StaySame DEF AccountsAgree
<1>7. Balances' = Balances + 0 /\ Transit' = Transit + 0
  BY <1>6, AccountTypes
<1>8. total_supply' = total_supply + (0 + 0 + n)
  BY <1>1, <1>2, <1>3
<1> QED BY <1>5, <1>6, <1>7, <1>8, AgreeByParts

LEMMA TransferAgrees ==
    ASSUME TypeOK, TypeOK', CursorsInOrder, AccountsAgree,
           NEW u \in Users, NEW s \in Slots, NEW v \in Users, Transfer(u, s, v)
    PROVE  AccountsAgree'
<1>1. Leaves(u, s)
  BY DEF Transfer, Leaves
<1>2. balance' = Occupied' /\ Balances' = Balances + (-1)
  BY <1>1, LeavesCounted
<1>3. Burns' = Burns + 0
  <2>1. Burns' = Burns
    BY StaySame DEF Transfer, BurnsStay, burnVars
  <2> QED BY <2>1, AccountTypes
<1>4. Transit' = Transit + 1
  <2>1. /\ nonce_sent'[u][v] = nonce_sent[u][v] + 1
        /\ \A w, x \in Users : w # u \/ x # v => nonce_sent'[w][x] = nonce_sent[w][x]
        /\ nonce_claimed' = nonce_claimed
    <3>1. PICK n : n = nonce_sent[u][v]
      OBVIOUS
    <3>2. nonce_claimed' = nonce_claimed
      BY DEF Transfer, seenVars
    <3>3. /\ nonce_sent'[u][v] = n + 1
          /\ \A w, x \in Users : w # u \/ x # v => nonce_sent'[w][x] = nonce_sent[w][x]
      BY <3>1, TransferEffect
    <3> QED BY <3>1, <3>2, <3>3
  <2>2. \A w, x \in Users : w # u \/ x # v => InTransit'[w][x] = InTransit[w][x]
    BY <2>1 DEF InTransit
  <2>3. InTransit'[u][v] - InTransit[u][v] = 1
    <3>1. nonce_sent[u][v] \in Int /\ nonce_claimed[v][u] \in Int
      BY DEF TypeOK
    <3>2. /\ InTransit'[u][v] = (nonce_sent[u][v] + 1) - nonce_claimed[v][u]
          /\ InTransit[u][v] = nonce_sent[u][v] - nonce_claimed[v][u]
      BY <2>1 DEF InTransit
    <3> QED BY <3>1, <3>2
  <2>4. Transit' = Transit + (InTransit'[u][v] - InTransit[u][v])
    BY <2>2, ChannelMoves
  <2> QED BY <2>3, <2>4
<1>5. total_supply' = total_supply + ((-1) + 1 + 0)
  BY AccountTypes DEF Transfer, supplyVars
<1> QED BY <1>2, <1>3, <1>4, <1>5, AgreeByParts

LEMMA ClaimAgrees ==
    ASSUME TypeOK, TypeOK', RingInv, HomesInv, AccountsAgree,
           NEW u \in Users, NEW s \in Slots, NEW v \in Users, Claim(u, s, v)
    PROVE  AccountsAgree'
<1>1. PICK claimed \in Nat :
        /\ claimed = nonce_claimed[u][v] /\ claimed \in Pending(v, u)
        /\ nonce_claimed'[u][v] = claimed + 1
        /\ \A w, x \in Users : w # u \/ x # v => nonce_claimed'[w][x] = nonce_claimed[w][x]
        /\ owned_tokens' = [owned_tokens EXCEPT ![u][s] = Entry(v, u, claimed)]
  BY ClaimEffect
<1>2. Entry(v, u, claimed) \in Token
  <2>1. Entry(v, u, claimed) # NoToken /\ Entry(v, u, claimed) <= total_minted
    BY <1>1 DEF HomesInv, HomesAreMinted
  <2>2. Entry(v, u, claimed) \in Token \cup {NoToken}
    BY <1>1, EntryInRing DEF Entry, TypeOK, Ring
  <2> QED BY <2>1, <2>2
<1>3. Enters(u, s, Entry(v, u, claimed))
  BY <1>1 DEF Claim, CanClaim, Enters
<1>4. balance' = Occupied' /\ Balances' = Balances + 1
  BY <1>2, <1>3, EntersCounted
<1>5. Burns' = Burns + 0
  <2>1. Burns' = Burns
    BY StaySame DEF Claim, BurnsStay, burnVars
  <2> QED BY <2>1, AccountTypes
<1>6. Transit' = Transit + (-1)
  <2>1. nonce_sent' = nonce_sent
    BY DEF Claim, sentVars
  <2>2. \A w, x \in Users : w # v \/ x # u => InTransit'[w][x] = InTransit[w][x]
    BY <1>1, <2>1 DEF InTransit
  <2>3. InTransit'[v][u] - InTransit[v][u] = -1
    <3>1. nonce_sent[v][u] \in Int
      BY DEF TypeOK
    <3>2. /\ InTransit'[v][u] = nonce_sent[v][u] - (claimed + 1)
          /\ InTransit[v][u] = nonce_sent[v][u] - claimed
      BY <1>1, <2>1 DEF InTransit
    <3> QED BY <3>1, <3>2
  <2>4. Transit' = Transit + (InTransit'[v][u] - InTransit[v][u])
    BY <2>2, ChannelMoves
  <2> QED BY <2>3, <2>4
<1>7. total_supply' = total_supply + (1 + (-1) + 0)
  BY AccountTypes DEF Claim, supplyVars
<1> QED BY <1>4, <1>5, <1>6, <1>7, AgreeByParts

LEMMA NextAgrees ==
    ASSUME TypeOK, TypeOK', RingInv, HomesInv, AccountsAgree, [Next]_vars
    PROVE  AccountsAgree'
<1> USE DEF supplyVars, homeVars, burnVars, sentVars, seenVars, TransitStays, BurnsStay
<1>1. CASE UNCHANGED vars
  BY <1>1, NothingMoved DEF vars
<1>2. ASSUME NEW u \in Users, Admin(u) PROVE AccountsAgree'
  BY <1>2, NothingMoved DEF Admin, SetCollectionMetadata, SetCollectionDetails, SetMaxSupply,
                            RenounceMintAuthority
<1>3. ASSUME NEW u \in Users, NEW s \in Slots, Mint(u, s) \/ Burn(u, s) PROVE AccountsAgree'
  BY <1>3, MintAgrees, BurnAgrees
<1>4. ASSUME NEW u \in Users, NEW v \in Users, SettleBurn(u, v) PROVE AccountsAgree'
  BY <1>4, SettleAgrees
<1>5. ASSUME NEW u \in Users, NEW v \in Users, Acknowledge(u, v) PROVE AccountsAgree'
  BY <1>5, NothingMoved DEF Acknowledge
<1>6. ASSUME NEW u \in Users, NEW s \in Slots, NEW v \in Users, Transfer(u, s, v) \/ Claim(u, s, v)
      PROVE  AccountsAgree'
  BY <1>6, TransferAgrees, ClaimAgrees DEF RingInv
<1> QED BY <1>1, <1>2, <1>3, <1>4, <1>5, <1>6 DEF Next, Holding, Passing

(* Balances count the occupied slots, and held tokens, tokens in transit   *)
(* and burns that the issuer has yet to settle make up the supply, for any *)
(* finite set of users and however old the proofs that calls bring.        *)
THEOREM SupplyIsAccounted == Spec => []Accounted
<1>1. Init => TypeOK /\ RingInv /\ HomesInv /\ AccountsAgree
  BY InitType, InitRing, InitHomes, InitAgrees
<1>2. TypeOK /\ RingInv /\ HomesInv /\ AccountsAgree /\ [Next]_vars
        => (TypeOK /\ RingInv /\ HomesInv /\ AccountsAgree)'
  BY NextType, NextRing, NextHomes, NextAgrees
<1>3. TypeOK /\ RingInv /\ AccountsAgree => Accounted
  BY AccountedIsAgreement DEF RingInv
<1> QED BY <1>1, <1>2, <1>3, PTL DEF Spec
-----------------------------------------------------------------------------
(* Progress: whatever a call writes can be proved to the others, and       *)
(* nobody sends to itself.                                                 *)
LEMMA InitProgress == Init => ProgressInv
    BY DEF Init, ProgressInv, PresentIsProvable, NobodySendsToItself

LEMMA NextWrites ==
    ASSUME [Next]_vars
    PROVE  /\ UNCHANGED sentVars \/ \E u, v \in Users, s \in Slots : Transfer(u, s, v)
           /\ UNCHANGED seenVars \/ \E u, v \in Users, s \in Slots : Claim(u, s, v)
           /\ \/ UNCHANGED <<burn_requested, past_burn>>
              \/ \E u \in Users, s \in Slots : Burn(u, s)
<1> USE DEF burnVars
<1>1. CASE UNCHANGED vars
  BY <1>1 DEF vars, sentVars, seenVars
<1>2. ASSUME NEW u \in Users, Admin(u)
      PROVE  UNCHANGED <<sentVars, seenVars, burn_requested, past_burn>>
  BY <1>2 DEF Admin, SetCollectionMetadata, SetCollectionDetails, SetMaxSupply, RenounceMintAuthority
<1>3. ASSUME NEW u \in Users, NEW s \in Slots, Mint(u, s)
      PROVE  UNCHANGED <<sentVars, seenVars, burn_requested, past_burn>>
  BY <1>3 DEF Mint
<1>4. ASSUME NEW u \in Users, NEW s \in Slots, Burn(u, s) PROVE UNCHANGED <<sentVars, seenVars>>
  BY <1>4 DEF Burn
<1>5. ASSUME NEW u \in Users, NEW v \in Users, SettleBurn(u, v) \/ Acknowledge(u, v)
      PROVE  UNCHANGED <<sentVars, seenVars, burn_requested, past_burn>>
  BY <1>5 DEF SettleBurn, Acknowledge
<1>6. ASSUME NEW u \in Users, NEW s \in Slots, NEW v \in Users, Transfer(u, s, v)
      PROVE  UNCHANGED <<seenVars, burn_requested, past_burn>>
  BY <1>6 DEF Transfer
<1>7. ASSUME NEW u \in Users, NEW s \in Slots, NEW v \in Users, Claim(u, s, v)
      PROVE  UNCHANGED <<sentVars, burn_requested, past_burn>>
  BY <1>7 DEF Claim
<1> QED BY <1>1, <1>2, <1>3, <1>4, <1>5, <1>6, <1>7 DEF Next, Holding, Passing

SentProvable ==
    \A u, v \in Users :
        [ring |-> ring[u][v], nonce_sent |-> nonce_sent[u][v]] \in past_outbox[u][v]
SeenProvable == \A u, v \in Users : nonce_claimed[u][v] \in past_claimed[u][v]
BurnProvable == \A u \in Users : burn_requested[u] \in past_burn[u]

LEMMA TransferIsProvable ==
    ASSUME TypeOK, SentProvable, NobodySendsToItself,
           NEW u \in Users, NEW s \in Slots, NEW v \in Users, Transfer(u, s, v)
    PROVE  SentProvable' /\ NobodySendsToItself'
<1>1. PICK entries, n :
        /\ ring' = [ring EXCEPT ![u][v] = entries]
        /\ nonce_sent' = [nonce_sent EXCEPT ![u][v] = n]
        /\ past_outbox' = [past_outbox EXCEPT ![u][v] =
                              @ \cup {[ring |-> entries, nonce_sent |-> n]}]
  BY DEF Transfer
<1>2. /\ ring'[u][v] = entries /\ nonce_sent'[u][v] = n
      /\ past_outbox'[u][v] = past_outbox[u][v] \cup {[ring |-> entries, nonce_sent |-> n]}
  BY <1>1 DEF TypeOK
<1>3. \A w, x \in Users : w # u \/ x # v =>
        /\ ring'[w][x] = ring[w][x] /\ nonce_sent'[w][x] = nonce_sent[w][x]
        /\ past_outbox'[w][x] = past_outbox[w][x]
  BY <1>1 DEF TypeOK
<1>4. u # v
  BY DEF Transfer
<1>5. SentProvable'
  BY <1>2, <1>3 DEF SentProvable
<1>6. NobodySendsToItself'
  BY <1>3, <1>4 DEF NobodySendsToItself
<1> QED BY <1>5, <1>6

LEMMA ClaimIsProvable ==
    ASSUME TypeOK, SeenProvable, NEW u \in Users, NEW s \in Slots, NEW v \in Users, Claim(u, s, v)
    PROVE  SeenProvable'
<1>1. PICK cursor :
        /\ nonce_claimed' = [nonce_claimed EXCEPT ![u][v] = cursor]
        /\ past_claimed' = [past_claimed EXCEPT ![u][v] = @ \cup {cursor}]
  BY DEF Claim
<1>2. /\ nonce_claimed'[u][v] = cursor
      /\ past_claimed'[u][v] = past_claimed[u][v] \cup {cursor}
  BY <1>1 DEF TypeOK
<1>3. \A w, x \in Users : w # u \/ x # v =>
        nonce_claimed'[w][x] = nonce_claimed[w][x] /\ past_claimed'[w][x] = past_claimed[w][x]
  BY <1>1 DEF TypeOK
<1> QED BY <1>2, <1>3 DEF SeenProvable

LEMMA NextProgress ==
    ASSUME TypeOK, ProgressInv, [Next]_vars
    PROVE  ProgressInv'
<1>1. SentProvable /\ SeenProvable /\ BurnProvable /\ NobodySendsToItself
  BY DEF ProgressInv, PresentIsProvable, SentProvable, SeenProvable, BurnProvable
<1>2. SentProvable' /\ NobodySendsToItself'
  <2>1. CASE UNCHANGED sentVars
    BY <1>1, <2>1 DEF sentVars, SentProvable, NobodySendsToItself
  <2> QED BY <1>1, <2>1, NextWrites, TransferIsProvable
<1>3. SeenProvable'
  <2>1. CASE UNCHANGED seenVars
    BY <1>1, <2>1 DEF seenVars, SeenProvable
  <2> QED BY <1>1, <2>1, NextWrites, ClaimIsProvable
<1>4. BurnProvable'
  <2>1. CASE UNCHANGED <<burn_requested, past_burn>>
    BY <1>1, <2>1 DEF BurnProvable
  <2>2. ASSUME NEW u \in Users, NEW s \in Slots, Burn(u, s) PROVE BurnProvable'
    BY <1>1, <2>2 DEF Burn, BurnProvable, TypeOK
  <2> QED BY <2>1, <2>2, NextWrites
<1> QED BY <1>2, <1>3, <1>4
        DEF ProgressInv, PresentIsProvable, SentProvable, SeenProvable, BurnProvable

(* Burns are settled in order: an old counter is below the present one.    *)
LEMMA InitBurns == Init => OldBurnsBehind
    BY DEF Init, OldBurnsBehind

LEMMA NextBurns ==
    ASSUME TypeOK, OldBurnsBehind, [Next]_vars
    PROVE  OldBurnsBehind'
<1>1. ASSUME NEW u \in Users, NEW v \in Users, SettleBurn(u, v)
      PROVE  OldBurnsBehind'
  <2>1. PICK requested \in past_burn[v] : burn_settled' = [burn_settled EXCEPT ![v] = requested]
    BY <1>1 DEF SettleBurn
  <2>2. burn_settled'[v] = requested /\ \A w \in Users \ {v} : burn_settled'[w] = burn_settled[w]
    BY <2>1 DEF TypeOK
  <2>3. UNCHANGED <<burn_requested, past_burn>>
    BY <1>1 DEF SettleBurn
  <2> QED BY <2>2, <2>3 DEF OldBurnsBehind
<1>2. ASSUME NEW u \in Users, NEW s \in Slots, Burn(u, s) PROVE OldBurnsBehind'
  <2>1. /\ burn_requested' = [burn_requested EXCEPT ![u] = @ + 1]
        /\ past_burn' = [past_burn EXCEPT ![u] = @ \cup {burn_requested[u] + 1}]
        /\ burn_settled' = burn_settled
    BY <1>2 DEF Burn
  <2> SUFFICES ASSUME NEW w \in Users
               PROVE  /\ burn_settled[w] <= burn_requested'[w]
                      /\ \A old \in past_burn'[w] : old <= burn_requested'[w]
    BY <2>1 DEF OldBurnsBehind
  <2>2. /\ burn_settled[w] \in Nat /\ burn_requested[w] \in Nat /\ \A old \in past_burn[w] : old \in Nat
        /\ burn_settled[w] <= burn_requested[w]
        /\ \A old \in past_burn[w] : old <= burn_requested[w]
    BY DEF TypeOK, OldBurnsBehind
  <2>3. CASE w = u
    <3>1. /\ burn_requested'[w] = burn_requested[w] + 1
          /\ past_burn'[w] = past_burn[w] \cup {burn_requested[w] + 1}
      BY <2>1, <2>3 DEF TypeOK
    <3> QED BY <2>2, <3>1
  <2>4. CASE w # u
    BY <2>1, <2>2, <2>4 DEF TypeOK
  <2> QED BY <2>3, <2>4
<1>3. CASE UNCHANGED burnVars
  BY <1>3 DEF burnVars, OldBurnsBehind
<1>4. \/ UNCHANGED burnVars
      \/ \E u, v \in Users : SettleBurn(u, v)
      \/ \E u \in Users, s \in Slots : Burn(u, s)
  BY DEF vars, Next, Admin, Holding, Passing, SetCollectionMetadata, SetCollectionDetails,
         SetMaxSupply, RenounceMintAuthority, Mint, Acknowledge, Transfer, Claim
<1> QED BY <1>1, <1>2, <1>3, <1>4

(* The inductive invariant as a whole, the one the runs check.             *)
THEOREM NFTCorrect == Spec => []NFTInv
<1> DEFINE I == TypeOK /\ RingInv /\ HomesInv /\ OldBurnsBehind /\ ProgressInv
<1>1. Init => I
  BY InitType, InitRing, InitHomes, InitBurns, InitProgress
<1>2. I /\ [Next]_vars => I'
  BY NextType, NextRing, NextHomes, NextBurns, NextProgress
<1>3. I => NFTInv
  BY DEF HomesInv, NFTInv
<1> QED BY <1>1, <1>2, <1>3, PTL DEF Spec
-----------------------------------------------------------------------------
(* Nothing is stranded: the proof is at hand, and since the accounts make  *)
(* up the supply, a field element, there is room for it.                   *)
LEMMA RoomForAll ==
    ASSUME TypeOK, CursorsInOrder, OldBurnsBehind, AccountsAgree, NEW u \in Users, NEW v \in Users
    PROVE  /\ balance[v] + InTransit[u][v] <= total_supply
           /\ BurnsDue[u] <= total_supply
<1>1. /\ balance \in [Users -> Int] /\ BurnsDue \in [Users -> Int]
      /\ InTransit \in Tables(Users, Users) /\ total_supply \in Int
  BY AccountTypes
<1>2. \A w \in Users : balance[w] >= 0 /\ BurnsDue[w] >= 0
  BY DEF TypeOK, OldBurnsBehind, BurnsDue
<1>3. \A w, x \in Users : InTransit[w][x] >= 0
  <2> SUFFICES ASSUME NEW w \in Users, NEW x \in Users PROVE InTransit[w][x] >= 0
    OBVIOUS
  <2>1. /\ nonce_sent[w][x] \in Int /\ nonce_claimed[x][w] \in Int
        /\ nonce_claimed[x][w] <= nonce_sent[w][x]
    BY DEF TypeOK, CursorsInOrder
  <2> QED BY <2>1 DEF InTransit
<1>4. /\ Balances \in Int /\ Balances >= 0 /\ balance[v] <= Balances
      /\ Burns \in Int /\ Burns >= 0 /\ BurnsDue[u] <= Burns
  BY <1>1, <1>2, SumBounds DEF Balances, Burns
<1>5. /\ Transit \in Int /\ Transit >= 0 /\ InTransit[u][v] <= Transit
  BY <1>1, <1>3, TableSumBounds DEF Transit
<1>6. Balances + Transit + Burns = total_supply
  BY DEF AccountsAgree
<1>7. balance[v] \in Int /\ BurnsDue[u] \in Int /\ InTransit[u][v] \in Int
  BY <1>1 DEF Tables
<1> QED BY <1>1, <1>4, <1>5, <1>6, <1>7

LEMMA PendingIsClaimable ==
    ASSUME TypeOK, RingInv, HomesInv, ProgressInv, OldBurnsBehind, AccountsAgree,
           NEW u \in Users, NEW v \in Users, NEW s \in Slots,
           Pending(u, v) # {}, owned_tokens[v][s] = NoToken
    PROVE  \E outbox \in past_outbox[u][v] : CanClaim(v, s, u, outbox)
<1> DEFINE outbox == [ring |-> ring[u][v], nonce_sent |-> nonce_sent[u][v]]
           claimed == nonce_claimed[v][u]
<1>1. claimed \in Nat /\ nonce_sent[u][v] \in Felt /\ balance[v] \in Nat /\ total_supply \in Felt
  BY DEF TypeOK
<1>2. claimed < nonce_sent[u][v] /\ claimed \in Pending(u, v)
  BY <1>1 DEF Pending
<1>3. u # v
  BY <1>1, <1>2 DEF ProgressInv, NobodySendsToItself
<1>4. balance[v] < MaxFelt
  <2>1. balance[v] + (nonce_sent[u][v] - claimed) <= total_supply
    BY RoomForAll DEF InTransit, RingInv
  <2> QED BY <1>1, <1>2, <2>1
<1>5. ring[u][v][QueueEntry(claimed)] # NoToken
  BY <1>2 DEF HomesInv, HomesAreMinted, Entry
<1>6. outbox \in past_outbox[u][v]
  BY DEF ProgressInv, PresentIsProvable
<1>7. CanClaim(v, s, u, outbox)
  BY <1>1, <1>2, <1>3, <1>4, <1>5 DEF CanClaim, NextUnclaimed
<1> QED BY <1>6, <1>7

LEMMA ClaimIsAcknowledgeable ==
    ASSUME TypeOK, RingInv, ProgressInv, NEW u \in Users, NEW v \in Users,
           nonce_acked[u][v] < nonce_claimed[v][u]
    PROVE  \E claimed \in past_claimed[v][u] :
               CanAcknowledge(u, v, claimed) /\ claimed > nonce_acked[u][v]
<1>1. /\ nonce_acked[u][v] \in Nat /\ nonce_claimed[v][u] \in Nat /\ nonce_sent[u][v] \in Nat
      /\ nonce_claimed[v][u] <= nonce_sent[u][v]
  BY DEF TypeOK, RingInv, CursorsInOrder
<1>2. u # v
  BY <1>1 DEF ProgressInv, NobodySendsToItself
<1>3. nonce_claimed[v][u] \in past_claimed[v][u]
  BY DEF ProgressInv, PresentIsProvable
<1> QED BY <1>1, <1>2, <1>3 DEF CanAcknowledge, IsKnownClaim

LEMMA BurnIsSettleable ==
    ASSUME TypeOK, RingInv, ProgressInv, OldBurnsBehind, AccountsAgree, NEW u \in Users,
           burn_settled[u] < burn_requested[u]
    PROVE  \E requested \in past_burn[u] : CanSettle(Issuer, u, requested)
<1>1. BurnsDue[u] <= total_supply
  BY RoomForAll DEF RingInv
<1>2. burn_requested[u] \in past_burn[u]
  BY DEF ProgressInv, PresentIsProvable
<1>3. burn_requested[u] \in Int /\ burn_settled[u] \in Int /\ total_supply \in Int
  BY DEF TypeOK
<1> QED BY <1>1, <1>2, <1>3 DEF CanSettle, NewlyBurned, BurnsDue

(* THEOREM: no token is stranded. Whatever old proofs the others used, a   *)
(* pending token fits any free slot, a claim the sender has not seen can   *)
(* be acknowledged, and a requested burn settled.                          *)
THEOREM NoTokenIsStranded == Spec => []NothingStranded
<1> DEFINE I == TypeOK /\ RingInv /\ HomesInv /\ ProgressInv /\ OldBurnsBehind /\ AccountsAgree
<1>1. Init => I
  BY InitType, InitRing, InitHomes, InitProgress, InitBurns, InitAgrees
<1>2. I /\ [Next]_vars => I'
  BY NextType, NextRing, NextHomes, NextProgress, NextBurns, NextAgrees
<1>3. I => NothingStranded
  BY PendingIsClaimable, ClaimIsAcknowledgeable, BurnIsSettleable DEF NothingStranded
<1> QED BY <1>1, <1>2, <1>3, PTL DEF Spec
=============================================================================
