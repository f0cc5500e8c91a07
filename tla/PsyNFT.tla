------------------------------- MODULE PsyNFT -------------------------------
(***************************************************************************)
(* The PSY-721 collection contract (nft/src/main.psy.rs).                  *)
(*                                                                         *)
(* As in PsyToken, a call of u writes u's partition only, and reads of     *)
(* another partition return the values of any past checkpoint; one call    *)
(* reads all it needs of one entry at one checkpoint.  A transfer puts the *)
(* token into a ring of four entries, outbox[recipient] of the sender; the *)
(* recipient takes the entries in order, each against a proof of the ring  *)
(* that may be old; the sender reuses an entry once it has acknowledged    *)
(* the recipient's cursor, which it reads from a possibly old proof too.   *)
(*                                                                         *)
(* A token id hashes the creator, always Issuer, with a sequential         *)
(* local_id: it stands here for the local_id, 0 for the zero hash.  The    *)
(* metadata hash is copied wherever the id is, and is part of it here.     *)
(*                                                                         *)
(* A definition whose comment starts with "Faulty" is the next one with a  *)
(* plausible mistake.  Nothing uses it; it shows that a property notices.  *)
(***************************************************************************)
EXTENDS Integers, FiniteSets

CONSTANTS
    Users,      \* user ids inside the 2^24 bound
    Issuer,     \* ISSUER_USER_ID
    NoUser,     \* id 0
    MaxFelt,    \* p - 1, the largest field element (small in TLC)
    Slots,      \* indexes of owned_tokens (0..127 in the code)
    Symbols,    \* values of the collection's metadata
    Caps        \* caps set_max_supply is tried with

ASSUME UsersAssumption == Issuer \in Users /\ NoUser \notin Users
ASSUME MaxFeltAssumption == MaxFelt \in Nat \ {0}
ASSUME FiniteAssumption == IsFiniteSet(Users) /\ IsFiniteSet(Slots)
ASSUME CapsAssumption == Caps \subseteq 0..MaxFelt

Felt == 0..MaxFelt
Token == 1..MaxFelt
NoToken == 0
Window == 4

QueueEntry(nonce) == nonce % Window

Ring == [0..Window-1 -> Token \cup {NoToken}]

VARIABLES
    mint_authority, is_mint_renounced, max_supply, collection,  \* of Issuer
    total_minted, total_supply,                                 \* of Issuer
    balance,            \* balance[u]
    owned_tokens,       \* owned_tokens[u][slot]: a token, NoToken when inactive
    burn_requested,     \* burn_requested[u]
    burn_settled,       \* burn_settled[u], kept by Issuer
    ring,               \* ring[u][v]: the four entries of u's outbox to v
    nonce_sent,         \* nonce_sent[u][v]: tokens u has sent to v
    nonce_acked,        \* nonce_acked[u][v]: claims of v that u has seen
    nonce_claimed,      \* nonce_claimed[v][u]: tokens v has claimed from u
    past_outbox, past_claimed, past_burn    \* values so far

adminVars == <<mint_authority, is_mint_renounced, max_supply, collection>>
supplyVars == <<total_minted, total_supply>>
homeVars  == <<balance, owned_tokens>>
burnVars  == <<burn_requested, burn_settled, past_burn>>
sentVars  == <<ring, nonce_sent, past_outbox>>
seenVars  == <<nonce_claimed, past_claimed>>
vars == <<adminVars, supplyVars, homeVars, burnVars, sentVars, nonce_acked, seenVars>>

-----------------------------------------------------------------------------
EmptyRing == [i \in 0..Window-1 |-> NoToken]

Init ==
    /\ mint_authority = NoUser /\ is_mint_renounced = 0 /\ max_supply = 0
    /\ collection = [symbol |-> NoUser, details |-> NoUser]
    /\ total_minted = 0 /\ total_supply = 0
    /\ balance = [u \in Users |-> 0]
    /\ owned_tokens = [u \in Users |-> [s \in Slots |-> NoToken]]
    /\ burn_requested = [u \in Users |-> 0]
    /\ burn_settled = [u \in Users |-> 0]
    /\ ring = [u \in Users |-> [v \in Users |-> EmptyRing]]
    /\ nonce_sent = [u \in Users |-> [v \in Users |-> 0]]
    /\ nonce_acked = [u \in Users |-> [v \in Users |-> 0]]
    /\ nonce_claimed = [u \in Users |-> [v \in Users |-> 0]]
    /\ past_outbox = [u \in Users |-> [v \in Users |-> {[ring |-> EmptyRing, nonce_sent |-> 0]}]]
    /\ past_claimed = [u \in Users |-> [v \in Users |-> {0}]]
    /\ past_burn = [u \in Users |-> {0}]

-----------------------------------------------------------------------------
(* Administration of the collection: calls of the issuer partition.        *)

SetCollectionMetadata(u, symbol) ==
    /\ u = Issuer
    /\ is_mint_renounced = 0
    /\ mint_authority \in {NoUser, u}
    /\ mint_authority' = u
    /\ collection' = [collection EXCEPT !.symbol = symbol]
    /\ UNCHANGED <<is_mint_renounced, max_supply, supplyVars, homeVars, burnVars,
                   sentVars, nonce_acked, seenVars>>

SetCollectionDetails(u, details) ==
    /\ u = Issuer
    /\ is_mint_renounced = 0
    /\ mint_authority = u
    /\ collection' = [collection EXCEPT !.details = details]
    /\ UNCHANGED <<mint_authority, is_mint_renounced, max_supply, supplyVars, homeVars, burnVars,
                   sentVars, nonce_acked, seenVars>>

SetMaxSupply(u, cap) ==
    /\ u = Issuer
    /\ is_mint_renounced = 0
    /\ mint_authority = u
    /\ total_minted = 0 /\ max_supply = 0
    /\ cap > 0
    /\ max_supply' = cap
    /\ UNCHANGED <<mint_authority, is_mint_renounced, collection, supplyVars, homeVars, burnVars,
                   sentVars, nonce_acked, seenVars>>

RenounceMintAuthority(u) ==
    /\ u = Issuer
    /\ mint_authority # NoUser
    /\ is_mint_renounced' = 1
    /\ mint_authority' = NoUser
    /\ UNCHANGED <<max_supply, collection, supplyVars, homeVars, burnVars,
                   sentVars, nonce_acked, seenVars>>

-----------------------------------------------------------------------------
(* Minting into a free slot of the issuer, and burning in two steps.       *)

UnderCap(minted) == max_supply = 0 \/ minted < max_supply

NextLocalId == total_minted + 1

Mint(u, s) ==
    /\ u = Issuer
    /\ is_mint_renounced = 0
    /\ mint_authority = u
    /\ total_minted < MaxFelt
    /\ UnderCap(total_minted)
    /\ total_supply < MaxFelt
    /\ owned_tokens[u][s] = NoToken
    /\ balance[u] < MaxFelt
    /\ total_minted' = total_minted + 1
    /\ total_supply' = total_supply + 1
    /\ owned_tokens' = [owned_tokens EXCEPT ![u][s] = NextLocalId]
    /\ balance' = [balance EXCEPT ![u] = @ + 1]
    /\ UNCHANGED <<adminVars, burnVars, sentVars, nonce_acked, seenVars>>

(* The token leaves the slot.                                              *)
Clear(u, s) ==
    /\ owned_tokens' = [owned_tokens EXCEPT ![u][s] = NoToken]
    /\ balance' = [balance EXCEPT ![u] = @ - 1]

Burn(u, s) ==
    /\ owned_tokens[u][s] # NoToken
    /\ balance[u] > 0
    /\ burn_requested[u] < MaxFelt
    /\ Clear(u, s)
    /\ burn_requested' = [burn_requested EXCEPT ![u] = @ + 1]
    /\ past_burn' = [past_burn EXCEPT ![u] = @ \cup {burn_requested[u] + 1}]
    /\ UNCHANGED <<adminVars, supplyVars, burn_settled, sentVars, nonce_acked, seenVars>>

(* Faulty: the cumulative counter is taken for the burns still to settle.   *)
Unsettled(requested, settled) == requested

NewlyBurned(requested, settled) == requested - settled

CanSettle(u, sender, requested) ==
    /\ u = Issuer
    /\ requested > burn_settled[sender]
    /\ total_supply >= NewlyBurned(requested, burn_settled[sender])

SettleBurn(u, sender) ==
    /\ \E requested \in past_burn[sender] :
        /\ CanSettle(u, sender, requested)
        /\ burn_settled' = [burn_settled EXCEPT ![sender] = requested]
        /\ total_supply' = total_supply - NewlyBurned(requested, burn_settled[sender])
    /\ UNCHANGED <<adminVars, total_minted, homeVars, burn_requested, past_burn,
                   sentVars, nonce_acked, seenVars>>

-----------------------------------------------------------------------------
(* Transfers: the sender's ring, the recipient's cursor, and its           *)
(* acknowledgement.                                                        *)

(* Faulty: one entry more than the ring has.                               *)
HasRoomForOneMore(sent, acked) == acked <= sent /\ sent - acked <= Window

HasRoom(sent, acked) == acked <= sent /\ sent - acked < Window

Transfer(u, s, recipient) ==
    /\ recipient \in Users \ {u}
    /\ owned_tokens[u][s] # NoToken
    /\ HasRoom(nonce_sent[u][recipient], nonce_acked[u][recipient])
    /\ balance[u] >= 1
    /\ nonce_sent[u][recipient] < MaxFelt
    /\ Clear(u, s)
    /\ LET n == nonce_sent[u][recipient]
           entries == [ring[u][recipient] EXCEPT ![QueueEntry(n)] = owned_tokens[u][s]]
       IN
        /\ ring' = [ring EXCEPT ![u][recipient] = entries]
        /\ nonce_sent' = [nonce_sent EXCEPT ![u][recipient] = n + 1]
        /\ past_outbox' = [past_outbox EXCEPT ![u][recipient] =
                              @ \cup {[ring |-> entries, nonce_sent |-> n + 1]}]
    /\ UNCHANGED <<adminVars, supplyVars, burnVars, nonce_acked, seenVars>>

(* Faulty: the claim of the last token sent cannot be acknowledged.         *)
IsOldClaim(claimed, acked, sent) == claimed >= acked /\ claimed < sent

IsKnownClaim(claimed, acked, sent) == claimed >= acked /\ claimed <= sent

CanAcknowledge(u, recipient, claimed) ==
    /\ recipient \in Users \ {u}
    /\ IsKnownClaim(claimed, nonce_acked[u][recipient], nonce_sent[u][recipient])

Acknowledge(u, recipient) ==
    /\ \E claimed \in past_claimed[recipient][u] :
        /\ CanAcknowledge(u, recipient, claimed)
        /\ nonce_acked' = [nonce_acked EXCEPT ![u][recipient] = claimed]
    /\ UNCHANGED <<adminVars, supplyVars, homeVars, burnVars, sentVars, seenVars>>

(* Faulty: the recipient takes the token sent last.                         *)
LastSent(outbox, claimed) == outbox.ring[QueueEntry(outbox.nonce_sent - 1)]

NextUnclaimed(outbox, claimed) == outbox.ring[QueueEntry(claimed)]

(* The cursor moves by one token.                                          *)
NextCursor(claimed) == claimed + 1

CanClaim(u, s, sender, outbox) ==
    /\ sender \in Users \ {u}
    /\ owned_tokens[u][s] = NoToken
    /\ balance[u] < MaxFelt
    /\ nonce_claimed[u][sender] < MaxFelt
    /\ outbox.nonce_sent > nonce_claimed[u][sender]
    /\ NextUnclaimed(outbox, nonce_claimed[u][sender]) # NoToken

Claim(u, s, sender) ==
    /\ \E outbox \in past_outbox[sender][u] :
        LET claimed == nonce_claimed[u][sender]
            token == NextUnclaimed(outbox, claimed)
            cursor == NextCursor(claimed)
        IN
        /\ CanClaim(u, s, sender, outbox)
        /\ owned_tokens' = [owned_tokens EXCEPT ![u][s] = token]
        /\ nonce_claimed' = [nonce_claimed EXCEPT ![u][sender] = cursor]
        /\ past_claimed' = [past_claimed EXCEPT ![u][sender] = @ \cup {cursor}]
    /\ balance' = [balance EXCEPT ![u] = @ + 1]
    /\ UNCHANGED <<adminVars, supplyVars, burnVars, sentVars, nonce_acked>>

-----------------------------------------------------------------------------
Admin(u) ==
    \/ \E x \in Symbols : SetCollectionMetadata(u, x) \/ SetCollectionDetails(u, x)
    \/ \E cap \in Caps : SetMaxSupply(u, cap)
    \/ RenounceMintAuthority(u)

Holding(u) == \E s \in Slots : Mint(u, s) \/ Burn(u, s)

Passing(u) ==
    \E v \in Users :
        \/ SettleBurn(u, v)
        \/ Acknowledge(u, v)
        \/ \E s \in Slots : Transfer(u, s, v) \/ Claim(u, s, v)

Next == \E u \in Users : Admin(u) \/ Holding(u) \/ Passing(u)

Spec == Init /\ [][Next]_vars
=============================================================================
