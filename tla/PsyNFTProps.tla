----------------------------- MODULE PsyNFTProps -----------------------------
(***************************************************************************)
(* Properties of the PSY-721 collection: what may go wrong when the ring   *)
(* of four entries is written, read and reused on the strength of proofs   *)
(* that may be old.                                                        *)
(***************************************************************************)
EXTENDS PsyNFT, FiniteSetsExt

Outbox == [ring : Ring, nonce_sent : Felt]

(* Every field holds a token, a field element or a user id, and every      *)
(* remotely readable entry one of its own past values.                     *)
TypeOK ==
    /\ mint_authority \in {NoUser, Issuer} /\ is_mint_renounced \in {0, 1}
    /\ max_supply \in Felt /\ total_minted \in Felt /\ total_supply \in Felt
    /\ balance \in [Users -> Felt]
    /\ owned_tokens \in [Users -> [Slots -> Token \cup {NoToken}]]
    /\ burn_requested \in [Users -> Felt] /\ burn_settled \in [Users -> Felt]
    /\ ring \in [Users -> [Users -> Ring]]
    /\ nonce_sent \in [Users -> [Users -> Felt]]
    /\ nonce_acked \in [Users -> [Users -> Felt]]
    /\ nonce_claimed \in [Users -> [Users -> Felt]]
    /\ past_outbox \in [Users -> [Users -> SUBSET Outbox]]
    /\ past_claimed \in [Users -> [Users -> SUBSET Felt]]
    /\ past_burn \in [Users -> SUBSET Felt]

-----------------------------------------------------------------------------
(* The positions of u's outbox to v that v has not claimed.                *)
Pending(u, v) == nonce_claimed[v][u]..(nonce_sent[u][v] - 1)
Entry(u, v, n) == ring[u][v][QueueEntry(n)]

(* No token is ever in two slots, in two pending entries, or in a slot and *)
(* a pending entry (transfer, claim: the ring is read from old proofs).    *)
SlotsDiffer ==
    \A u, v \in Users, s, t \in Slots :
        owned_tokens[u][s] # NoToken /\ owned_tokens[u][s] = owned_tokens[v][t]
        => u = v /\ s = t

EntriesDiffer ==
    \A u, v, w, x \in Users : \A n \in Pending(u, v), m \in Pending(w, x) :
        Entry(u, v, n) = Entry(w, x, m) => u = w /\ v = x /\ n = m

SlotsAndEntriesDiffer ==
    \A u, v, w \in Users, s \in Slots : \A n \in Pending(u, v) :
        owned_tokens[w][s] # Entry(u, v, n)

OneHome == SlotsDiffer /\ EntriesDiffer /\ SlotsAndEntriesDiffer

(* The cursors of a pair of users keep their order, and never more than    *)
(* four transfers are unacknowledged: acknowledge acts on an old cursor.   *)
CursorsInOrder ==
    \A u, v \in Users :
        /\ nonce_acked[u][v] <= nonce_claimed[v][u]
        /\ nonce_claimed[v][u] <= nonce_sent[u][v]
        /\ nonce_sent[u][v] <= nonce_acked[u][v] + Window

HasHome(t) ==
    \/ \E u \in Users, s \in Slots : owned_tokens[u][s] = t
    \/ \E u, v \in Users : \E n \in Pending(u, v) : Entry(u, v, n) = t

(* A burned token never comes back, however old the proof that is shown.   *)
BurnedForGood ==
    [][\A t \in 1..total_minted : HasHome(t)' => HasHome(t)]_vars

(* Tokens are minted one by one within the cap, and not after renouncing.  *)
MintIsBounded ==
    [][ total_minted' # total_minted =>
        /\ total_minted' = total_minted + 1
        /\ is_mint_renounced = 0
        /\ max_supply # 0 => total_minted < max_supply ]_vars

-----------------------------------------------------------------------------
(* The accounts of a collection.                                           *)
Total(f) == MapThenSumSet(LAMBDA u : f[u], Users)

Occupied == [u \in Users |-> Cardinality({s \in Slots : owned_tokens[u][s] # NoToken})]
Waiting == [u \in Users |-> [v \in Users |-> Cardinality(Pending(u, v))]]
BurnsDue == [u \in Users |-> burn_requested[u] - burn_settled[u]]

(* SAFETY: balances count the occupied slots, and held tokens, tokens in   *)
(* transit and unsettled burns make up the supply (nft/README.md).         *)
Accounted ==
    /\ balance = Occupied
    /\ Total(Occupied) + Total([u \in Users |-> Total(Waiting[u])]) + Total(BurnsDue)
         = total_supply

-----------------------------------------------------------------------------
(* The inductive invariant: what an old outbox or cursor is still good for. *)

(* An old outbox shows, at every position that can still be claimed, what  *)
(* the ring holds there now; the rest of it is behind the cursor.          *)
OldOutboxesAgree ==
    \A u, v \in Users : \A old \in past_outbox[u][v] :
        /\ old.nonce_sent <= nonce_sent[u][v]
        /\ \A n \in Pending(u, v) :
            n < old.nonce_sent => old.ring[QueueEntry(n)] = Entry(u, v, n)

OldCursorsBehind ==
    \A u, v \in Users : \A old \in past_claimed[v][u] : old <= nonce_claimed[v][u]

OldBurnsBehind ==
    \A u \in Users :
        /\ burn_settled[u] <= burn_requested[u]
        /\ \A old \in past_burn[u] : old <= burn_requested[u]

HomesAreMinted ==
    /\ \A u \in Users, s \in Slots : owned_tokens[u][s] <= total_minted
    /\ \A u, v \in Users : \A n \in Pending(u, v) :
        Entry(u, v, n) # NoToken /\ Entry(u, v, n) <= total_minted

RingInv == CursorsInOrder /\ OldOutboxesAgree /\ OldCursorsBehind

(* What the next call needs is at hand: the present value of every entry   *)
(* has a proof, and nobody's own outbox or cursor is in use.               *)
PresentIsProvable ==
    /\ \A u, v \in Users :
        /\ [ring |-> ring[u][v], nonce_sent |-> nonce_sent[u][v]] \in past_outbox[u][v]
        /\ nonce_claimed[u][v] \in past_claimed[u][v]
    /\ \A u \in Users : burn_requested[u] \in past_burn[u]

NobodySendsToItself ==
    \A u \in Users : nonce_sent[u][u] = 0

ProgressInv == PresentIsProvable /\ NobodySendsToItself

NFTInv ==
    TypeOK /\ RingInv /\ HomesAreMinted /\ OneHome /\ OldBurnsBehind /\ ProgressInv

-----------------------------------------------------------------------------
(* No token is stranded: a pending token can be claimed into any free      *)
(* slot, a ring whose claims the sender has not seen can be acknowledged,  *)
(* and a requested burn can be settled, each with a proof that exists.     *)
NothingStranded ==
    \A u, v \in Users :
        /\ \A s \in Slots :
            Pending(u, v) # {} /\ owned_tokens[v][s] = NoToken =>
                \E outbox \in past_outbox[u][v] : CanClaim(v, s, u, outbox)
        /\ nonce_acked[u][v] < nonce_claimed[v][u] =>
            \E claimed \in past_claimed[v][u] :
                CanAcknowledge(u, v, claimed) /\ claimed > nonce_acked[u][v]
        /\ burn_settled[u] < burn_requested[u] =>
            \E requested \in past_burn[u] : CanSettle(Issuer, u, requested)

(* What the registry calls holdings and channels.                          *)
Held(u) == {owned_tokens[u][s] : s \in Slots} \ {NoToken}

Channel(u, v) ==
    [i \in 1..(nonce_sent[u][v] - nonce_claimed[v][u]) |->
        Entry(u, v, nonce_claimed[v][u] + i - 1)]

Registry == INSTANCE NFTRegistry WITH
    minted   <- total_minted,
    holdings <- [u \in Users |-> Held(u)],
    channel  <- [u \in Users |-> [v \in Users |-> Channel(u, v)]]

(* The contract implements the registry: every claim delivers the oldest   *)
(* token in transit, whatever outbox it was proved against.                *)
ImplementsRegistry == Registry!Spec
=============================================================================
