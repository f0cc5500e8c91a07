---------------------------- MODULE PsyTokenProps ----------------------------
(***************************************************************************)
(* Properties of the PSY-20 token.  Each is about what may go wrong when a *)
(* call acts on a remote partition as it was, not as it is.                *)
(***************************************************************************)
EXTENDS PsyToken, FiniteSetsExt

(* Every field holds a field element, a user id or a status, and every     *)
(* remotely readable entry is one of its own past values.                  *)
TypeOK ==
    /\ balance \in [Users -> Felt]
    /\ mint_authority \in {NoUser, Issuer} /\ is_mint_renounced \in {0, 1}
    /\ max_supply \in Felt /\ metadata \in Metadata
    /\ total_minted \in Felt /\ total_supply \in Felt
    /\ burn_requested \in [Users -> Felt] /\ burn_settled \in [Users -> Felt]
    /\ amount_sent \in [Users -> [Users -> Felt]]
    /\ amount_claimed \in [Users -> [Users -> Felt]]
    /\ delegations \in [Users -> [Channels -> DelegationChannel]]
    /\ delegation_spends \in [Users -> [Users -> [Channels -> DelegationSpend]]]
    /\ past_sent \in [Users -> [Users -> SUBSET Felt]]
    /\ past_burn \in [Users -> SUBSET Felt]
    /\ past_delegations \in [Users -> [Channels -> SUBSET DelegationChannel]]
    /\ past_spends \in [Users -> [Users -> [Channels -> SUBSET DelegationSpend]]]

-----------------------------------------------------------------------------
(* A receiver never claims more than its sender has sent, although every   *)
(* claim, cancellation and refund acts on an old outbox (claim,            *)
(* cancel_unclaimed_payment; DESIGN.md 1.3).                               *)
ClaimedWithinSent ==
    \A u, v \in Users : amount_claimed[v][u] <= amount_sent[u][v]

(* The issuer never settles more of a burn than its holder requested       *)
(* (settle_burn reads the holder's counter remotely).                      *)
SettledWithinRequested ==
    \A u \in Users : burn_settled[u] <= burn_requested[u]

(* The lifetime cap holds for issuance through mint and mint_to together,  *)
(* and supply never exceeds lifetime issuance.                             *)
SupplyCap ==
    /\ max_supply # 0 => total_minted <= max_supply
    /\ total_supply <= total_minted

(* After renounce_mint_authority no call ever issues again or changes the  *)
(* cap, the authority or the metadata.                                     *)
RenouncedIsFinal ==
    [][is_mint_renounced = 1 => UNCHANGED <<adminVars, total_minted>>]_vars

(* Outbox counters, burn counters and slot versions never go back: every   *)
(* old proof stays a lower bound of the present (DESIGN.md 1.3 and 5).     *)
CountersMonotone ==
    [][ \A u, v \in Users :
        /\ amount_sent[u][v] <= amount_sent'[u][v]
        /\ amount_claimed[u][v] <= amount_claimed'[u][v]
        /\ burn_requested[u] <= burn_requested'[u]
        /\ burn_settled[u] <= burn_settled'[u]
        /\ \A c \in Channels :
            /\ delegations[u][c].channel_version <= delegations'[u][c].channel_version
            /\ delegation_spends[u][v][c].channel_version
                 <= delegation_spends'[u][v][c].channel_version ]_vars

-----------------------------------------------------------------------------
Escrowed(o, c) == delegations[o][c].status \in {ACTIVE, REVOKE_PENDING}

(* What the slot's spender has paid out of the version now in the slot.    *)
PaidOut(o, c) ==
    LedgerFor(delegation_spends[delegations[o][c].spender][o][c],
              delegations[o][c].channel_version)

(* A spender's ledger never exceeds the allocation it draws on, whatever   *)
(* proofs of the slot it has shown (spend_delegation).                     *)
SpentWithinAllocation ==
    \A o \in Users, c \in Channels :
        Escrowed(o, c) => PaidOut(o, c) <= delegations[o][c].allocated_amount

(* One version of a slot is one authorization of one spender: two ledgers  *)
(* never hold the same version of it (open_delegation_channel reuses slots *)
(* for other spenders while old ACTIVE proofs remain valid).               *)
VersionHasOneSpender ==
    \A o, s, t \in Users, c \in Channels :
        /\ s # t
        /\ delegation_spends[s][o][c].channel_version # 0
        => delegation_spends[s][o][c].channel_version
             # delegation_spends[t][o][c].channel_version

(* A closed ledger is terminal for its version: spent never changes again  *)
(* (DESIGN.md 5, "spent is then terminal").                                *)
ClosedIsTerminal ==
    [][ \A s, o \in Users, c \in Channels :
        LET l == delegation_spends[s][o][c]
            m == delegation_spends'[s][o][c]
        IN l.closed = 1 => m = l \/ m.channel_version > l.channel_version ]_vars

(* Value leaves a slot only while its owner still holds it in escrow for   *)
(* that spender and version, even when the spender's proof is old: after   *)
(* the owner has been refunded no stale ACTIVE proof pays again.           *)
PayoutsAreEscrowed ==
    [][ \A s, o \in Users, c \in Channels :
        LET l == delegation_spends[s][o][c]
            m == delegation_spends'[s][o][c]
        IN m.spent > LedgerFor(l, m.channel_version) =>
            /\ Escrowed(o, c)
            /\ delegations[o][c].spender = s
            /\ delegations[o][c].channel_version = m.channel_version ]_vars

(* The refund of finalize_revoke_delegation plus what the spender has paid *)
(* out by now (not when the ledger was read) is the whole allocation.      *)
RefundIsExact ==
    [][ \A o \in Users, c \in Channels :
        Escrowed(o, c) /\ delegations'[o][c].status = CLOSED
        => balance'[o] - balance[o] + PaidOut(o, c) = delegations[o][c].allocated_amount ]_vars

-----------------------------------------------------------------------------
(* The inductive invariant behind the properties above: what every proof   *)
(* still in circulation can be used for.                                   *)

(* An old outbox or burn counter is a lower bound of the present one.       *)
OldCountersBehind ==
    \A u, v \in Users :
        /\ \A total \in past_sent[u][v] : total <= amount_sent[u][v]
        /\ \A total \in past_burn[u] : total <= burn_requested[u]

Superseded(ledger, version) ==
    \/ ledger.channel_version > version
    \/ ledger.channel_version = version /\ ledger.closed = 1

(* An old proof of an open slot either shows the allocation the slot holds *)
(* now, or its spender's ledger has been closed for it: the spender cannot *)
(* use it again.                                                           *)
OldSlotsSuperseded ==
    \A o \in Users, c \in Channels : \A ch \in past_delegations[o][c] :
        ch.status \in {ACTIVE, REVOKE_PENDING} =>
            /\ ch.spender \in Users /\ ch.channel_version > 0
            /\ ch.channel_version <= delegations[o][c].channel_version
            /\ \/ /\ Escrowed(o, c)
                  /\ ch.channel_version = delegations[o][c].channel_version
                  /\ ch.spender = delegations[o][c].spender
                  /\ ch.allocated_amount = delegations[o][c].allocated_amount
               \/ Superseded(delegation_spends[ch.spender][o][c], ch.channel_version)

(* An old closed ledger is the present one or of an earlier version.        *)
OldLedgersBehind ==
    \A s, o \in Users, c \in Channels : \A old \in past_spends[s][o][c] :
        LET now == delegation_spends[s][o][c] IN
        /\ old.channel_version <= now.channel_version
        /\ old.channel_version = now.channel_version /\ old.closed = 1 => old = now

SlotsWellFormed ==
    \A o \in Users, c \in Channels :
        LET ch == delegations[o][c] IN
        /\ Escrowed(o, c) => ch.spender \in Users \ {o} /\ ch.channel_version > 0
        /\ ~Escrowed(o, c) => ch.spender = NoUser /\ ch.allocated_amount = 0

LedgersWellFormed ==
    \A s, o \in Users, c \in Channels :
        LET l == delegation_spends[s][o][c] IN
        /\ l.channel_version <= delegations[o][c].channel_version
        /\ l.channel_version = 0 => l = NoSpend
        /\ Escrowed(o, c) /\ l.channel_version = delegations[o][c].channel_version
             => s = delegations[o][c].spender

CounterInv == OldCountersBehind /\ ClaimedWithinSent /\ SettledWithinRequested

SlotInv == /\ OldSlotsSuperseded /\ OldLedgersBehind
           /\ SlotsWellFormed /\ LedgersWellFormed
           /\ SpentWithinAllocation /\ VersionHasOneSpender

-----------------------------------------------------------------------------
(* What an actor needs to move on: the present entries can be proved, as   *)
(* old ones can; nobody pays itself, so a payment has another user to      *)
(* claim it; and a ledger is closed as soon as its version is over, so     *)
(* that its spender can use a later one.                                   *)
PresentIsProvable ==
    \A u, v \in Users :
        /\ amount_sent[u][v] \in past_sent[u][v] /\ burn_requested[u] \in past_burn[u]
        /\ \A c \in Channels :
            /\ delegations[u][c] \in past_delegations[u][c]
            /\ delegation_spends[v][u][c] \in past_spends[v][u][c]

NobodyPaysItself == \A u \in Users : amount_sent[u][u] = 0

OverIsClosed ==
    \A s, o \in Users, c \in Channels :
        LET l == delegation_spends[s][o][c] IN
        \/ l.channel_version = 0 \/ l.closed = 1
        \/ Escrowed(o, c) /\ l.channel_version = delegations[o][c].channel_version

ProgressInv == PresentIsProvable /\ NobodyPaysItself /\ OverIsClosed

(* The conjunction that TLC checks and the proofs show to be inductive:     *)
(* types, counters, the cap, the delegation slots, and the above.          *)
TokenInv == TypeOK /\ CounterInv /\ SupplyCap /\ SlotInv /\ ProgressInv

(* A guard never strands value that another user has made over: with the   *)
(* right proof a payment in transit can be claimed, a requested burn       *)
(* settled, an escrow slot closed by its spender and, once closed,         *)
(* refunded to its owner (request_revoke_delegation asks no more than an   *)
(* active slot).  The calls do nothing but what these guards admit.        *)
NothingStranded ==
    \A u, v \in Users :
        /\ amount_claimed[v][u] < amount_sent[u][v] =>
            \E total \in past_sent[u][v] : CanClaim(v, u, total)
        /\ burn_settled[u] < burn_requested[u] =>
            \E total \in past_burn[u] : CanSettle(Issuer, u, total)
        /\ \A c \in Channels :
            Escrowed(u, c) /\ delegations[u][c].spender = v =>
                \/ \E ch \in past_delegations[u][c] : CanClose(v, u, c, ch)
                \/ delegations[u][c].status = ACTIVE
                \/ \E ledger \in past_spends[v][u][c] : CanFinalize(u, c, v, ledger)

-----------------------------------------------------------------------------
(* The contract implements the ledger of TokenLedger, in which every step  *)
(* acts on the present: old proofs make no difference to where value is.   *)
Padded2 == { [to |-> <<b.to[1], b.to[2], NoUser, NoUser, NoUser>>,
              amount |-> <<b.amount[1], b.amount[2], 0, 0, 0>>] : b \in Batches2 }

Remaining(o, c) ==
    IF Escrowed(o, c) THEN delegations[o][c].allocated_amount - PaidOut(o, c) ELSE 0

InTransit == [u \in Users |-> [v \in Users |-> amount_sent[u][v] - amount_claimed[v][u]]]
Unspent   == [o \in Users |-> [c \in Channels |-> Remaining(o, c)]]
Spenders  == [o \in Users |-> [c \in Channels |-> delegations[o][c].spender]]
Unsettled == [u \in Users |-> burn_requested[u] - burn_settled[u]]

Ideal == INSTANCE TokenLedger WITH
    Batches  <- Padded2 \cup Batches5,
    free     <- balance,
    transit  <- InTransit,
    escrow   <- Unspent,
    delegate <- Spenders,
    burning  <- Unsettled,
    supply   <- total_supply

ImplementsLedger == Ideal!Spec

-----------------------------------------------------------------------------
Total(f) == MapThenSumSet(LAMBDA u : f[u], Users)
Locked(f) == MapThenSumSet(LAMBDA c : f[c], Channels)

(* Balances, payments in transit, unspent escrow and unsettled burns add   *)
(* up to the supply, and settled burns make up the rest of the issuance    *)
(* (DESIGN.md 5, "Conservation of Supply").                                *)
Conservation ==
    /\ Total(balance) + Total([u \in Users |-> Total(InTransit[u])])
           + Total([o \in Users |-> Locked(Unspent[o])]) + Total(Unsettled) = total_supply
    /\ Total(burn_settled) = total_minted - total_supply
=============================================================================
