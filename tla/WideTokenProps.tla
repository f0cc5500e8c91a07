--------------------------- MODULE WideTokenProps ---------------------------
(***************************************************************************)
(* What the pairs of limbs must not change: the wide profile is the PSY-20 *)
(* token, on amounts up to Base * Base - 1.                                *)
(***************************************************************************)
EXTENDS WideToken

Metadata == [symbol : Symbols \cup {NoUser}, decimals : 0..MaxDecimals,
             extended : Symbols \cup {NoUser}]

(* TYPE: every stored pair is in canonical form, both limbs below Base, and *)
(* so is every value a proof can still show.                               *)
WideType ==
    /\ balance \in [Users -> Wide]
    /\ mint_authority \in {NoUser, Issuer} /\ is_mint_renounced \in {0, 1}
    /\ max_supply \in Wide /\ metadata \in Metadata
    /\ total_minted \in Wide /\ total_supply \in Wide
    /\ burn_requested \in [Users -> Wide] /\ burn_settled \in [Users -> Wide]
    /\ amount_sent \in [Users -> [Users -> Wide]]
    /\ amount_claimed \in [Users -> [Users -> Wide]]
    /\ delegations \in [Users -> [Channels -> DelegationChannel]]
    /\ delegation_spends \in [Users -> [Users -> [Channels -> DelegationSpend]]]
    /\ past_sent \in [Users -> [Users -> SUBSET Wide]]
    /\ past_burn \in [Users -> SUBSET Wide]
    /\ past_delegations \in [Users -> [Channels -> SUBSET DelegationChannel]]
    /\ past_spends \in [Users -> [Users -> [Channels -> SUBSET DelegationSpend]]]

-----------------------------------------------------------------------------
(* The state with each pair read as the number it stands for.              *)
Vals(S) == {Val(a) : a \in S}
NarrowChannel(ch) ==
    [spender |-> ch.spender, allocated_amount |-> Val(ch.allocated_amount),
     channel_version |-> ch.channel_version, status |-> ch.status]
NarrowSpend(ledger) ==
    [spent |-> Val(ledger.spent), closed |-> ledger.closed,
     channel_version |-> ledger.channel_version]
NarrowBatches(n, S) ==
    {[to |-> b.to, amount |-> [i \in 1..n |-> Val(b.amount[i])]] : b \in S}

Narrow == INSTANCE PsyToken WITH
    MaxFelt <- MaxWide,
    Amounts <- Vals(Amounts),
    Batches2 <- NarrowBatches(2, Batches2),
    Batches5 <- NarrowBatches(5, Batches5),
    balance <- [u \in Users |-> Val(balance[u])],
    max_supply <- Val(max_supply),
    total_minted <- Val(total_minted),
    total_supply <- Val(total_supply),
    burn_requested <- [u \in Users |-> Val(burn_requested[u])],
    burn_settled <- [u \in Users |-> Val(burn_settled[u])],
    amount_sent <- [u \in Users |-> [v \in Users |-> Val(amount_sent[u][v])]],
    amount_claimed <- [u \in Users |-> [v \in Users |-> Val(amount_claimed[u][v])]],
    delegations <- [o \in Users |-> [c \in Channels |-> NarrowChannel(delegations[o][c])]],
    delegation_spends <-
        [s \in Users |-> [o \in Users |-> [c \in Channels |->
            NarrowSpend(delegation_spends[s][o][c])]]],
    past_sent <- [u \in Users |-> [v \in Users |-> Vals(past_sent[u][v])]],
    past_burn <- [u \in Users |-> Vals(past_burn[u])],
    past_delegations <-
        [o \in Users |-> [c \in Channels |->
            {NarrowChannel(ch) : ch \in past_delegations[o][c]}]],
    past_spends <-
        [s \in Users |-> [o \in Users |-> [c \in Channels |->
            {NarrowSpend(ledger) : ledger \in past_spends[s][o][c]}]]]

(* REFINEMENT: read as numbers, every call of the wide contract is the same *)
(* call of PsyToken over a field of Base * Base elements.  A carry lost, a  *)
(* borrow not paid or a comparison of one limb only creates or destroys    *)
(* 2^62 units at a time.                                                   *)
ImplementsToken == Narrow!Spec

(* SAFETY: no false refusal.  Whatever the limbs, a holder can pay what its *)
(* balance is worth while the receiver's counter has room, can claim what  *)
(* was sent to it while its balance has room, and a burn the supply covers *)
(* can be settled.                                                         *)
NothingRefused ==
    \A u, v \in Users :
        /\ u # v =>
            /\ \A a \in Amounts :
                /\ a # Zero /\ Val(a) <= Val(balance[u])
                /\ Val(amount_sent[u][v]) + Val(a) <= MaxWide
                => CanTransfer(u, v, a)
            /\ Val(amount_claimed[v][u]) < Val(amount_sent[u][v])
               /\ Val(balance[v]) + Val(amount_sent[u][v]) - Val(amount_claimed[v][u]) <= MaxWide
               => \E sender_total \in past_sent[u][v] : CanClaim(v, u, sender_total)
        /\ Val(burn_settled[v]) < Val(burn_requested[v])
           /\ Val(burn_requested[v]) - Val(burn_settled[v]) <= Val(total_supply)
           => \E requested \in past_burn[v] : CanSettle(Issuer, v, requested)
=============================================================================
