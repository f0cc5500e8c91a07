------------------------------ MODULE PsyToken ------------------------------
(***************************************************************************)
(* The PSY-20 token contract (token/src/main.psy.rs).                      *)
(*                                                                         *)
(* State is partitioned by user: a call executed by u writes only u's own  *)
(* partition, whose input leaf the node checks against the current state.  *)
(* Another user's partition is read through a proof anchored at some past  *)
(* checkpoint, so a remote read returns ANY value the field has had.       *)
(* Every method reads at most one remote user and one entry of it, so it   *)
(* is exact to keep, for each remotely read entry, the set of its values   *)
(* so far (the past_* variables).                                          *)
(*                                                                         *)
(* Users are the ids the guards `id != 0 && id < 16777216` accept; NoUser  *)
(* is id 0.  ISSUER_USER_ID is Issuer.  The administrative fields of the   *)
(* contract are written by Issuer's calls only, so they are scalars here.  *)
(*                                                                         *)
(* A definition whose comment starts with "Faulty" is the next one with a  *)
(* plausible mistake.  Nothing uses it; it shows that a property notices.  *)
(***************************************************************************)
EXTENDS Integers, Sequences, FiniteSets

CONSTANTS
    Users,      \* user ids inside the 2^24 outbox bound
    Issuer,     \* ISSUER_USER_ID
    NoUser,     \* id 0
    MaxFelt,    \* p - 1, the largest field element (small in TLC)
    Amounts,    \* amounts the calls are tried with
    Channels,   \* delegation slots (0..15 in the code)
    Symbols,    \* values of symbol, name and token_uri
    Decimals,   \* values set_metadata is tried with
    Batches2,   \* inputs of batch_transfer_2: records of two pairs of entries
    Batches5    \* inputs of batch_transfer_5

Felt == 0..MaxFelt
MaxDecimals == 18

(* One call of a batch transfer: the recipient and amount arrays.          *)
Batch(n) == [to : [1..n -> Users \cup {NoUser}], amount : [1..n -> Felt]]

ASSUME UsersAssumption    == Issuer \in Users /\ NoUser \notin Users
ASSUME FiniteAssumption   == IsFiniteSet(Users) /\ IsFiniteSet(Channels)
ASSUME MaxFeltAssumption  == MaxFelt \in Nat \ {0}
ASSUME AmountsAssumption  == Amounts \subseteq Felt /\ Decimals \subseteq Nat
ASSUME BatchesAssumption  == Batches2 \subseteq Batch(2) /\ Batches5 \subseteq Batch(5)

ACTIVE == 1
REVOKE_PENDING == 2
CLOSED == 3

DelegationChannel == [spender : Users \cup {NoUser}, allocated_amount : Felt,
                      channel_version : Felt, status : {0, ACTIVE, REVOKE_PENDING, CLOSED}]
DelegationSpend == [spent : Felt, closed : {0, 1}, channel_version : Felt]
Metadata == [symbol : Symbols \cup {NoUser}, decimals : 0..MaxDecimals,
             extended : Symbols \cup {NoUser}]

VARIABLES
    balance,            \* balance[u]
    mint_authority, is_mint_renounced, max_supply, metadata,   \* of Issuer
    total_minted, total_supply,                                \* of Issuer
    burn_requested,     \* burn_requested[u]
    burn_settled,       \* burn_settled[u], kept by Issuer
    amount_sent,        \* amount_sent[u][v]: lifetime total u sent to v
    amount_claimed,     \* amount_claimed[v][u]: lifetime total v claimed from u
    delegations,        \* delegations[o][c]: escrow slot c of owner o
    delegation_spends,  \* delegation_spends[s][o][c]: s's ledger for that slot
    past_sent, past_burn, past_delegations, past_spends   \* values so far

adminVars  == <<mint_authority, is_mint_renounced, max_supply, metadata>>
supplyVars == <<total_minted, total_supply>>
burnVars   == <<burn_requested, burn_settled, past_burn>>
payVars    == <<amount_sent, amount_claimed, past_sent>>
delegVars  == <<delegations, delegation_spends, past_delegations, past_spends>>
vars == <<balance, adminVars, supplyVars, burnVars, payVars, delegVars>>

-----------------------------------------------------------------------------
NoChannel == [spender |-> NoUser, allocated_amount |-> 0, channel_version |-> 0, status |-> 0]
NoSpend == [spent |-> 0, closed |-> 0, channel_version |-> 0]

(* Every field of a fresh partition is zero.                               *)
Init ==
    /\ balance = [u \in Users |-> 0]
    /\ mint_authority = NoUser /\ is_mint_renounced = 0 /\ max_supply = 0
    /\ metadata = [symbol |-> NoUser, decimals |-> 0, extended |-> NoUser]
    /\ total_minted = 0 /\ total_supply = 0
    /\ burn_requested = [u \in Users |-> 0]
    /\ burn_settled = [u \in Users |-> 0]
    /\ amount_sent = [u \in Users |-> [v \in Users |-> 0]]
    /\ amount_claimed = [u \in Users |-> [v \in Users |-> 0]]
    /\ delegations = [o \in Users |-> [c \in Channels |-> NoChannel]]
    /\ delegation_spends = [s \in Users |-> [o \in Users |-> [c \in Channels |-> NoSpend]]]
    /\ past_sent = [u \in Users |-> [v \in Users |-> {0}]]
    /\ past_burn = [u \in Users |-> {0}]
    /\ past_delegations = [o \in Users |-> [c \in Channels |-> {NoChannel}]]
    /\ past_spends = [s \in Users |-> [o \in Users |-> [c \in Channels |-> {NoSpend}]]]

(* Field subtraction: it wraps when the guard before it is missing.        *)
FSub(a, b) == IF b <= a THEN a - b ELSE MaxFelt + 1 - (b - a)

(* Writes of the remotely readable entries of a partition: the new value   *)
(* is one that later proofs may be anchored to.                            *)
WriteOutbox(u, box) ==
    /\ amount_sent' = [amount_sent EXCEPT ![u] = box]
    /\ past_sent' = [past_sent EXCEPT ![u] = [v \in Users |-> @[v] \cup {box[v]}]]

WriteBurnRequest(u, total) ==
    /\ burn_requested' = [burn_requested EXCEPT ![u] = total]
    /\ past_burn' = [past_burn EXCEPT ![u] = @ \cup {total}]

WriteChannel(o, c, ch) ==
    /\ delegations' = [delegations EXCEPT ![o][c] = ch]
    /\ past_delegations' = [past_delegations EXCEPT ![o][c] = @ \cup {ch}]
    /\ UNCHANGED <<delegation_spends, past_spends>>

WriteLedger(s, o, c, ledger) ==
    /\ delegation_spends' = [delegation_spends EXCEPT ![s][o][c] = ledger]
    /\ past_spends' = [past_spends EXCEPT ![s][o][c] = @ \cup {ledger}]
    /\ UNCHANGED <<delegations, past_delegations>>

(* The outbox after crediting r with a; a zero entry of a batch is skipped. *)
Credit(box, r, a) == IF a > 0 THEN [box EXCEPT ![r] = @ + a] ELSE box

-----------------------------------------------------------------------------
(* Administration of the token: calls of the issuer partition.             *)

SetMetadata(u, symbol, decimals) ==
    /\ u = Issuer
    /\ is_mint_renounced = 0
    /\ decimals <= MaxDecimals
    /\ mint_authority \in {NoUser, u}
    /\ mint_authority' = u
    /\ metadata' = [metadata EXCEPT !.symbol = symbol, !.decimals = decimals]
    /\ UNCHANGED <<balance, is_mint_renounced, max_supply, supplyVars, burnVars, payVars, delegVars>>

SetExtendedMetadata(u, name) ==
    /\ u = Issuer
    /\ is_mint_renounced = 0
    /\ mint_authority = u
    /\ metadata' = [metadata EXCEPT !.extended = name]
    /\ UNCHANGED <<balance, mint_authority, is_mint_renounced, max_supply,
                   supplyVars, burnVars, payVars, delegVars>>

SetMaxSupply(u, cap) ==
    /\ u = Issuer
    /\ is_mint_renounced = 0
    /\ mint_authority = u
    /\ total_minted = 0 /\ max_supply = 0
    /\ cap > 0
    /\ max_supply' = cap
    /\ UNCHANGED <<balance, mint_authority, is_mint_renounced, metadata,
                   supplyVars, burnVars, payVars, delegVars>>

SetMintAuthority(u, new_authority) ==
    /\ u = Issuer
    /\ is_mint_renounced = 0
    /\ new_authority = u
    /\ mint_authority' = new_authority
    /\ UNCHANGED <<balance, is_mint_renounced, max_supply, metadata,
                   supplyVars, burnVars, payVars, delegVars>>

RenounceMintAuthority(u) ==
    /\ u = Issuer
    /\ mint_authority # NoUser
    /\ is_mint_renounced' = 1
    /\ mint_authority' = NoUser
    /\ UNCHANGED <<balance, max_supply, metadata, supplyVars, burnVars, payVars, delegVars>>

-----------------------------------------------------------------------------
(* Supply: issuance into the issuer's balance or outbox, and burning in    *)
(* two steps, the second one by the issuer from a remote read.             *)

(* Faulty: the cap bounds each issuance, not their total.                  *)
EachUnderCap(amount) == max_supply = 0 \/ amount <= max_supply

UnderCap(amount) == max_supply = 0 \/ amount <= FSub(max_supply, total_minted)

(* The guards on issuance that mint and mint_to share.                     *)
CanIssue(u, amount) ==
    /\ u = Issuer
    /\ amount > 0
    /\ is_mint_renounced = 0
    /\ mint_authority = u
    /\ amount <= MaxFelt - total_minted
    /\ UnderCap(amount)
    /\ amount <= MaxFelt - total_supply

Issue(amount) ==
    /\ total_minted' = total_minted + amount
    /\ total_supply' = total_supply + amount

Mint(u, amount) ==
    /\ CanIssue(u, amount)
    /\ amount <= MaxFelt - balance[u]
    /\ balance' = [balance EXCEPT ![u] = @ + amount]
    /\ Issue(amount)
    /\ UNCHANGED <<adminVars, burnVars, payVars, delegVars>>

MintTo(u, recipient, amount) ==
    /\ CanIssue(u, amount)
    /\ recipient \in Users \ {u}
    /\ amount <= MaxFelt - amount_sent[u][recipient]
    /\ WriteOutbox(u, Credit(amount_sent[u], recipient, amount))
    /\ Issue(amount)
    /\ UNCHANGED <<balance, adminVars, burnVars, amount_claimed, delegVars>>

Burn(u, amount) ==
    /\ amount > 0
    /\ balance[u] >= amount
    /\ amount <= MaxFelt - burn_requested[u]
    /\ balance' = [balance EXCEPT ![u] = @ - amount]
    /\ WriteBurnRequest(u, burn_requested[u] + amount)
    /\ UNCHANGED <<burn_settled, adminVars, supplyVars, payVars, delegVars>>

(* requested is the holder's cumulative counter at some checkpoint.        *)
CanSettle(u, sender, requested) ==
    /\ u = Issuer
    /\ requested > burn_settled[sender]
    /\ total_supply >= requested - burn_settled[sender]

SettleBurn(u, sender) ==
    /\ \E requested \in past_burn[sender] :
        /\ CanSettle(u, sender, requested)
        /\ burn_settled' = [burn_settled EXCEPT ![sender] = requested]
        /\ total_supply' = total_supply - (requested - burn_settled[sender])
    /\ UNCHANGED <<balance, burn_requested, past_burn, total_minted, adminVars, payVars, delegVars>>

-----------------------------------------------------------------------------
(* Payments: the sender's outbox, the receiver's inbox, and refunds.       *)

Transfer(u, recipient, amount) ==
    /\ recipient \in Users \ {u}
    /\ amount > 0
    /\ balance[u] >= amount
    /\ amount <= MaxFelt - amount_sent[u][recipient]
    /\ WriteOutbox(u, Credit(amount_sent[u], recipient, amount))
    /\ balance' = [balance EXCEPT ![u] = @ - amount]
    /\ UNCHANGED <<amount_claimed, adminVars, supplyVars, burnVars, delegVars>>

(* sender_total is the sender's cumulative counter at some checkpoint.     *)
(* Faulty: any counter that differs from the claimed one is taken as news.  *)
Differs(sender_total, already_claimed) == sender_total # already_claimed

IsNews(sender_total, already_claimed) == sender_total > already_claimed

(* The new amount_claimed: the counter the claim has caught up with.       *)
ClaimedNow(sender_total, already_claimed) == sender_total

CanClaim(u, sender, sender_total) ==
    /\ sender \in Users \ {u}
    /\ IsNews(sender_total, amount_claimed[u][sender])
    /\ sender_total - amount_claimed[u][sender] <= MaxFelt - balance[u]

Claim(u, sender) ==
    /\ \E sender_total \in past_sent[sender][u] :
        /\ CanClaim(u, sender, sender_total)
        /\ amount_claimed' = [amount_claimed EXCEPT ![u][sender] = ClaimedNow(sender_total, @)]
        /\ balance' = [balance EXCEPT ![u] = @ + (sender_total - amount_claimed[u][sender])]
    /\ UNCHANGED <<amount_sent, past_sent, adminVars, supplyVars, burnVars, delegVars>>

(* Faulty: the payment is returned but not marked as claimed.               *)
CancelForgotten(u, sender) ==
    /\ sender \in Users \ {u}
    /\ \E sender_total \in past_sent[sender][u] :
        LET amount == sender_total - amount_claimed[u][sender] IN
        /\ sender_total > amount_claimed[u][sender]
        /\ amount <= MaxFelt - amount_sent[u][sender]
        /\ WriteOutbox(u, Credit(amount_sent[u], sender, amount))
    /\ UNCHANGED <<balance, amount_claimed, adminVars, supplyVars, burnVars, delegVars>>

CancelUnclaimedPayment(u, sender) ==
    /\ sender \in Users \ {u}
    /\ \E sender_total \in past_sent[sender][u] :
        LET amount == sender_total - amount_claimed[u][sender] IN
        /\ sender_total > amount_claimed[u][sender]
        /\ amount <= MaxFelt - amount_sent[u][sender]
        /\ amount_claimed' = [amount_claimed EXCEPT ![u][sender] = sender_total]
        /\ WriteOutbox(u, Credit(amount_sent[u], sender, amount))
    /\ UNCHANGED <<balance, adminVars, supplyVars, burnVars, delegVars>>

RefundClaimedPayment(u, sender, amount) ==
    /\ sender \in Users \ {u}
    /\ amount > 0
    /\ amount_claimed[u][sender] >= amount_sent[u][sender]
    /\ amount <= amount_claimed[u][sender] - amount_sent[u][sender]
    /\ balance[u] >= amount
    /\ WriteOutbox(u, Credit(amount_sent[u], sender, amount))
    /\ balance' = [balance EXCEPT ![u] = @ - amount]
    /\ UNCHANGED <<amount_claimed, adminVars, supplyVars, burnVars, delegVars>>

(* The five entries of a batch; batch_transfer_2 is the batch of five whose *)
(* last three entries are zero, which the loop skips.                       *)
BatchTotal(a) == a[1] + a[2] + a[3] + a[4] + a[5]

BatchOutbox(box, r, a) ==
    Credit(Credit(Credit(Credit(Credit(box, r[1], a[1]), r[2], a[2]),
                         r[3], a[3]), r[4], a[4]), r[5], a[5])

BatchTransfer(u, recipients, amounts) ==
    /\ BatchTotal(amounts) <= MaxFelt
    /\ balance[u] >= BatchTotal(amounts)
    /\ \A i \in 1..5 : amounts[i] > 0 => recipients[i] \in Users \ {u}
    /\ LET box == BatchOutbox(amount_sent[u], recipients, amounts) IN
        /\ \A v \in Users : box[v] <= MaxFelt
        /\ WriteOutbox(u, box)
    /\ balance' = [balance EXCEPT ![u] = @ - BatchTotal(amounts)]
    /\ UNCHANGED <<amount_claimed, adminVars, supplyVars, burnVars, delegVars>>

BatchTransfer2(u, b) ==
    BatchTransfer(u, <<b.to[1], b.to[2], NoUser, NoUser, NoUser>>,
                     <<b.amount[1], b.amount[2], 0, 0, 0>>)

BatchTransfer5(u, b) == BatchTransfer(u, b.to, b.amount)

-----------------------------------------------------------------------------
(* Delegation: an owner escrows an allocation, a spender pays out of it    *)
(* against a (possibly old) proof of the owner's slot and keeps its own    *)
(* ledger; the owner is refunded against the spender's closed ledger.      *)

(* Faulty: a reopened slot starts its versions over.                       *)
FirstVersion(ch) == 1

NextVersion(ch) == ch.channel_version + 1

OpenDelegationChannel(u, c, spender, amount) ==
    LET ch == delegations[u][c] IN
    /\ spender \in Users \ {u}
    /\ amount > 0
    /\ balance[u] >= amount
    /\ ch.status \in {0, CLOSED}
    /\ ch.channel_version < MaxFelt
    /\ balance' = [balance EXCEPT ![u] = @ - amount]
    /\ WriteChannel(u, c, [spender |-> spender, allocated_amount |-> amount,
                           channel_version |-> NextVersion(ch), status |-> ACTIVE])
    /\ UNCHANGED <<adminVars, supplyVars, burnVars, payVars>>

(* What the ledger has spent of this version; a new version starts at zero *)
(* once the prior one is closed, and an older version is refused.          *)
LedgerFor(ledger, version) == IF ledger.channel_version = version THEN ledger.spent ELSE 0

(* Faulty: any version is admitted once the last one is closed.             *)
AdmitsOldVersion(ledger, version) ==
    IF ledger.channel_version = version
    THEN ledger.closed = 0
    ELSE ledger.channel_version = 0 \/ ledger.closed = 1

(* Faulty: a slot can be used by one spender for one version only.          *)
AdmitsFirstVersion(ledger, version) ==
    /\ ledger.channel_version \in {0, version}
    /\ ledger.closed = 0

LedgerAdmits(ledger, version) ==
    /\ ledger.channel_version <= version
    /\ IF ledger.channel_version = version
       THEN ledger.closed = 0
       ELSE ledger.channel_version = 0 \/ ledger.closed = 1

(* Faulty: each payout is bounded by the allocation, not their total.       *)
EachAllowed(ch, spent, amount) == amount <= ch.allocated_amount

Allowed(ch, spent, amount) ==
    spent <= ch.allocated_amount /\ amount <= ch.allocated_amount - spent

SpendDelegation(u, owner, c, amount, recipient) ==
    /\ recipient \in Users \ {u}
    /\ amount > 0
    /\ \E ch \in past_delegations[owner][c] :
        LET ledger == delegation_spends[u][owner][c]
            spent == LedgerFor(ledger, ch.channel_version)
        IN
        /\ ch.spender = u
        /\ ch.status = ACTIVE
        /\ LedgerAdmits(ledger, ch.channel_version)
        /\ Allowed(ch, spent, amount)
        /\ amount <= MaxFelt - amount_sent[u][recipient]
        /\ WriteLedger(u, owner, c, [spent |-> spent + amount, closed |-> 0,
                                     channel_version |-> ch.channel_version])
    /\ WriteOutbox(u, Credit(amount_sent[u], recipient, amount))
    /\ UNCHANGED <<balance, amount_claimed, adminVars, supplyVars, burnVars>>

RequestRevokeDelegation(u, c) ==
    /\ delegations[u][c].status = ACTIVE
    /\ WriteChannel(u, c, [delegations[u][c] EXCEPT !.status = REVOKE_PENDING])
    /\ UNCHANGED <<balance, adminVars, supplyVars, burnVars, payVars>>

(* ch is the owner's slot at some checkpoint.                              *)
CanClose(u, owner, c, ch) ==
    /\ owner # u
    /\ ch.channel_version > 0
    /\ ch.spender = u
    /\ ch.status \in {ACTIVE, REVOKE_PENDING}
    /\ LedgerAdmits(delegation_spends[u][owner][c], ch.channel_version)

CloseDelegationChannel(u, owner, c) ==
    /\ \E ch \in past_delegations[owner][c] :
        LET ledger == delegation_spends[u][owner][c] IN
        /\ CanClose(u, owner, c, ch)
        /\ WriteLedger(u, owner, c, [spent |-> LedgerFor(ledger, ch.channel_version),
                                     closed |-> 1, channel_version |-> ch.channel_version])
    /\ UNCHANGED <<balance, adminVars, supplyVars, burnVars, payVars>>

(* Faulty: the refund does not wait for the spender's close.               *)
MatchesVersion(ledger, ch) == ledger.channel_version = ch.channel_version

(* The spender's ledger (as read) is closed for the slot's version.        *)
IsSettled(ledger, ch) ==
    ledger.channel_version = ch.channel_version /\ ledger.closed = 1

CanFinalize(u, c, spender, ledger) ==
    LET ch == delegations[u][c] IN
    /\ ch.status = REVOKE_PENDING
    /\ ch.spender = spender
    /\ IsSettled(ledger, ch)
    /\ ledger.spent <= ch.allocated_amount
    /\ ch.allocated_amount - ledger.spent <= MaxFelt - balance[u]

FinalizeRevokeDelegation(u, c, spender) ==
    LET ch == delegations[u][c] IN
    /\ \E ledger \in past_spends[spender][u][c] :
        /\ CanFinalize(u, c, spender, ledger)
        /\ balance' = [balance EXCEPT ![u] = @ + (ch.allocated_amount - ledger.spent)]
    /\ WriteChannel(u, c, [spender |-> NoUser, allocated_amount |-> 0,
                           channel_version |-> ch.channel_version, status |-> CLOSED])
    /\ UNCHANGED <<adminVars, supplyVars, burnVars, payVars>>

-----------------------------------------------------------------------------
Admin(u) ==
    \/ \E s \in Symbols, d \in Decimals : SetMetadata(u, s, d)
    \/ \E s \in Symbols : SetExtendedMetadata(u, s)
    \/ \E cap \in Amounts : SetMaxSupply(u, cap)
    \/ \E v \in Users : SetMintAuthority(u, v)
    \/ RenounceMintAuthority(u)

Supply(u) ==
    \/ \E a \in Amounts : Mint(u, a)
    \/ \E v \in Users, a \in Amounts : MintTo(u, v, a)
    \/ \E a \in Amounts : Burn(u, a)
    \/ \E v \in Users : SettleBurn(u, v)

Payment(u) ==
    \/ \E v \in Users, a \in Amounts : Transfer(u, v, a)
    \/ \E v \in Users : Claim(u, v)
    \/ \E v \in Users : CancelUnclaimedPayment(u, v)
    \/ \E v \in Users, a \in Amounts : RefundClaimedPayment(u, v, a)
    \/ \E b \in Batches2 : BatchTransfer2(u, b)
    \/ \E b \in Batches5 : BatchTransfer5(u, b)

Delegation(u) ==
    \E c \in Channels, v \in Users :
        \/ \E a \in Amounts : OpenDelegationChannel(u, c, v, a)
        \/ \E a \in Amounts, r \in Users : SpendDelegation(u, v, c, a, r)
        \/ RequestRevokeDelegation(u, c)
        \/ CloseDelegationChannel(u, v, c)
        \/ FinalizeRevokeDelegation(u, c, v)

Next == \E u \in Users : Admin(u) \/ Supply(u) \/ Payment(u) \/ Delegation(u)

Spec == Init /\ [][Next]_vars
=============================================================================
