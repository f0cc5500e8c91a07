------------------------------ MODULE WideToken ------------------------------
(***************************************************************************)
(* The wide profile of the PSY-20 contract (token/wide/src/main.psy.rs):   *)
(* the methods of PsyToken with every amount a pair of limbs.  As there, a *)
(* caller writes its own partition only and reads another one as of any    *)
(* past checkpoint (the past_* sets).                                      *)
(***************************************************************************)
EXTENDS U124Amount, Sequences

CONSTANTS
    Users,      \* user ids inside the 2^24 outbox bound
    Issuer,     \* ISSUER_USER_ID
    NoUser,     \* id 0
    Amounts,    \* amounts the calls are tried with
    Channels,   \* delegation slots (0..15 in the code)
    Symbols,    \* values of symbol, name and token_uri
    Decimals,   \* values set_metadata is tried with
    Batches2,   \* inputs of batch_transfer_2
    Batches5    \* inputs of batch_transfer_5

MaxDecimals == 18
Batch(n) == [to : [1..n -> Users \cup {NoUser}], amount : [1..n -> Wide]]

ASSUME UsersAssumption   == Issuer \in Users /\ NoUser \notin Users
ASSUME AmountsAssumption == Amounts \subseteq Wide /\ Decimals \subseteq Nat
ASSUME BatchesAssumption == Batches2 \subseteq Batch(2) /\ Batches5 \subseteq Batch(5)

ACTIVE == 1
REVOKE_PENDING == 2
CLOSED == 3

DelegationChannel == [spender : Users \cup {NoUser}, allocated_amount : Wide,
                      channel_version : Limb, status : {0, ACTIVE, REVOKE_PENDING, CLOSED}]
DelegationSpend == [spent : Wide, closed : {0, 1}, channel_version : Limb]

VARIABLES
    balance, mint_authority, is_mint_renounced, max_supply, metadata,
    total_minted, total_supply, burn_requested, burn_settled,
    amount_sent, amount_claimed,        \* other_user_info[u][v]
    delegations, delegation_spends,
    past_sent, past_burn, past_delegations, past_spends   \* values so far

adminVars  == <<mint_authority, is_mint_renounced, max_supply, metadata>>
supplyVars == <<total_minted, total_supply>>
burnVars   == <<burn_requested, burn_settled, past_burn>>
payVars    == <<amount_sent, amount_claimed, past_sent>>
delegVars  == <<delegations, delegation_spends, past_delegations, past_spends>>
vars == <<balance, adminVars, supplyVars, burnVars, payVars, delegVars>>

-----------------------------------------------------------------------------
NoChannel == [spender |-> NoUser, allocated_amount |-> Zero, channel_version |-> 0, status |-> 0]
NoSpend == [spent |-> Zero, closed |-> 0, channel_version |-> 0]

(* Every field of a fresh partition is zero.                               *)
Init ==
    /\ balance = [u \in Users |-> Zero]
    /\ mint_authority = NoUser /\ is_mint_renounced = 0 /\ max_supply = Zero
    /\ metadata = [symbol |-> NoUser, decimals |-> 0, extended |-> NoUser]
    /\ total_minted = Zero /\ total_supply = Zero
    /\ burn_requested = [u \in Users |-> Zero]
    /\ burn_settled = [u \in Users |-> Zero]
    /\ amount_sent = [u \in Users |-> [v \in Users |-> Zero]]
    /\ amount_claimed = [u \in Users |-> [v \in Users |-> Zero]]
    /\ delegations = [o \in Users |-> [c \in Channels |-> NoChannel]]
    /\ delegation_spends = [s \in Users |-> [o \in Users |-> [c \in Channels |-> NoSpend]]]
    /\ past_sent = [u \in Users |-> [v \in Users |-> {Zero}]]
    /\ past_burn = [u \in Users |-> {Zero}]
    /\ past_delegations = [o \in Users |-> [c \in Channels |-> {NoChannel}]]
    /\ past_spends = [s \in Users |-> [o \in Users |-> [c \in Channels |-> {NoSpend}]]]

(* The balance after paying a, which the caller must hold.                 *)
Holds(u, a) == Leq(a, balance[u])

Debit(u, a) ==
    /\ Holds(u, a)
    /\ balance' = [balance EXCEPT ![u] = Minus(@, a)]

(* The balance after receiving a, which must fit.                          *)
HasRoom(u, a) == Plus(balance[u], a) \in Wide

Deposit(u, a) ==
    /\ HasRoom(u, a)
    /\ balance' = [balance EXCEPT ![u] = Plus(@, a)]

(* The outbox after crediting r with a; a zero entry of a batch is skipped. *)
Credit(box, r, a) == IF a # Zero THEN [box EXCEPT ![r] = Plus(@, a)] ELSE box

(* A write of the outbox, every entry of which must fit.  A sum that        *)
(* overflowed stays too large, so one check stands for those of a loop.    *)
Fits(box) == \A v \in Users : box[v] \in Wide

WriteOutbox(u, box) ==
    /\ Fits(box)
    /\ amount_sent' = [amount_sent EXCEPT ![u] = box]
    /\ past_sent' = [past_sent EXCEPT ![u] = [v \in Users |-> @[v] \cup {box[v]}]]

Pay(u, recipient, a) == WriteOutbox(u, Credit(amount_sent[u], recipient, a))

WriteChannel(o, c, ch) ==
    /\ delegations' = [delegations EXCEPT ![o][c] = ch]
    /\ past_delegations' = [past_delegations EXCEPT ![o][c] = @ \cup {ch}]
    /\ UNCHANGED <<delegation_spends, past_spends>>

WriteLedger(s, o, c, ledger) ==
    /\ delegation_spends' = [delegation_spends EXCEPT ![s][o][c] = ledger]
    /\ past_spends' = [past_spends EXCEPT ![s][o][c] = @ \cup {ledger}]
    /\ UNCHANGED <<delegations, past_delegations>>

-----------------------------------------------------------------------------
(* Administration of the token: calls of the issuer partition.             *)

SetMetadata(u, symbol, decimals) ==
    /\ u = Issuer
    /\ is_mint_renounced = 0
    /\ decimals <= MaxDecimals
    /\ mint_authority \in {NoUser, u}
    /\ mint_authority' = u
    /\ metadata' = [metadata EXCEPT !.symbol = symbol, !.decimals = decimals]
    /\ UNCHANGED <<balance, is_mint_renounced, max_supply, supplyVars, burnVars, payVars, delegVars>>

SetExtendedMetadata(u, name) ==
    /\ u = Issuer
    /\ is_mint_renounced = 0
    /\ mint_authority = u
    /\ metadata' = [metadata EXCEPT !.extended = name]
    /\ UNCHANGED <<balance, mint_authority, is_mint_renounced, max_supply,
                   supplyVars, burnVars, payVars, delegVars>>

SetMaxSupply(u, cap) ==
    /\ u = Issuer
    /\ is_mint_renounced = 0
    /\ mint_authority = u
    /\ total_minted = Zero /\ max_supply = Zero
    /\ cap # Zero
    /\ max_supply' = cap
    /\ UNCHANGED <<balance, mint_authority, is_mint_renounced, metadata,
                   supplyVars, burnVars, payVars, delegVars>>

SetMintAuthority(u, new_authority) ==
    /\ u = Issuer
    /\ is_mint_renounced = 0
    /\ new_authority = u
    /\ mint_authority' = new_authority
    /\ UNCHANGED <<balance, is_mint_renounced, max_supply, metadata,
                   supplyVars, burnVars, payVars, delegVars>>

RenounceMintAuthority(u) ==
    /\ u = Issuer
    /\ mint_authority # NoUser
    /\ is_mint_renounced' = 1
    /\ mint_authority' = NoUser
    /\ UNCHANGED <<balance, max_supply, metadata, supplyVars, burnVars, payVars, delegVars>>

-----------------------------------------------------------------------------
(* Supply: issuance, and burning in two steps.                             *)

(* The total is compared with the cap after the addition.                  *)
Issue(u, amount) ==
    LET next_minted == Plus(total_minted, amount)
        next_supply == Plus(total_supply, amount)
    IN
    /\ u = Issuer
    /\ amount # Zero
    /\ is_mint_renounced = 0
    /\ mint_authority = u
    /\ next_minted \in Wide
    /\ max_supply = Zero \/ Leq(next_minted, max_supply)
    /\ next_supply \in Wide
    /\ total_minted' = next_minted
    /\ total_supply' = next_supply

Mint(u, amount) ==
    /\ Issue(u, amount)
    /\ Deposit(u, amount)
    /\ UNCHANGED <<adminVars, burnVars, payVars, delegVars>>

MintTo(u, recipient, amount) ==
    /\ recipient \in Users \ {u}
    /\ Issue(u, amount)
    /\ Pay(u, recipient, amount)
    /\ UNCHANGED <<balance, adminVars, burnVars, amount_claimed, delegVars>>

Burn(u, amount) ==
    LET next_requested == Plus(burn_requested[u], amount) IN
    /\ amount # Zero
    /\ Debit(u, amount)
    /\ next_requested \in Wide
    /\ burn_requested' = [burn_requested EXCEPT ![u] = next_requested]
    /\ past_burn' = [past_burn EXCEPT ![u] = @ \cup {next_requested}]
    /\ UNCHANGED <<burn_settled, adminVars, supplyVars, payVars, delegVars>>

CanSettle(u, sender, requested) ==
    /\ u = Issuer
    /\ Less(burn_settled[sender], requested)
    /\ Leq(Minus(requested, burn_settled[sender]), total_supply)

SettleBurn(u, sender) ==
    /\ \E requested \in past_burn[sender] :
        /\ CanSettle(u, sender, requested)
        /\ burn_settled' = [burn_settled EXCEPT ![sender] = requested]
        /\ total_supply' = Minus(total_supply, Minus(requested, burn_settled[sender]))
    /\ UNCHANGED <<balance, burn_requested, past_burn, total_minted, adminVars, payVars, delegVars>>

-----------------------------------------------------------------------------
(* Payments: the sender's outbox, the receiver's inbox, and refunds.       *)

CanTransfer(u, recipient, amount) ==
    /\ recipient \in Users \ {u}
    /\ amount # Zero
    /\ Holds(u, amount)
    /\ Fits(Credit(amount_sent[u], recipient, amount))

Transfer(u, recipient, amount) ==
    /\ CanTransfer(u, recipient, amount)
    /\ Debit(u, amount)
    /\ Pay(u, recipient, amount)
    /\ UNCHANGED <<amount_claimed, adminVars, supplyVars, burnVars, delegVars>>

CanClaim(u, sender, sender_total) ==
    /\ sender \in Users \ {u}
    /\ Less(amount_claimed[u][sender], sender_total)
    /\ HasRoom(u, Minus(sender_total, amount_claimed[u][sender]))

Claim(u, sender) ==
    /\ \E sender_total \in past_sent[sender][u] :
        /\ CanClaim(u, sender, sender_total)
        /\ Deposit(u, Minus(sender_total, amount_claimed[u][sender]))
        /\ amount_claimed' = [amount_claimed EXCEPT ![u][sender] = sender_total]
    /\ UNCHANGED <<amount_sent, past_sent, adminVars, supplyVars, burnVars, delegVars>>

CancelUnclaimedPayment(u, sender) ==
    /\ sender \in Users \ {u}
    /\ \E sender_total \in past_sent[sender][u] :
        /\ Less(amount_claimed[u][sender], sender_total)
        /\ Pay(u, sender, Minus(sender_total, amount_claimed[u][sender]))
        /\ amount_claimed' = [amount_claimed EXCEPT ![u][sender] = sender_total]
    /\ UNCHANGED <<balance, adminVars, supplyVars, burnVars, delegVars>>

RefundClaimedPayment(u, sender, amount) ==
    /\ sender \in Users \ {u}
    /\ amount # Zero
    /\ Leq(amount_sent[u][sender], amount_claimed[u][sender])
    /\ Leq(amount, Minus(amount_claimed[u][sender], amount_sent[u][sender]))
    /\ Debit(u, amount)
    /\ Pay(u, sender, amount)
    /\ UNCHANGED <<amount_claimed, adminVars, supplyVars, burnVars, delegVars>>

(* Both batches; batch_transfer_2 is the batch of five whose last three    *)
(* entries are zero.                                                       *)
BatchTotal(a) == Plus(Plus(Plus(Plus(a[1], a[2]), a[3]), a[4]), a[5])

BatchOutbox(box, r, a) ==
    Credit(Credit(Credit(Credit(Credit(box, r[1], a[1]), r[2], a[2]),
                         r[3], a[3]), r[4], a[4]), r[5], a[5])

BatchTransfer(u, recipients, amounts) ==
    /\ BatchTotal(amounts) \in Wide
    /\ Debit(u, BatchTotal(amounts))
    /\ \A i \in 1..5 : amounts[i] # Zero => recipients[i] \in Users \ {u}
    /\ WriteOutbox(u, BatchOutbox(amount_sent[u], recipients, amounts))
    /\ UNCHANGED <<amount_claimed, adminVars, supplyVars, burnVars, delegVars>>

BatchTransfer2(u, b) ==
    BatchTransfer(u, <<b.to[1], b.to[2], NoUser, NoUser, NoUser>>,
                     <<b.amount[1], b.amount[2], Zero, Zero, Zero>>)

BatchTransfer5(u, b) == BatchTransfer(u, b.to, b.amount)

-----------------------------------------------------------------------------
(* Delegation: slots of the owner, ledgers of the spender.                 *)

(* channel_version <= 2^62 - 2 keeps the next version in one limb.         *)
OpenDelegationChannel(u, c, spender, amount) ==
    LET ch == delegations[u][c] IN
    /\ spender \in Users \ {u}
    /\ amount # Zero
    /\ Debit(u, amount)
    /\ ch.status \in {0, CLOSED}
    /\ ch.channel_version <= Base - 2
    /\ WriteChannel(u, c, [spender |-> spender, allocated_amount |-> amount,
                           channel_version |-> ch.channel_version + 1, status |-> ACTIVE])
    /\ UNCHANGED <<adminVars, supplyVars, burnVars, payVars>>

(* The ledger's limbs are multiplied by the flag `same_version`.           *)
LedgerFor(ledger, version) ==
    IF ledger.channel_version = version THEN ledger.spent ELSE Zero

LedgerAdmits(ledger, version) ==
    /\ ledger.channel_version <= version
    /\ IF ledger.channel_version = version
       THEN ledger.closed = 0
       ELSE ledger.channel_version = 0 \/ ledger.closed = 1

SpendDelegation(u, owner, c, amount, recipient) ==
    /\ recipient \in Users \ {u}
    /\ amount # Zero
    /\ \E ch \in past_delegations[owner][c] :
        LET ledger == delegation_spends[u][owner][c]
            next_spent == Plus(LedgerFor(ledger, ch.channel_version), amount)
        IN
        /\ ch.spender = u
        /\ ch.status = ACTIVE
        /\ LedgerAdmits(ledger, ch.channel_version)
        /\ next_spent \in Wide
        /\ Leq(next_spent, ch.allocated_amount)
        /\ WriteLedger(u, owner, c, [spent |-> next_spent, closed |-> 0,
                                     channel_version |-> ch.channel_version])
    /\ Pay(u, recipient, amount)
    /\ UNCHANGED <<balance, amount_claimed, adminVars, supplyVars, burnVars>>

RequestRevokeDelegation(u, c) ==
    /\ delegations[u][c].status = ACTIVE
    /\ WriteChannel(u, c, [delegations[u][c] EXCEPT !.status = REVOKE_PENDING])
    /\ UNCHANGED <<balance, adminVars, supplyVars, burnVars, payVars>>

CloseDelegationChannel(u, owner, c) ==
    /\ owner # u
    /\ \E ch \in past_delegations[owner][c] :
        LET ledger == delegation_spends[u][owner][c] IN
        /\ ch.channel_version # 0
        /\ ch.spender = u
        /\ ch.status \in {ACTIVE, REVOKE_PENDING}
        /\ LedgerAdmits(ledger, ch.channel_version)
        /\ WriteLedger(u, owner, c, [spent |-> LedgerFor(ledger, ch.channel_version),
                                     closed |-> 1, channel_version |-> ch.channel_version])
    /\ UNCHANGED <<balance, adminVars, supplyVars, burnVars, payVars>>

FinalizeRevokeDelegation(u, c, spender) ==
    LET ch == delegations[u][c] IN
    /\ ch.status = REVOKE_PENDING
    /\ ch.spender = spender
    /\ \E ledger \in past_spends[spender][u][c] :
        /\ ledger.channel_version = ch.channel_version
        /\ ledger.closed = 1
        /\ Leq(ledger.spent, ch.allocated_amount)
        /\ Deposit(u, Minus(ch.allocated_amount, ledger.spent))
    /\ WriteChannel(u, c, [spender |-> NoUser, allocated_amount |-> Zero,
                           channel_version |-> ch.channel_version, status |-> CLOSED])
    /\ UNCHANGED <<adminVars, supplyVars, burnVars, payVars>>

-----------------------------------------------------------------------------
Admin(u) ==
    \/ \E s \in Symbols, d \in Decimals : SetMetadata(u, s, d)
    \/ \E s \in Symbols : SetExtendedMetadata(u, s)
    \/ \E cap \in Amounts : SetMaxSupply(u, cap)
    \/ \E v \in Users : SetMintAuthority(u, v)
    \/ RenounceMintAuthority(u)

Supply(u) ==
    \/ \E a \in Amounts : Mint(u, a)
    \/ \E v \in Users, a \in Amounts : MintTo(u, v, a)
    \/ \E a \in Amounts : Burn(u, a)
    \/ \E v \in Users : SettleBurn(u, v)

Payment(u) ==
    \/ \E v \in Users, a \in Amounts : Transfer(u, v, a)
    \/ \E v \in Users : Claim(u, v)
    \/ \E v \in Users : CancelUnclaimedPayment(u, v)
    \/ \E v \in Users, a \in Amounts : RefundClaimedPayment(u, v, a)
    \/ \E b \in Batches2 : BatchTransfer2(u, b)
    \/ \E b \in Batches5 : BatchTransfer5(u, b)

Delegation(u) ==
    \E c \in Channels, v \in Users :
        \/ \E a \in Amounts : OpenDelegationChannel(u, c, v, a)
        \/ \E a \in Amounts, r \in Users : SpendDelegation(u, v, c, a, r)
        \/ RequestRevokeDelegation(u, c)
        \/ CloseDelegationChannel(u, v, c)
        \/ FinalizeRevokeDelegation(u, c, v)

Next == \E u \in Users : Admin(u) \/ Supply(u) \/ Payment(u) \/ Delegation(u)

Spec == Init /\ [][Next]_vars
=============================================================================
