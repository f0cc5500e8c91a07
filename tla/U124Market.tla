---------------------------- MODULE U124Market ------------------------------
(***************************************************************************)
(* What the U124 markets (amm/u124, bondingcurve/u124, orderbook/u124)     *)
(* have in common: one vault whose transactions are the complete stacks of *)
(* its policy, payers with one order slot each, and payments the market's  *)
(* guards recognise by the exact difference of two lifetime totals.  The   *)
(* guards and cursors are written out in every method of the generated     *)
(* contracts; here each is one operator, mapped to the first method that   *)
(* contains it.                                                            *)
(*                                                                         *)
(* As in Orderbook, a transaction is proved on one checkpoint: views holds *)
(* what the vault's proofs may read of the payers, seen[p] what a proof of *)
(* p may read of the vault.  Amounts are natural numbers up to MaxAmount   *)
(* (2^124 - 1); that pairs of limbs represent them is the matter of        *)
(* U124Amount and WideToken.  A token's supply is at most MaxAmount, so    *)
(* its balances do not overflow.                                           *)
(*                                                                         *)
(* A definition whose comment starts with "Faulty" is the next one with a  *)
(* plausible mistake.  Nothing uses it; it shows that a property notices.  *)
(***************************************************************************)
EXTENDS Integers

CONSTANTS
    Payers,         \* users other than the vault
    Careless,       \* the payers that also call outside the clients' stacks
    MaxAmount,      \* largest U124 value
    FeeEscrow,      \* PSY a payer adds for the fee of its settlement
    Fees,           \* what the network may burn
    Payments,       \* bound: the payments careless payers make
    MaxSent,        \* bound: the lifetime totals these reach
    MaxCheckpoint   \* bound: checkpoints

Coins == {"fee", "a", "b"}
Purses == [Coins -> Nat]

ASSUME MarketAssumption ==
    /\ Careless \subseteq Payers
    /\ MaxAmount \in Nat \ {0} /\ MaxSent \in Nat /\ MaxCheckpoint \in Nat
    /\ FeeEscrow \in Nat \ {0} /\ Fees \subseteq 0..FeeEscrow
    /\ Payments \subseteq Purses

VARIABLES
    checkpoint,     \* the latest checkpoint
    order,          \* order[p]: the slot in p's partition
    sent,           \* sent[p][c]: lifetime total p sent the vault
    claimed,        \* claimed[p][c]: lifetime total the vault claimed
    paid,           \* paid[p][c]: lifetime total the vault sent p
    vault,          \* vault[c]: what the vault holds
    consumed,       \* consumed[p]: the last nonce settled
    settled,        \* settled[p][c]: settled_fee, settled_a, settled_b
    views,          \* what a proof of the vault may read of the payers
    seen            \* seen[p]: what a proof of p may read of the vault

payerVars == <<order, sent>>
vaultVars == <<claimed, paid, vault, consumed, settled>>
marketVars == <<checkpoint, payerVars, vaultVars, views, seen>>

-----------------------------------------------------------------------------
Purse(fee, a, b) == [c \in Coins |-> IF c = "fee" THEN fee ELSE IF c = "a" THEN a ELSE b]
Empty == Purse(0, 0, 0)
Plus(p, q) == [c \in Coins |-> p[c] + q[c]]

(* A payment of x in one asset.                                            *)
Only(coin, x) == [c \in Coins |-> IF c = coin THEN x ELSE 0]

View(c, o, s) == [checkpoint |-> c, order |-> o, sent |-> s]
Receipt(c, s) == [checkpoint |-> c, settled |-> s]

(* Nothing is there yet; noOrder is a slot of zeros.                       *)
MarketInit(noOrder) ==
    /\ checkpoint = 0
    /\ order = [p \in Payers |-> noOrder]
    /\ sent = [p \in Payers |-> Empty]
    /\ claimed = [p \in Payers |-> Empty]
    /\ paid = [p \in Payers |-> Empty]
    /\ vault = Empty
    /\ consumed = [p \in Payers |-> 0]
    /\ settled = [p \in Payers |-> Empty]
    /\ views = {View(0, order, sent)}
    /\ seen = [p \in Payers |-> {Receipt(0, Empty)}]

-----------------------------------------------------------------------------
(* A transaction of p: its old proofs are void, and the vault's may read   *)
(* what it left.                                                           *)
PayerMoves(p) ==
    /\ views' = views \cup {View(checkpoint, order', sent')}
    /\ seen' = [seen EXCEPT ![p] = {Receipt(checkpoint, settled[p])}]
    /\ UNCHANGED <<checkpoint, vaultVars>>

(* A transaction of the vault: the same from the other side.               *)
VaultMoves ==
    /\ views' = {View(checkpoint, order, sent)}
    /\ seen' = [p \in Payers |-> seen[p] \cup {Receipt(checkpoint, settled'[p])}]
    /\ UNCHANGED <<checkpoint, payerVars>>

(* Faulty: an active order may be replaced.                              *)
OpensOver(p, o) ==
    /\ \E r \in seen[p] : o.deadline >= r.checkpoint
    /\ o.nonce > order[p].nonce
    /\ order' = [order EXCEPT ![p] = o]

(* open_swap and the other open methods: the slot is free, the nonce new.  *)
Opens(p, o) ==
    /\ \E r \in seen[p] : o.deadline >= r.checkpoint
    /\ o.nonce > order[p].nonce
    /\ order[p].kind = 0
    /\ order' = [order EXCEPT ![p] = o]

Pays(p, purse) == sent' = [sent EXCEPT ![p] = Plus(@, purse)]

(* The clients' stack: the order and its payments in one transaction.      *)
OpenFunded(p, o, due) == Opens(p, o) /\ Pays(p, due) /\ PayerMoves(p)

(* The order alone, and payments alone.                                    *)
OpenUnfunded(p, o) ==
    /\ p \in Careless
    /\ Opens(p, o)
    /\ UNCHANGED sent
    /\ PayerMoves(p)

Pay(p, payment) ==
    /\ p \in Careless
    /\ \A c \in Coins : sent[p][c] + payment[c] <= MaxSent
    /\ Pays(p, payment)
    /\ UNCHANGED order
    /\ PayerMoves(p)

(* In these coins the vault took everything that p sent.                   *)
NothingUnsettled(p, r, coins) == \A c \in coins : sent[p][c] = r.settled[c]

Closes(p, coins) ==
    /\ \E r \in seen[p] : NothingUnsettled(p, r, coins)
    /\ order' = [order EXCEPT ![p].kind = 0]
    /\ UNCHANGED sent
    /\ PayerMoves(p)

-----------------------------------------------------------------------------
(* Faulty: a settled nonce is good again.                                *)
IsThere(v, p, kind) == v.order[p].kind = kind

(* The view v shows an order of p that was not settled.                    *)
IsOpen(v, p, kind) ==
    /\ v.order[p].kind = kind
    /\ v.order[p].nonce > consumed[p]

IsLive(v, p) == v.checkpoint <= v.order[p].deadline

(* Faulty: any payment that covers the order.                            *)
IsCovered(v, p, due) == \A c \in Coins : due[c] > 0 => v.sent[p][c] >= settled[p][c] + due[c]

(* Since the cursors moved last, p has sent exactly this, in every coin    *)
(* that is due.                                                            *)
IsFunded(v, p, due) == \A c \in Coins : due[c] > 0 => v.sent[p][c] = settled[p][c] + due[c]

(* Faulty: the cursor of b is forgotten.                                 *)
SettlesA(v, p, due) ==
    /\ consumed' = [consumed EXCEPT ![p] = v.order[p].nonce]
    /\ settled' = [settled EXCEPT ![p] =
        [c \in Coins |-> IF due[c] > 0 /\ c # "b" THEN v.sent[p][c] ELSE settled[p][c]]]

(* The cursors of these coins are set to what the view shows.              *)
MovesCursors(v, p, due) ==
    settled' = [settled EXCEPT ![p] =
        [c \in Coins |-> IF due[c] > 0 THEN v.sent[p][c] ELSE settled[p][c]]]

Settles(v, p, due) ==
    /\ consumed' = [consumed EXCEPT ![p] = v.order[p].nonce]
    /\ MovesCursors(v, p, due)

(* simple_claim and claim: only news, and all of it.                       *)
Claims(v, p, due) ==
    /\ \A c \in Coins : due[c] > 0 => v.sent[p][c] > claimed[p][c]
    /\ claimed' = [claimed EXCEPT ![p] =
        [c \in Coins |-> IF due[c] > 0 THEN v.sent[p][c] ELSE claimed[p][c]]]

Brought(v, p, due, c) == IF due[c] > 0 THEN v.sent[p][c] - claimed[p][c] ELSE 0

(* The transfers of a stack and the burn of its fee, out of what the       *)
(* claims brought and the vault had.                                       *)
Spends(v, p, due, out, fee) ==
    /\ \A c \in Coins : out[c] + Only("fee", fee)[c] <= vault[c] + Brought(v, p, due, c)
    /\ vault' = [c \in Coins |-> vault[c] + Brought(v, p, due, c) - out[c] - Only("fee", fee)[c]]

(* One stack for an order of p: it takes what is due and pays p out.       *)
Serves(v, p, due, out, fee) ==
    /\ IsFunded(v, p, due)
    /\ Settles(v, p, due)
    /\ Claims(v, p, due)
    /\ Spends(v, p, due, out, fee)
    /\ paid' = [paid EXCEPT ![p] = Plus(@, out)]
    /\ VaultMoves

(* A new checkpoint, readable by everyone's proofs.                        *)
NewCheckpoint ==
    /\ checkpoint < MaxCheckpoint
    /\ checkpoint' = checkpoint + 1
    /\ views' = views \cup {View(checkpoint', order, sent)}
    /\ seen' = [p \in Payers |-> seen[p] \cup {Receipt(checkpoint', settled[p])}]
    /\ UNCHANGED <<payerVars, vaultVars>>

-----------------------------------------------------------------------------
(* The properties of every market, over the slots an order can be in.      *)

Receipts == [checkpoint : Nat, settled : Purses]
Views(slots) == [checkpoint : Nat, order : [Payers -> slots], sent : [Payers -> Purses]]

(* Totals, balances and cursors are natural numbers: no subtraction wraps. *)
MarketType(slots) ==
    /\ checkpoint \in Nat
    /\ order \in [Payers -> slots]
    /\ sent \in [Payers -> Purses] /\ claimed \in [Payers -> Purses]
    /\ paid \in [Payers -> Purses] /\ settled \in [Payers -> Purses]
    /\ vault \in Purses
    /\ consumed \in [Payers -> Nat]
    /\ views \in SUBSET Views(slots)
    /\ seen \in [Payers -> SUBSET Receipts]

(* The contract's cursors are what the tokens say the vault claimed.       *)
CursorsAreClaims == claimed = settled

(* Old views and receipts are lower bounds.                                *)
ProofsAreOld ==
    /\ \A p \in Payers :
        /\ consumed[p] <= order[p].nonce
        /\ \A c \in Coins : settled[p][c] <= sent[p][c]
        /\ \A r \in seen[p], c \in Coins : r.settled[c] <= settled[p][c]
    /\ \A v \in views, p \in Payers, c \in Coins : v.sent[p][c] <= sent[p][c]

(* An order that some view shows with an unsettled fee is still that order *)
(* now: its owner cannot have closed it, and so cannot have replaced it.   *)
PaidOrdersStay ==
    \A v \in views, p \in Payers :
        (v.order[p].kind # 0 /\ v.sent[p]["fee"] > settled[p]["fee"]) => order[p] = v.order[p]

(* The reasons a guard may trust an old view: the cursors follow the       *)
(* claims, totals only grow, and a funded order stays in its slot.         *)
MarketInv(slots) ==
    MarketType(slots) /\ CursorsAreClaims /\ ProofsAreOld /\ PaidOrdersStay

Got(p, c) == paid'[p][c] - paid[p][c]
Took(p, c) == claimed'[p][c] - claimed[p][c]
Now == View(checkpoint, order, sent)
=============================================================================
