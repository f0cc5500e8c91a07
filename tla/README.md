# Verification of psy-template

TLA+ models of the contracts and services of this repository, model-checked
with TLC and, where it says so, proved with TLAPS for every value of the
constants. All paths below are relative to `src/`; `PROJECT.json` maps every
definition to the lines it models.

1. [The system](#1-the-system)
2. [What makes it hard](#2-what-makes-it-hard)
3. [The modules](#3-the-modules)
4. [The runs](#4-the-runs)
5. [Fairness](#5-fairness)
6. [What is proved](#6-what-is-proved)
7. [A disagreement with the documentation](#7-a-disagreement-with-the-documentation)
8. [What is not modelled](#8-what-is-not-modelled)
9. [What is left](#9-what-is-left)

## 1. The system

A contract's state is partitioned by user. A call executed by user *u* writes
only *u*'s partition; the partitions of others are read through proofs anchored
at a checkpoint of the chain. The node checks that *u*'s own leaf is the present
one, and does not check that the other users' are (`DESIGN.md`,
`PRODUCTION_READINESS.md:72`: "Staging does not require remote state reads to be
fresh at submission"). So users talk to each other by leaving cumulative
counters in their own partition, which others read, possibly late, and answer
with counters of their own. Off-chain processes watch public state and submit
transactions for SD-key accounts, whose circuits admit only certain stacks of
calls.

| Component | State | Operations | Interacts with | What makes it correct |
|---|---|---|---|---|
| PSY-20 token (`token/src/main.psy.rs`) | balances, sent and claimed counters of each pair, burn counters, delegation slots of an owner and ledgers of its spenders, the issuer's cap and authority | administration, mint, transfer, claim, cancel, refund, batches, burn and its settlement, delegation: open, spend, request revocation, close, finalise | every market reads its counters | nothing claimed, settled or spent twice on an old proof; supply bounded and conserved; refunds exact |
| PSY-721 collection (`nft/src/main.psy.rs`) | slots, a ring of four outgoing tokens and three cursors for each pair, burn counters | administration, mint, transfer, claim, acknowledge, burn and its settlement | marketplace | a token has one home; first in, first out; a ring entry is reused only when no proof can claim it |
| Exact-fill orderbook (`orderbook/contract`, its `sdkey-circuit`, `operationCalls.mjs`) | one order in each seller's partition, the escrow's cursors (nonce, settled totals) | open, close, match, cancel for each asset | the two tokens, in one stack | settles only the present order, once, on its terms; keeps nothing |
| Orderbook matcher (`orderbook/matcher*.mjs`) | a lock file and a JSONL ledger | match, submit, retry | orderbook | an ambiguous submission is not repeated |
| U124 token (`token/wide`) | the token's, with every amount a pair of 62-bit limbs | the token's | the U124 markets | carries, borrows and comparisons exact; never a refusal the numbers do not call for |
| U124 AMM (`amm/u124`, its `policy.mjs`, `client.mjs`) | orders of payers, reserves and shares of a vault, cursors of the vault | open and close orders; swap, add and remove liquidity, refund, cancel | two U124 tokens, in one stack | the reserves are what the vault holds; no step makes a share worth less; each order settled once on its terms |
| U124 bonding curve (`bondingcurve/u124`) | phase, lots sold, reserve, orders | open, close; initialise, buy, sell, refund, graduate | two U124 tokens, the AMM's vault | the reserve is the price of the lots sold; stale quotes come back; the target gets everything once |
| U124 orderbook (`orderbook/u124`) | orders, the vault's cursors | open, close, match, cancel | two U124 tokens | both sides of a match or none, within both limits |
| Base and wide AMM, launch AMM, base bonding curve (`amm/contract`, `amm/wide`, `launchamm`, `bondingcurve/contract`) | as the U124 profiles, with one-felt amounts or an earlier layout | the same | tokens | as the U124 profiles |
| Vault lock (`executor/journal.mjs`, `locked`) | two files of a vault's directory | take, recover, release | executors on one or more machines | mutual exclusion with crashes; fails closed |
| Execution journal and cycle (`executor/journal.mjs`, `worker.mjs`, `u124Adapter.mjs`, `driverProcess.mjs`) | the records of a vault, a submission log for each attempt | reconcile, scan, execute | lock, wallet driver, chain | one attempt open at a time; no task done twice; verdicts true |
| Wallet driver (`amm/u124/vm-tests`) | its log, its transaction | prove, announce, broadcast, report | journal, chain | the leaf is in the log before the broadcast |
| Execution limiter (`executor/worker.mjs`) | free slots and a queue | take, wait, hand over, abort | all vaults of a service | no slot lost or doubled |
| Read concurrency and retries (`executor/readConcurrency.mjs`, `readRetry.mjs`) | free read slots and a queue, a scan's cursor and failure flag | take a row, read, repeat, give up, drain | scans and jobs of all vaults | a partial scan never reaches a planner; nobody waits for ever |
| Readers, durable files, service (`executor/`) | caches, a status file | paging, publishing | executors | a record is there whole or not at all |
| Token with private notes (`token/src/main.psy`, `main.private.psy.rs`, `token/wide/private`) | a note tree and nullifiers | private transfer and claim | token | a note is spent once |
| NFT marketplace (`nft-marketplace`) | listings and purchase orders at a fixed price | list, order, settle | collection, U124 token | a token is sold once for its price |
| SD-key wallet circuits, dApp, build and deployment scripts | none that outlives a run | | | |

`PROJECT.json` lists them all with their status.

## 2. What makes it hard

* **Old proofs.** A guard that compares a remote counter compares a value of the
  past. The contracts are right only if every counter a guard reads is monotone
  or is superseded before it becomes wrong; this is what most of the invariants
  below say.
* **Reuse.** A delegation slot, a ring entry and an order slot are reused while
  proofs of their former use are still valid.
* **Cumulative totals.** The tokens do not know which payment is for what. The
  markets recognise a payment by an exact difference of two totals.
* **Division.** The contracts do not divide: the proof of a swap supplies the
  quotient, and two products must bound it from both sides, rounded in favour of
  the pool. An amount of the U124 profiles is a pair of limbs, and every sum,
  difference and comparison is spelled out on them.
* **Crashes between steps.** The executor ends between its intent, the driver's
  broadcast and its result; the driver outlives it; the chain may include the
  transaction later or never.
* **Files as locks.** Owners are recognised by a pid, and pids are reused.
* **Slots held while waiting for slots.** A job holds an execution slot while its
  second scan needs read slots that other vaults' scans hold.

The hazards, each at its line, with the properties that would notice it going
wrong, are in `PROJECT.json`.

## 3. The modules

Each component has a module with its actions, a `...Props` module with its
properties and, where there is one, an abstract specification it implements, an
`MC...` module with constants for TLC; its proofs are in the `...Proofs` module
the table names. `Sums` has the lemmas about sums over finite sets and tables that
the token's, the collection's and the AMM's proofs use.

| Component | Code | Abstract | Properties | Proofs |
|---|---|---|---|---|
| Token | `PsyToken` | `TokenLedger` | `PsyTokenProps` | `PsyTokenProofs` |
| Collection | `PsyNFT` | `NFTRegistry` | `PsyNFTProps` | `PsyNFTProofs` |
| Orderbook | `Orderbook` | `LimitExchange` | `OrderbookProps` | `SettlementProofs` |
| U124 token | `WideToken` over `U124Amount` | `PsyToken` itself | `WideTokenProps` | `WideTokenProofs` |
| U124 markets' vault | `U124Market` | | `MarketInv` in the module | `U124MarketProofs` |
| U124 AMM | `U124Amm`, which EXTENDS `U124Market` | `LiquidityPool` | `U124AmmProps` | `U124AmmProofs` |
| U124 bonding curve | `U124Curve`, which EXTENDS `U124Market` | | `U124CurveProps` | `U124CurveBookProofs` |
| U124 orderbook | `U124Orderbook`, which EXTENDS `U124Market` | `PairExchange` | `U124OrderbookProps` | `U124CurveBookProofs` |
| Vault lock | `VaultLock` | `VaultMutex` | `VaultLockProps` | `SettlementProofs` |
| Journal, cycle, driver | `ExecutorJournal`, which EXTENDS `VaultMutex` | `VaultSubmissions` | `ExecutorJournalProps` | `SettlementProofs` |
| Limiter, readers | `VaultScans`, over two instances of `ExecutionLimiter` | | in the modules | `SettlementProofs` |

The lock and the journal compose: `VaultLock` implements `VaultMutex`, and
`ExecutorJournal` uses the steps of `VaultMutex` for the lock. `VaultScans`
composes the execution slots with the read slots. The three U124 markets share
`U124Market`, as their generated contracts share their guards; that their amounts
may be numbers there is what `WideToken` and its refinement of `PsyToken` show of
the token, whose sums, differences and comparisons of limbs are the markets'.
A definition whose
comment starts with "Faulty" is the next one with a plausible mistake; no
specification uses it, `PROJECT.json` pairs it with the property that notices it.

### Conventions

* *One call, one step.* A contract call is atomic, and so is a stack of calls: an
  action is a whole call (tokens, collection) or a whole stack (markets).
* *Old proofs.* In the token and the collection every method reads at most one
  entry of one remote user, at one checkpoint. So it is exact to keep, for each
  remotely readable entry, the set of values it has had (`past_sent`,
  `past_delegations`, `past_outbox`, ...), and to let a call read any of them.
* *Old proofs in stacks.* A stack of a market reads several entries of several
  users at one checkpoint. `views` holds the snapshots (checkpoint, orders,
  totals) since the vault's own last transaction, and `seen[p]` the vault's totals
  since *p*'s: an older proof shows an own leaf that is not the present one, and
  the node rejects it.
* *Careful and careless payers.* Everybody can call the contracts outside the
  clients' stacks: pay any amount at any time, open an order that nothing was paid
  for. The payers in `Careless` do. The safety properties hold for all; only
  `NothingStuck` (`NoSellerStuck`) is a promise to the others.
* *Users* are the ids the guards accept; the id 0 is `NoUser`. Ids of 2^24 and
  more pass no guard and are not modelled. *Felts* are `0..MaxFelt`: the proofs
  hold for any `MaxFelt`, TLC uses a small one, so that the overflow guards are
  reached. A guarded subtraction that could wrap would leave the type invariant.
* *Metadata*, names and URIs are model values: only who may set them, and when,
  is control.
* *Files.* In `VaultLock` each file operation is a step of its own. In
  `ExecutorJournal` a record is published by one `link(2)`, so appending is one
  step; a log is written by a child and may be lost in a power failure, because
  the driver flushes it and does not sync it.

### Token

`Transfer`, `Claim`, `CancelUnclaimedPayment`, `RefundClaimedPayment`, the
batches, `Burn`, `SettleBurn`, the issuer's methods and the five delegation
methods are actions named after the methods. A batch is folded entry by entry,
as in the code, so that a repeated recipient sees its own earlier entry. A claim
may take any total in `past_sent`; the guards `>` and the difference are those of
the code. What a call tests of the proof it brings is an operator of its own where a
property says that some proof passes (`CanClaim`, `CanSettle`, `CanClose`,
`CanFinalize`; likewise in the collection and the U124 token). `TokenLedger` has no
proofs and no counters: it moves value between free balances, payments in transit,
escrows and burns.

### Collection

`Transfer` first clears what it may (`Clear`), tests the window of four
(`HasRoom`) and writes the entry at `nonce % 4`; `Claim` takes the entry at the
receiver's own cursor out of an old outbox; `Acknowledge` moves the sender's
window on an old cursor. `NFTRegistry` has sets of held tokens and a queue for
each pair.

### Orderbook

`OpenSell` is the clients' stack (order and payments in one transaction);
`OpenUnfunded` and `Pay` let the sellers in `Careless` do both in any order and
amount. `CloseOrder` is `close_psy_order` or `close_usdt_order`, by the asset.
`MatchOrders`, `CancelPsyOrder` and `CancelUsdtOrder` are the three stacks the
escrow's circuit admits: the contract's guard (`MatchGuard`, `IsOpen`,
`IsFunded`), its cursors (`Settle`), the claims (`Claims`), the transfers and the
fee's burn (`Spends`). One escrow account is modelled: an order at another one
is, for this one, no order. `LimitExchange` has orders and deposits and acts on
what is there at the moment.

### U124 token

The methods are those of `PsyToken`, on pairs of limbs. `U124Amount` has the
operations the program spells out in bits: comparison, sum with carry, difference
with borrow, and the range check of the result. `Base` is any radix from 2 up; the
code's is 2^62. Refinement maps each pair to its number, so that every call is the
same call of `PsyToken` with `MaxFelt` = `Base * Base - 1`.

### U124 markets

`U124Market` has what the generated methods repeat: the order slot (`Opens`,
`Closes`, `NothingUnsettled`), the guards of a settlement (`IsOpen`, `IsFunded`),
the cursors (`Settles`) and the rest of the stack the policy admits (`Claims`,
`Spends`). `U124Amm`, `U124Curve` and `U124Orderbook` have one action per branch
of `policy.mjs`: the market's guard with its own conditions and pool or curve,
then the stack. The AMM's quotients are parameters (`QuoteNotTooHigh` and
`QuoteNotTooLow` are the two product tests). The curve's `Takes` is the stack of
`initialize` and `graduate`, which moves the issuer's fee cursor without an order:
the cursor is the one the issuer's own orders use, so the issuer is a careless
payer. The orderbook's stack has claims of two sellers (`MatchClaims`), and gives
seller b its fee back, because one settlement needs one fee (`MatchOrders`,
`Cancel0`, `Cancel1`; its definitions are `BookInit`, `BookNext`, `BookSpec`,
`OpenSellOrder`, for one proof module extends it together with the curve).

`LiquidityPool` has deposits and a pool that trades at the moment's reserves;
`PairExchange` has orders and deposits and swaps both sides or neither.

### Lock, journal, scans

`locked()` is a program counter for each process: `idle` → `gated` → `reading` →
`testing` → `stealing` → `reopening` → `writing` → `owner` → `inside`, with an
exit from every step. A crash leaves both files as they are. `Host` says which
pids share a machine: `kill(pid, 0)` tells nothing of another one.

The journal's actions follow `reconcile` (`BeginReconcile`, `Judge`,
`EndReconcile`), the scan outside the lock (`Scan`), and `execute`
(`BeginExecute`, `Intend`, `Spawn`, `RecordResult`, `Conclude`, `Refuse`,
`GiveUp`); the driver (`Announce`, `Transmit`, `Reject`, `Kill`) and the chain
(`Include`, `Drop`) take their own steps. `Pending(journal)` is the set of intents
without a verdict, `todo[p]` those that `reconcile` has still to judge.
`VaultSubmissions` has a state for each attempt and says which verdicts are true.

`ExecutionLimiter` is a scheme for any set of clients: a client is `resting`,
`waiting`, `started` (it was handed a slot) or `running`. `VaultScans` takes it
twice: for the vaults' jobs (`Turns`, with the abort) and for the readers of their
scans (`Reads`; `AcquireRead`, `ReleaseRead`). A reader takes rows by the scan's cursor (`TakeRow`), reads (`ReadRow`), repeats a
read that failed in passing (`Interrupt`, `Retry`: the slot is given back in
between), or gives the scan up (`GiveUpRead`); the scan ends when every reader has
left (`IsDrained`, the `allSettled` of `mapReads`; `DropRows` clears what it held). A cycle scans, plans, waits for
its slot and scans again inside (`isCurrent`, `u124Adapter.mjs:54`).

## 4. The runs

| Run | Instance | Shows |
|---|---|---|
| `token_payments` | 3 users, felts to 2, no slots, batches with repeated, skipped and own recipients | outboxes, burns, cap; conservation of supply; the ledger is implemented |
| `token_delegation` | 3 users, 1 slot, felts to 3; the calls that touch slots, with mint, burn and the owner's claims (`DelegationSpec`) | slots reused for other spenders and versions while every old proof stays usable; the refund is exact; nothing is stranded; the ledger is implemented |
| `nft` | 2 users, 2 slots, 5 felts, all calls within `FewSteps` | the ring wraps; the registry is implemented; the accounts add up |
| `wide` | 2 users, 1 slot, limbs in base 3, all calls within `FewUnits` and `OneOwner` | every call is `PsyToken`'s on the numbers; no call the numbers allow is refused |
| `orderbook` | 2 sellers, one careless, 4 orders, 2 fees, payments that fit one order and not the other, 2 checkpoints | see below |
| `amm` | 2 payers, one careless, 4 orders (an addition, a swap of each side, a removal), amounts to 12, 1 locked share, 2 checkpoints | the pool is what the vault holds; shares add up and keep their value; terms kept; the pool is implemented |
| `curve` | a buyer and the issuer (careless), 2 lots for sale and 1 for the target, 5 orders, 2 of them stale or mispriced, 2 checkpoints | the reserve is on the curve; the target gets all; stale orders come back |
| `u124_orderbook` | 3 sellers, one careless, one a rival for the others' orders, 4 orders that cross in some pairs, within `FewActs` | both sides within both limits or none; no careful seller is stuck |
| `lock` | 3 processes, 2 machines, crashes and pid reuse | the mutex is implemented; failing closed; progress |
| `lock_contention` | 2 processes of one machine | the disagreement of section 7 |
| `journal` | 2 executors, 2 tasks, 2 attempts in all | one open attempt, true verdicts, an included broadcast recorded |
| `scans` | 3 vaults with 3, 1 and no users, 1 execution slot, 2 read slots, 2 readers a scan, 2 attempts a read, a stop | both limiters exact, no partial scan planned, no vault waits for ever |

**Bounds.** `MaxFelt` of 2 or 3 is enough for two payments, an overflow and a
second use of everything that is reused; the ring needs five positions to wrap
and one more. `token_delegation` leaves transfers out, so that only the issuer
owns slots: what a slot's owner needs is a balance. It keeps the issuer's claims,
by which a payout can come back to the owner. In `nft`, two tokens pass back
and forth until the ring has wrapped; with any other call in between, issues and
passes are five in all. In `wide`, base 3 makes a sum of two amounts carry and the
largest amount overflow the high limb; `FewUnits` bounds what is issued and
`OneOwner` lets only the issuer burn and delegate, for the calls of the others are
the same code. In the markets the orders differ in amount, price and side, one
expires at checkpoint 0, and the totals go far enough to pay one order twice. The
AMM's `MaxAmount` of 12 makes the quotients round and the reserves' limit be
reached. In `u124_orderbook` two sellers have two orders each, and the third
competes for the first ones only (`FewActs`): that is enough for two matches of
one order, and for a match against a cancellation. The journal's second
attempt is what a first one, wrongly judged, would let start. In `scans` one
vault has more users than readers, its readers can fill all read slots while
another vault's job needs one, and the third vault has nobody to read. The
finite instances of the contracts run out of felts, nonces or orders, and the
cycles may end after a stop, so deadlock is not checked there; it is in the runs
of the lock and the journal.

**Symmetry** is used only in runs without liveness: over the holders in the
token, over the slots in `nft`; no definition tells these apart.

**The markets.** `OrderbookInv`, `AmmInv` and `CurveInv` say why a guard may trust
an old view: the contract's cursors are the tokens' claims, totals only grow, and
an order that some view shows active and paid beyond the cursor is still in its
owner's slot (the owner cannot close it, so it cannot replace it).
`SettledOnSignedTerms` (`SellersKeepTheirTerms` of the U124 orderbook): a stack touches a payer's money only for the order the
payer has now, with a new nonce, takes exactly its deposit, and pays it back or
keeps its limits. In the AMM that alone would let the pool bleed, so
`ShareValueNeverFalls` compares the product of the reserves with the square of the
shares over every step. In the curve the reserve must not depend on who traded in
which order (`CurveInv`), or the graduation would find too little
(`TargetGetsAll`). `NothingStuck` and `NoSellerStuck`: a payer of the clients' stacks can always be
refunded or close. It has two limits that are the code's. A careless payer, whose
payment differs from what its order needs, does lock its payment, as the base
orderbook's contract says ("Unclaimed payments keep the slot locked"). And an
order that is opened before the curve was initialised waits for it, because every
settlement and refund of the curve tests the phase.

`TokenInv` and `NFTInv` are inductive invariants, each conjunct a reason an old
proof is harmless; the action properties (`PayoutsAreEscrowed`, `RefundIsExact`)
say what no call may do.

## 5. Fairness

The contracts have none: nobody has to call them. What must remain possible
(`NothingStranded`, `NothingStuck`) is a state predicate.

* **Lock.** `WF` of the steps of `locked()` of each process and of `Release`: the
  event loop goes on, and a guarded function ends (its children have timeouts).
  Starting, crashing and failing writes are not fair. `CrashedOwnerIsReplaced`
  has premises of its own: the disk works in the end, and no process of another
  machine keeps trying. Without the second the property is false: a process that
  can never tell whether the owner lives may hold the gate whenever another one
  asks.
* **Journal.** `WF` of a cycle's steps (`Work`) and of a driver's, and `SF` of
  `Judge`: a read of the chain that fails is retried for ever and does not fail
  for ever. `InclusionIsRecorded` supposes that executors stop crashing in the
  end, and that the leaf was kept in a log or a result.
* **Scans.** `WF` of the end of a vault's scan, of the start and the end of its
  job, and of each reader's next step. The event loop runs what is ready; a
  request has a timeout of its own and a read at most three attempts, so a read
  ends; an execution ends because its children have timeouts. Scans and plans are
  not fair: a vault may stay idle. The fairness of a reader is one condition on
  all its steps, because its loop does them one after the other.

## 6. What is proved

For any number of users, payers, slots, processes and machines, any field size and
any radix of limbs, from the named assumptions on the constants alone. Sums need
finite sets to sum over (`FiniteAssumption`): ids are below 2^24, a token has 16
slots for each user and a collection 128, and the payers of a market are users.

**Token** (`PsyTokenProofs`).
* `TokenCorrect`: `TokenInv` is inductive, and with it `OutboxSafety`,
  `BurnSafety`, `SupplySafety`, `RenunciationIsFinal`, `DelegationSafety`,
  `OneSpenderPerVersion`, `CloseIsTerminal`, `NoPayoutAfterRefund`,
  `RefundsAreExact` and `ProofsStayLowerBounds`. `SpentWithinAllocation` alone is
  not inductive: a spend shows an old proof of the slot. `OldSlotsSuperseded` says
  what such a proof is worth: it shows the allocation of now, or its spender's
  ledger was closed for that version. The second disjunct needs
  `LedgersWellFormed` and `OldLedgersBehind`, for a refund reads an old ledger in
  its turn.
* `RefinesLedger`: every call is one step of `TokenLedger` on the balances,
  transits, escrows and burns of the moment, whatever old values it was shown. The
  lemma for a delegation call turns the shown slot into the present one
  (`UsableProofIsCurrent`).
* `ConservationOfSupply`: each step of the ledger adds to one place what it takes
  from another, and the sums of the places follow it (`Sums`).
* `NoValueIsStranded`: the call that frees a value is possible with some proof
  that exists. `ProgressInv` provides the proof (`PresentIsProvable`), shows that
  the ledgers admit it (`OverIsClosed`: a version that is over is closed, so the
  next one is admitted) and that nobody pays itself; conservation provides the
  room: what is to be added to a balance is already a part of the supply, a field
  element. The conditions are the guards of the actions (`CanClaim`, ...), so the
  statement needs no `ENABLED`.

**Collection** (`PsyNFTProofs`). The cursors are ordered and an old outbox agrees
with the ring at every position that can still be claimed (`OldProofsAreGood`);
`NoTokenTwice`; `NFTCorrect`; `BurnIsFinal`; `MintStaysBounded`; `RefinesRegistry`,
every step is a step of the registry or none. `SupplyIsAccounted`: a balance is the
number of occupied slots, a transfer moves one from it to the positions between two
cursors, a claim back, a burn to the burns that are due. From it, with
`OldBurnsBehind` and `ProgressInv`, `NoTokenIsStranded`.

**U124 token** (`WideTokenProofs`). `LimbsStayCanonical`, every pair that is stored
or that a proof can show has both limbs below the radix, and `RefinesToken`. They
rest on lemmas about `U124Amount`: on canonical pairs the comparison, the checked
sum and the difference are those of the numbers. Each method is then one lemma, that
its step maps to the step of `PsyToken`. With the theorems about `PsyToken`, which
are about any `MaxFelt`, its safety holds of the wide token too. `NothingIsRefused`
is the other direction, for payments, claims and settlements of burns: what the
numbers allow, no comparison or range check on limbs refuses.

**Orderbook** (`SettlementProofs`). `OrderbookCorrect`, `SettlementsKeepTerms`,
`EscrowKeepsNoPrincipal`, `CarefulSellersGetOut`, for which the invariant is
strengthened by what a careful seller's deposit is (nothing, or exactly its
order's), and `RefinesExchange`. All rest on the lemma `FundedIsPresent`.

**U124 markets**. `U124MarketProofs` proves once, for whatever a market adds, that
each shared step keeps the shared invariant `MarketInv`, and that a funded order in
a view is the present one.
* `U124AmmProofs`: `AmmCorrect`, `SignedTerms`, `RefinesPool`, `Unstuck`, and
  `ShareValue`, an argument about products of four naturals, given as lemmas on
  inequalities, because the provers do no non-linear arithmetic by themselves.
  `SharesStayWhole`: the shares of one payer change by what the pool's total
  changes by, and the locked minimum stays out of it.
* `U124CurveBookProofs`, the curve: `CurveCorrect`, `TargetPaid`, `SignedTerms`,
  `Unstuck`; that the reserve is the price of the lots sold is inductive, once
  stated without a division.
* The same module, the orderbook: `BookCorrect`; every settlement is a step of the
  book (`BookStep`), which gives one order back or matches two orders that cross,
  each seller getting exactly what `Released` says. `SellersTerms` and
  `RefinesPairExchange` follow from it; `SellersUnstuck` needs `CarefulSellers`,
  the deposit of a careful seller, as in the base orderbook.

**Lock** (`SettlementProofs`). `LockCorrect`, whose conjunct `GateKnows` is what
the process behind the gate knows of the lock; `LockExcludes`, `GateFailsClosed`,
`LockRefinesMutex`.

**Journal** (the same module). `JournalInductive` proves the inductive invariant
`JournalIInv`, from it `JournalCorrect`, `TasksAreDoneOnce` and
`JournalRefinesSubmissions`. Its parts: a process in the critical section holds the
lock (`LockHeld`); intents are numbered in order (`AttemptsNumbered`) and resolved
one at a time (`OneAtATime`); no task is begun again behind its confirmation
(`DoneIsDone`); what a process in each stage knows of the journal (`JobsMean`); what
a driver, its log and the chain can be for an attempt the journal calls open,
refused, done or unused (`WireAgrees`); and that every record speaks the truth:
a refused attempt can never be broadcast (`RefusalsAreTrue`), a confirmed one was
included (`InclusionsAreKnown`). It holds through crashes of executors, drivers
that outlive them, and logs lost in a power failure.

**Limiter and scans** (the same module). `ExecutionLimiter` is proved for any
clients and limit, in lemmas about functions and queues, and used for both
instances (`TurnsSound`, `ReadsSound`). `ScansInductive` proves `ScansIInv`, which
adds that a scan's readers are at rows of their own, none of them read already
(`ReadersApart`), that every row behind the cursor is read or in one reader's
hands unless the scan failed (`NoRowIsLost`), and that between two scans nothing
is at work (`AtRest`); from it `LimitersHold` and `ScansAreWhole`.

**Sums.** A sum over a set is a fold over it; that a table of partial sums exists
is proved by least counterexample over the finite subsets, since the induction
theorems of the library take an operator. From it: an element taken out, one value
changed, two equal functions, terms that are not negative, and the same for tables
of two indices.

`PROJECT.json` lists each, with the property it is about where a run checks that
property too. Every `ASSUME` is evaluated by TLC in a run. Some proved properties
are in no run, because a checked one contains or implies them: the single facts in
`TokenInv` and `NFTInv` (`ClaimedWithinSent`, `OneHome`, ...), mutual exclusion in
`ImplementsMutex`, `NoPrincipalIsKept`, the AMM's `NothingStuck`, `WideType`, and
the inductive invariants of the journal and the scans.

**Only model-checked:** the liveness properties (`CrashedOwnerIsReplaced`,
`InclusionIsRecorded`, `EveryVaultProceeds`), which are out of the prover's reach,
and the disagreement of section 7, which a counterexample settles.

## 7. A disagreement with the documentation

`executor/README.md:156-157`: "Watch mode backs off after exhausted read retries
or lock contention." Run `lock_contention` finds contention that halts the
worker instead. A process reads the lock's owner (`journal.mjs:42`); the owner
releases the lock and its process ends; `kill(pid, 0)` (line 43) then finds it
dead, and `unlink(path)` (line 45) fails with `ENOENT`, which is not `VaultBusy`:
`classifyError` makes it `halted`, and `watchWorker` returns. Exclusion is not
affected.

## 8. What is not modelled

* *Proving and circuits*: that a proof shows what it says is taken for granted;
  so are the node's checks of the caller's own leaf.
* *Private notes* (also of the U124 token): the note tree and its nullifiers need
  hashes and Merkle proofs as values.
* *Base and wide AMMs, launch AMM, base bonding curve*: earlier or narrower
  profiles of the U124 markets, with the same life of an order and their own
  arithmetic. The quotient test of the one-felt AMM multiplies in the field, and
  whether it can wrap is not examined.
* *NFT marketplace*: its payment guards are those of `U124Market`; its listings
  and the acknowledgements in its stacks are not modelled.
* *Matcher*: any pair it proposes is a match of `Orderbook`, whose guards decide;
  its lock and ledger against a crash are not modelled.
* *Bootstrapped graduation*: the stack of `policy.mjs:34-40`, which also pays a
  funder's fee and opens an order of the AMM for the target.
* *Products of digits*: a product of two U124 amounts is a product of numbers; the
  multiplication of limbs in the market contracts is not modelled, nor are the
  markets' own copies of the operations of `U124Amount`. The loops' range checks
  are one check of their result.
* *Readers, status*: paging, HTTP and aggregated statuses, without a decision that
  outlives them; a receipt is found, missing or unreadable in the journal, and a
  row of a scan is one read, whatever requests it consists of.
* *Circuits, dApp, build and deployment scripts*: the call shapes the circuits
  admit are guards of the market models; the rest has no state of its own.
* Within the modelled parts: the journal's `planned` and `proved` records (they
  only save proving a task again), identity and ABI assertions, back-off times,
  the older adapter (its verdicts are a subset); what sellers do with the
  orderbook's payouts, which is the token's model.

## 9. What is left

Done, in this order: token, collection, lock, journal, limiter, orderbook; the U124
markets' vault, AMM and curve; the U124 orderbook and token; the scans.

Proved: every property of a passing run that is not a liveness property.

1. **Proofs that compose**: the wide token's safety as theorems of `WideToken`
   itself, carried over by its refinement; the curve's refinement of an abstract
   market.
2. **NFT marketplace**: `U124Market` with tokens of `PsyNFT` on one side.
3. **Bootstrapped graduation**: the composition of `U124Curve` and `U124Amm`.
4. **Matcher and the service's confirmations**, private notes with notes as model
   values.
