----------------------------- MODULE TokenLedger -----------------------------
(***************************************************************************)
(* What the PSY-20 token promises, with no partitions and no proofs: one   *)
(* ledger that moves value between places.  A unit issued is free in some  *)
(* balance, in transit from one user to another, locked in an escrow slot  *)
(* that one delegate may pay out of, or waiting for its burn to be settled. *)
(* Every step acts on the current ledger; nothing is read from the past.   *)
(***************************************************************************)
EXTENDS Integers, Sequences

CONSTANTS Users, Issuer, NoUser, MaxFelt, Channels, Batches

VARIABLES
    free,       \* free[u]: spendable by u
    transit,    \* transit[u][v]: paid by u, not yet received by v
    escrow,     \* escrow[o][c]: locked by o, still payable
    delegate,   \* delegate[o][c]: who may pay out of it, NoUser when unlocked
    burning,    \* burning[u]: destroyed by u, still counted in supply
    supply      \* issuance less settled burns

ledger == <<free, transit, escrow, delegate, burning, supply>>
Value == 1..MaxFelt

Init ==
    /\ free = [u \in Users |-> 0]
    /\ transit = [u \in Users |-> [v \in Users |-> 0]]
    /\ escrow = [o \in Users |-> [c \in Channels |-> 0]]
    /\ delegate = [o \in Users |-> [c \in Channels |-> NoUser]]
    /\ burning = [u \in Users |-> 0]
    /\ supply = 0

Deposit(box, r, a) == IF a > 0 THEN [box EXCEPT ![r] = @ + a] ELSE box

Issue(a) ==
    /\ supply + a <= MaxFelt
    /\ free' = [free EXCEPT ![Issuer] = @ + a]
    /\ supply' = supply + a
    /\ UNCHANGED <<transit, escrow, delegate, burning>>

IssueTo(v, a) ==
    /\ supply + a <= MaxFelt
    /\ transit' = [transit EXCEPT ![Issuer] = Deposit(@, v, a)]
    /\ supply' = supply + a
    /\ UNCHANGED <<free, escrow, delegate, burning>>

Pay(u, v, a) ==
    /\ a <= free[u]
    /\ free' = [free EXCEPT ![u] = @ - a]
    /\ transit' = [transit EXCEPT ![u] = Deposit(@, v, a)]
    /\ UNCHANGED <<escrow, delegate, burning, supply>>

(* Up to five payments of one user in one step.                            *)
PayBatch(u, b) ==
    LET total == b.amount[1] + b.amount[2] + b.amount[3] + b.amount[4] + b.amount[5]
        paid1 == Deposit(transit[u], b.to[1], b.amount[1])
        paid2 == Deposit(paid1, b.to[2], b.amount[2])
        paid3 == Deposit(paid2, b.to[3], b.amount[3])
        paid4 == Deposit(paid3, b.to[4], b.amount[4])
        paid5 == Deposit(paid4, b.to[5], b.amount[5])
    IN
    /\ \A i \in 1..5 : b.amount[i] > 0 => b.to[i] \in Users
    /\ total <= free[u]
    /\ free' = [free EXCEPT ![u] = @ - total]
    /\ transit' = [transit EXCEPT ![u] = paid5]
    /\ UNCHANGED <<escrow, delegate, burning, supply>>

Receive(v, u, a) ==
    /\ a <= transit[u][v]
    /\ transit' = [transit EXCEPT ![u][v] = @ - a]
    /\ free' = [free EXCEPT ![v] = @ + a]
    /\ UNCHANGED <<escrow, delegate, burning, supply>>

(* v sends back to u what u has paid and v has not received.               *)
Return(v, u, a) ==
    /\ u # v
    /\ a <= transit[u][v]
    /\ transit' = [transit EXCEPT ![u][v] = @ - a, ![v][u] = @ + a]
    /\ UNCHANGED <<free, escrow, delegate, burning, supply>>

Destroy(u, a) ==
    /\ a <= free[u]
    /\ free' = [free EXCEPT ![u] = @ - a]
    /\ burning' = [burning EXCEPT ![u] = @ + a]
    /\ UNCHANGED <<transit, escrow, delegate, supply>>

Settle(u, a) ==
    /\ a <= burning[u]
    /\ burning' = [burning EXCEPT ![u] = @ - a]
    /\ supply' = supply - a
    /\ UNCHANGED <<free, transit, escrow, delegate>>

Lock(o, c, s, a) ==
    /\ delegate[o][c] = NoUser
    /\ a <= free[o]
    /\ free' = [free EXCEPT ![o] = @ - a]
    /\ escrow' = [escrow EXCEPT ![o][c] = a]
    /\ delegate' = [delegate EXCEPT ![o][c] = s]
    /\ UNCHANGED <<transit, burning, supply>>

(* Only the slot's delegate pays out of it, never more than is left.       *)
PayFromEscrow(s, o, c, r, a) ==
    /\ delegate[o][c] = s
    /\ a <= escrow[o][c]
    /\ escrow' = [escrow EXCEPT ![o][c] = @ - a]
    /\ transit' = [transit EXCEPT ![s] = Deposit(@, r, a)]
    /\ UNCHANGED <<free, delegate, burning, supply>>

(* The owner gets back exactly what was not paid out.                      *)
Unlock(o, c) ==
    /\ delegate[o][c] # NoUser
    /\ free' = [free EXCEPT ![o] = @ + escrow[o][c]]
    /\ escrow' = [escrow EXCEPT ![o][c] = 0]
    /\ delegate' = [delegate EXCEPT ![o][c] = NoUser]
    /\ UNCHANGED <<transit, burning, supply>>

Next ==
    \/ \E a \in Value : Issue(a)
    \/ \E v \in Users, a \in Value : IssueTo(v, a)
    \/ \E u, v \in Users, a \in Value :
        Pay(u, v, a) \/ Receive(v, u, a) \/ Return(v, u, a)
    \/ \E u \in Users, b \in Batches : PayBatch(u, b)
    \/ \E u \in Users, a \in Value : Destroy(u, a) \/ Settle(u, a)
    \/ \E o, s \in Users, c \in Channels, a \in Value :
        Lock(o, c, s, a) \/ \E r \in Users : PayFromEscrow(s, o, c, r, a)
    \/ \E o \in Users, c \in Channels : Unlock(o, c)

Spec == Init /\ [][Next]_ledger
=============================================================================
