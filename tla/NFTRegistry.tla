----------------------------- MODULE NFTRegistry -----------------------------
(***************************************************************************)
(* What the PSY-721 collection promises: every token has one home, which   *)
(* is a holder or a place in a first-in first-out channel between two      *)
(* users, until it is burned for good.  Nothing is read from the past.     *)
(***************************************************************************)
EXTENDS Integers, Sequences

CONSTANTS Users, Issuer, Token, Window

VARIABLES
    minted,     \* tokens minted so far: 1..minted
    holdings,   \* holdings[u]: the tokens u holds
    channel     \* channel[u][v]: on their way from u to v, oldest first

registry == <<minted, holdings, channel>>

Init ==
    /\ minted = 0
    /\ holdings = [u \in Users |-> {}]
    /\ channel = [u \in Users |-> [v \in Users |-> <<>>]]

Mint ==
    /\ minted + 1 \in Token
    /\ minted' = minted + 1
    /\ holdings' = [holdings EXCEPT ![Issuer] = @ \cup {minted + 1}]
    /\ UNCHANGED channel

Burn(u, t) ==
    /\ t \in holdings[u]
    /\ holdings' = [holdings EXCEPT ![u] = @ \ {t}]
    /\ UNCHANGED <<minted, channel>>

Send(u, v, t) ==
    /\ t \in holdings[u]
    /\ Len(channel[u][v]) < Window
    /\ holdings' = [holdings EXCEPT ![u] = @ \ {t}]
    /\ channel' = [channel EXCEPT ![u][v] = Append(@, t)]
    /\ UNCHANGED minted

Receive(v, u) ==
    /\ channel[u][v] # <<>>
    /\ holdings' = [holdings EXCEPT ![v] = @ \cup {Head(channel[u][v])}]
    /\ channel' = [channel EXCEPT ![u][v] = Tail(@)]
    /\ UNCHANGED minted

Next ==
    \/ Mint
    \/ \E u \in Users, t \in Token : Burn(u, t)
    \/ \E u, v \in Users, t \in Token : Send(u, v, t)
    \/ \E u, v \in Users : Receive(v, u)

Spec == Init /\ [][Next]_registry
=============================================================================
