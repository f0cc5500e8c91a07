-------------------------- MODULE ExecutionLimiter --------------------------
(***************************************************************************)
(* The limiter of executor/worker.mjs (ExecutionLimiter) and, without the  *)
(* abort, of executor/readConcurrency.mjs (withReadSlot): at most Limit    *)
(* clients have a slot, the others wait in a queue, and whoever ends hands *)
(* its slot to the first of them.                                          *)
(*                                                                         *)
(* A client that is handed a slot runs in a later turn of the event loop,  *)
(* so "started" and "running" are two states, and an abort may come        *)
(* between.                                                                *)
(*                                                                         *)
(* A definition whose comment starts with "Faulty" is Finish with a        *)
(* plausible mistake.  No specification uses it; it shows that a property  *)
(* notices.                                                                *)
(***************************************************************************)
EXTENDS Integers, Sequences, FiniteSets, SequencesExt

CONSTANTS
    Clients,  \* vaults, or the readers of their scans
    Limit     \* maxConcurrentExecutions, or READ_RPC_LIMIT

VARIABLES
    active,    \* the slots given away
    queue,     \* the clients that wait, in order
    state      \* state[c]: resting, waiting, started or running

LimiterInit ==
    /\ active = 0
    /\ queue = <<>>
    /\ state = [c \in Clients |-> "resting"]

Become(c, from, to) == state[c] = from /\ state' = [state EXCEPT ![c] = to]

(* A free slot is taken at once.                                           *)
Take(c) ==
    /\ active < Limit
    /\ Become(c, "resting", "started")
    /\ active' = active + 1
    /\ UNCHANGED queue

Wait(c) ==
    /\ active >= Limit
    /\ Become(c, "resting", "waiting")
    /\ queue' = Append(queue, c)
    /\ UNCHANGED active

(* The awaited slot arrives.                                               *)
Go(c) ==
    /\ Become(c, "started", "running")
    /\ UNCHANGED <<active, queue>>

(* Faulty: the slot is freed, and the first in the queue is not started.   *)
FreeOnly(c) ==
    /\ state[c] = "running"
    /\ state' = [state EXCEPT ![c] = "resting"]
    /\ active' = active - 1
    /\ UNCHANGED queue

(* Faulty: the next one starts and the slot is freed as well.              *)
FreeAndHandOver(c) ==
    /\ state[c] = "running"
    /\ active' = active - 1
    /\ IF queue = <<>>
       THEN state' = [state EXCEPT ![c] = "resting"] /\ UNCHANGED queue
       ELSE state' = [state EXCEPT ![c] = "resting", ![Head(queue)] = "started"]
            /\ queue' = Tail(queue)

(* The slot passes to the first in the queue, or becomes free.             *)
Finish(c) ==
    /\ state[c] = "running"
    /\ IF queue = <<>>
       THEN state' = [state EXCEPT ![c] = "resting"]
            /\ active' = active - 1 /\ UNCHANGED queue
       ELSE state' = [state EXCEPT ![c] = "resting", ![Head(queue)] = "started"]
            /\ queue' = Tail(queue) /\ UNCHANGED active

(* Those that wait are cancelled; one that has its slot keeps it.          *)
Abort ==
    /\ queue' = <<>>
    /\ state' = [c \in Clients |-> IF state[c] = "waiting" THEN "resting" ELSE state[c]]
    /\ UNCHANGED active

-----------------------------------------------------------------------------
Holders == {c \in Clients : state[c] \in {"started", "running"}}

(* SAFETY: no slot is lost or made: as many are given away as there are    *)
(* clients that have one, never more than Limit, and nobody waits while    *)
(* one is free; the queue is exactly the waiting clients, each once.       *)
SlotsAreExact ==
    /\ active = Cardinality(Holders)
    /\ active <= Limit
    /\ queue # <<>> => active = Limit
    /\ ToSet(queue) = {c \in Clients : state[c] = "waiting"}
    /\ Len(queue) = Cardinality(ToSet(queue))
=============================================================================
