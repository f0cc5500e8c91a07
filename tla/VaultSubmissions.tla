-------------------------- MODULE VaultSubmissions --------------------------
(***************************************************************************)
(* What an executor promises of one vault's broadcasts: one attempt at a   *)
(* time is open; an attempt is closed as refused only if it never is on    *)
(* the wire, and as done only if the chain included it.  An attempt of     *)
(* which neither is known stays open, and bars every other.                *)
(***************************************************************************)
CONSTANT Attempts

VARIABLES
    state,   \* state[a]: unused, open, refused or done
    wire     \* wire[a]: absent, pending, included or dropped

submissionVars == <<state, wire>>

SubmissionInit ==
    /\ state = [a \in Attempts |-> "unused"]
    /\ wire = [a \in Attempts |-> "absent"]

Open(a) ==
    /\ state[a] = "unused"
    /\ \A b \in Attempts : state[b] # "open"
    /\ state' = [state EXCEPT ![a] = "open"]
    /\ UNCHANGED wire

Close(a, as) ==
    /\ state[a] = "open"
    /\ state' = [state EXCEPT ![a] = as]
    /\ UNCHANGED wire

Refused(a) == wire[a] = "absent" /\ Close(a, "refused")

Done(a) == wire[a] = "included" /\ Close(a, "done")

Broadcast(a) ==
    /\ state[a] = "open"
    /\ wire[a] = "absent"
    /\ wire' = [wire EXCEPT ![a] = "pending"]
    /\ UNCHANGED state

Settle(a) ==
    /\ wire[a] = "pending"
    /\ \E fate \in {"included", "dropped"} : wire' = [wire EXCEPT ![a] = fate]
    /\ UNCHANGED state

SubmissionNext ==
    \E a \in Attempts : Open(a) \/ Refused(a) \/ Done(a) \/ Broadcast(a) \/ Settle(a)

SubmissionSpec == SubmissionInit /\ [][SubmissionNext]_submissionVars
=============================================================================
