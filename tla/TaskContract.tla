---------------------------- MODULE TaskContract ----------------------------
(***************************************************************************)
(* What the conversation hub promises about the tasks of a conversation,   *)
(* however events repeat, agents fail and processes end: a task at work    *)
(* has an owner; it has one outcome in its whole life, which joins the     *)
(* transcript when the task settles and never otherwise; what is settled   *)
(* or interrupted stays so; and the floor goes to an agent only together   *)
(* with work of its own, and never because a result came in.               *)
(***************************************************************************)
EXTENDS Sequences

CONSTANTS Tasks, Agents, Butler, NoAgent

VARIABLES
    status,    \* of each task
    owner,     \* the agent whose task it is
    floor,     \* who speaks with the user
    outcomes   \* the tasks whose outcomes were told, in order

tvars == <<status, owner, floor, outcomes>>

Settled == {"done", "failed"}
Over == Settled \cup {"interrupted"}

Init ==
    /\ status = [t \in Tasks |-> "none"]
    /\ owner = [t \in Tasks |-> NoAgent]
    /\ floor = Butler
    /\ outcomes = <<>>

\* A turn gives the task to agent a, who takes the floor.
Work(t, a) ==
    /\ status[t] \in {"none", "active"}
    /\ status' = [status EXCEPT ![t] = "active"]
    /\ owner' = [owner EXCEPT ![t] = a]
    /\ floor' = a
    /\ UNCHANGED outcomes

\* A turn is answered by the Butler.
Yield ==
    /\ floor' = Butler
    /\ UNCHANGED <<status, owner, outcomes>>

Settle(t, end) ==
    /\ status[t] = "active"
    /\ status' = [status EXCEPT ![t] = end]
    /\ outcomes' = Append(outcomes, t)
    /\ UNCHANGED <<owner, floor>>

\* The process ended: what was at work is over without an outcome.
Interrupt ==
    /\ status' = [t \in Tasks |-> IF status[t] = "active" THEN "interrupted" ELSE status[t]]
    /\ owner' = [t \in Tasks |-> IF status[t] = "active" THEN NoAgent ELSE owner[t]]
    /\ UNCHANGED <<floor, outcomes>>

Next ==
    \/ \E t \in Tasks, a \in Agents : Work(t, a)
    \/ Yield
    \/ \E t \in Tasks, end \in Settled : Settle(t, end)
    \/ Interrupt

Spec == Init /\ [][Next]_tvars

-----------------------------------------------------------------------------
(* What the user may conclude.                                              *)

\* A task that is settled was told, once; one that is not was never told.
ToldOnce ==
    /\ \A t \in Tasks : status[t] \in Settled <=> \E i \in DOMAIN outcomes : outcomes[i] = t
    /\ \A i, k \in DOMAIN outcomes : outcomes[i] = outcomes[k] => i = k

\* What is at work is in the hands of an agent.
InHand == \A t \in Tasks : status[t] = "active" => owner[t] \in Agents

\* What is over stays over, as it was, and its owner keeps it.
OverStands ==
    [][\A t \in Tasks : status[t] \in Over => status'[t] = status[t] /\ owner'[t] = owner[t]]_tvars
=============================================================================
