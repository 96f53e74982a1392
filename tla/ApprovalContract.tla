-------------------------- MODULE ApprovalContract --------------------------
(***************************************************************************)
(* What the user who is asked to confirm is promised, however the answer   *)
(* comes, how often and how late: the first answer to a prompt is the      *)
(* verdict; what was approved runs at most once, then at once, and it is   *)
(* the task of the prompt in the hands of the agent that the prompt named; *)
(* nothing else ever runs in the name of a prompt.                         *)
(***************************************************************************)
CONSTANTS Tokens, Work, Agents, Tasks

VARIABLES
    verdict,  \* of each token: none yet, held, approve or deny
    prompts,  \* what is asked under the tokens that are held
    runs      \* what was started under a token

avars == <<verdict, prompts, runs>>

Wishes == [agent : Agents, task : Tasks]

Init ==
    /\ verdict = [k \in Tokens |-> "nothing"]
    /\ prompts = {}
    /\ runs = {}

Ask(k, wish) ==
    /\ verdict[k] = "nothing"
    /\ verdict' = [verdict EXCEPT ![k] = "held"]
    /\ prompts' = prompts \cup {[token |-> k, wish |-> wish]}
    /\ UNCHANGED runs

\* The prompt is answered, for the first time and for good.
Resolve(p, decision) ==
    /\ verdict[p.token] = "held"
    /\ verdict' = [verdict EXCEPT ![p.token] = decision]
    /\ prompts' = prompts \ {p}

\* What was approved starts, if there is room.
Approve(p) ==
    /\ Resolve(p, "approve")
    /\ \/ UNCHANGED runs
       \/ \E w \in Work :
             /\ \A r \in runs : r.work # w
             /\ runs' = runs \cup {[token |-> p.token, work |-> w, wish |-> p.wish]}

Deny(p) ==
    /\ Resolve(p, "deny")
    /\ UNCHANGED runs

Next ==
    \/ \E k \in Tokens, wish \in Wishes : Ask(k, wish)
    \/ \E p \in prompts : Approve(p) \/ Deny(p)

Spec == Init /\ [][Next]_avars

-----------------------------------------------------------------------------
(* What the user may conclude.                                              *)

\* A token is held while its prompt is there, and there is one.
OnePrompt ==
    /\ \A k \in Tokens : verdict[k] = "held" <=> \E p \in prompts : p.token = k
    /\ \A p, q \in prompts : p.token = q.token => p = q

\* What runs under a token was approved, and is one run, which stays what it is.
RunsStand ==
    /\ [](/\ \A r \in runs : verdict[r.token] = "approve"
          /\ \A r, s \in runs : r.token = s.token \/ r.work = s.work => r = s)
    /\ [][runs \subseteq runs']_avars
=============================================================================
