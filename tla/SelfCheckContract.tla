------------------------- MODULE SelfCheckContract --------------------------
(***************************************************************************)
(* What the control plane promises those who ask whether an agent still    *)
(* responds, while probes fail, callers are cancelled and events come      *)
(* late: one request or one check has an agent at a time; a check whose    *)
(* outcome is told no longer runs; and the caller that started it, which   *)
(* no other caller can take for its own, finds that outcome and no other.  *)
(***************************************************************************)
CONSTANTS Agents, Callers, Checks

VARIABLES
    asking,      \* requests on the way to a check: caller and agent
    running,     \* checks that run: check and agent
    registered,  \* checks without an outcome, likewise
    waiting      \* callers that wait for a check, with the answer there is

svars == <<asking, running, registered, waiting>>

Init == asking = {} /\ running = {} /\ registered = {} /\ waiting = {}

\* An agent is reserved by a request or a check, a caller is busy with one.
Reserved(a) == \E r \in asking \cup registered : r.agent = a
Busy(c) == \E r \in asking \cup waiting : r.caller = c

Ask(c, a) ==
    /\ ~Busy(c) /\ ~Reserved(a)
    /\ asking' = asking \cup {[caller |-> c, agent |-> a]}
    /\ UNCHANGED <<running, registered, waiting>>

\* Without a check: the agent is not fit for one, or refuses it.
GiveUp(r) ==
    /\ asking' = asking \ {r}
    /\ UNCHANGED <<running, registered, waiting>>

Start(r, k) ==
    /\ \A x \in running \cup registered \cup waiting : x.check # k
    /\ asking' = asking \ {r}
    /\ running' = running \cup {[check |-> k, agent |-> r.agent]}
    /\ registered' = registered \cup {[check |-> k, agent |-> r.agent]}
    /\ waiting' = waiting \cup {[caller |-> r.caller, check |-> k, answer |-> "open"]}

Stop(k) ==
    /\ running' = running \ {k}
    /\ UNCHANGED <<asking, registered, waiting>>

\* The outcome of a check is there, for whoever waits for it.
Answered(w, k, outcome) == IF w.check = k.check THEN [w EXCEPT !.answer = outcome] ELSE w

Decide(k, outcome) ==
    /\ k \notin running
    /\ registered' = registered \ {k}
    /\ waiting' = {Answered(w, k, outcome) : w \in waiting}
    /\ UNCHANGED <<asking, running>>

\* With an outcome, or without one when it has waited long enough.
Collect(w) ==
    /\ waiting' = waiting \ {w}
    /\ UNCHANGED <<asking, running, registered>>

Crash == asking' = {} /\ running' = {} /\ registered' = {} /\ waiting' = {}

Next ==
    \/ \E c \in Callers, a \in Agents : Ask(c, a)
    \/ \E r \in asking : GiveUp(r) \/ \E k \in Checks : Start(r, k)
    \/ \E k \in running : Stop(k)
    \/ \E k \in registered, outcome \in {"responded", "failed"} : Decide(k, outcome)
    \/ \E w \in waiting : Collect(w)
    \/ Crash

Spec == Init /\ [][Next]_svars

-----------------------------------------------------------------------------
(* What the callers may conclude.                                           *)

\* An agent is reserved once, so it is pinged by one check at a time.
OnePerAgent ==
    /\ running \subseteq registered
    /\ \A x, y \in asking \cup registered : x.agent = y.agent => x = y

\* A caller waits for a check of its own, and has an answer once that is decided.
AnswersAreTrue ==
    /\ \A v, w \in waiting : v.check = w.check \/ v.caller = w.caller => v = w
    /\ \A w \in waiting : w.answer = "open" <=> \E k \in registered : k.check = w.check
=============================================================================
