-------------------------- MODULE ConfirmationGate --------------------------
(***************************************************************************)
(* From a request to a running job in session.py: what is held until the   *)
(* user confirms it, by voice or with a button, what is admitted under the *)
(* limits of orchestration/concurrency.py, and how it gets to an agent.    *)
(*                                                                         *)
(* A request, a spoken answer, a correction and the button's coroutine run *)
(* without suspending up to the dispatch, so each is one step.  An         *)
(* admitted dispatch then waits for the hub's lock, in a task of its own   *)
(* or in the button's, and its job counts as active only after that.  Two  *)
(* kinds of job never ask for admission: what an agent asks another, and   *)
(* what the hub starts to have a result put into words.                    *)
(* brain.py has the same gate (brain.py:964-1050, 1113-1165).              *)
(***************************************************************************)
EXTENDS Integers, Sequences, FiniteSets

CONSTANTS
    Agents,      \* agents of the bridge
    NoAgent,     \* of a dispatch that has not been made
    Tasks,       \* what a user may ask for
    GlobalCap,   \* global_cap
    HarnessCap,  \* harness_cap, the same for every agent here
    LoopLimit,   \* AGENT_CONFIRM_LOOP_LIMIT
    MaxTokens,   \* bound: confirmations ever held
    Work,        \* bound: identities of the dispatches ever made
    MaxClicks    \* bound: clicks that have not been handled

ASSUME GateAssumption == /\ NoAgent \notin Agents
                         /\ GlobalCap \in Nat \ {0} /\ HarnessCap \in Nat \ {0}
                         /\ LoopLimit \in Nat
                         /\ MaxTokens \in Nat /\ MaxClicks \in Nat
                         /\ IsFiniteSet(Work) /\ Tasks # {}

VARIABLES
    held,    \* _pending_confirmations, in the order of insertion
    tokens,  \* _confirm_counter
    told,    \* what agent_confirm and agent_confirm_resolved said of a token
    clicks,  \* scheduled calls of _resolve_confirmation()
    work,    \* dispatches and the jobs that came of them
    streak   \* _agent_confirm_streak

vars == <<held, tokens, told, clicks, work, streak>>

Tokens == 1 .. MaxTokens
NoToken == 0
Decisions == {"approve", "deny"}

\* A task's text: plain while it is just what the user said; with a correction,
\* a note or around it a context package it is like no other.  The note says
\* that the user has confirmed.  notes counts the last of them, those that came
\* in a row: since is what its agent had ended otherwise when the last one came.
Texts == [task : Tasks, plain : BOOLEAN, notes : Nat, since : SUBSET Work]
Fresh(t) == [task |-> t, plain |-> TRUE, notes |-> 0, since |-> {}]
Entries == [token : Tokens, agent : Agents, text : Texts]

\* admitted: on the way to the hub; refused: the hub started nothing; restarting:
\* waits for the cancel of the job it replaces; asking, ending: the job is over
\* and not yet announced; asked, done: announced as a request to confirm, or
\* not.  named: the user named the agent; alone: it was admitted, and nothing
\* else was on the way then; both are forgotten when it is over.
Statuses == {"admitted", "refused", "restarting", "active",
             "asking", "ending", "asked", "done"}
Dispatches == [status : Statuses, agent : Agents, named : BOOLEAN, alone : BOOLEAN,
               token : Tokens \cup {NoToken}, text : Texts]

\* Not made yet.
Nowhere == [status |-> "none", agent |-> NoAgent, named |-> FALSE, alone |-> FALSE,
            token |-> NoToken,
            text |-> Fresh(CHOOSE t \in Tasks : TRUE)]

TypeOK ==
    /\ held \in Seq(Entries)
    /\ tokens \in 0 .. MaxTokens
    /\ told \in [Tokens -> {"nothing", "held"} \cup Decisions]
    /\ clicks \subseteq Tokens \X Decisions
    /\ work \in [Work -> Dispatches \cup {Nowhere}]
    /\ streak \in [Agents -> Nat]

Init ==
    /\ held = <<>> /\ tokens = 0
    /\ told = [k \in Tokens |-> "nothing"]
    /\ clicks = {}
    /\ work = [w \in Work |-> Nowhere]
    /\ streak = [a \in Agents |-> 0]

-----------------------------------------------------------------------------
(* Admission.                                                               *)

Active == {w \in Work : work[w].status = "active"}
OnTheWay == {w \in Work : work[w].status \in {"admitted", "restarting"}}
JobsOf(a) == {w \in Active : work[w].agent = a}

\* The jobs of a that ended otherwise than with a request to confirm, announced.
EndsOf(a) == {w \in Work : work[w].status = "done" /\ work[w].agent = a}

\* What is made of a text: by a correction, and by an approval that agent a asked for.
Revised(e) == [e EXCEPT !.text.plain = FALSE]
Noted(a, text) == [task |-> text.task, plain |-> FALSE, since |-> EndsOf(a),
                   notes |-> IF text.since = EndsOf(a) THEN text.notes + 1 ELSE 1]

\* Texts that normalize_task() maps to the same words.
SameWords(s, t) == s.plain /\ t.plain /\ s.task = t.task

\* ConcurrencyGuard.admit(), through admit() or admit_by_task().
RoomForOneTooMany(a, text) ==
    /\ Cardinality(Active) <= GlobalCap
    /\ Cardinality(JobsOf(a)) <= HarnessCap
    /\ \A w \in Active : ~SameWords(work[w].text, text)
HasRoom(a, text) ==
    /\ Cardinality(Active) < GlobalCap
    /\ Cardinality(JobsOf(a)) < HarnessCap
    /\ \A w \in Active : ~SameWords(work[w].text, text)

\* The next dispatch is d.
NewWork(w, d) ==
    /\ work[w].status = "none"
    /\ work' = [work EXCEPT ![w] = d]

\* w is over.
Ends(w, status) == work' = [work EXCEPT ![w].status = status, ![w].named = FALSE,
                                        ![w].alone = FALSE]

Admitted(a, text, named, token) ==
    [status |-> "admitted", agent |-> a, named |-> named, alone |-> OnTheWay = {},
     token |-> token, text |-> text]

\* _delegate_ack_ex() with a task that needs no confirmation: the hub will
\* choose the agent unless the user named it.
Delegate(a, t, named) ==
    LET text == Fresh(t) IN
      /\ HasRoom(a, text)
      /\ \E w \in Work : NewWork(w, Admitted(a, text, named, NoToken))
      /\ UNCHANGED <<held, tokens, told, clicks, streak>>

\* _start_agent_task(), the Delegate button, or a retry after a failure: not held,
\* and started at once, with or without some of the conversation; or it fails.
DelegateDirectly(a, t, status, plain) ==
    LET text == Fresh(t) IN
      /\ HasRoom(a, text)
      /\ \E w \in Work :
            NewWork(w, [Admitted(a, text, TRUE, NoToken) EXCEPT !.status = status,
                                                                !.text.plain = plain])
      /\ UNCHANGED <<held, tokens, told, clicks, streak>>

\* A job that nobody admits: no matter what runs or is on the way.
Unasked(a, text) ==
    /\ \E w \in Work : NewWork(w, [status |-> "active", agent |-> a, named |-> TRUE,
                                   alone |-> FALSE, token |-> NoToken, text |-> text])
    /\ UNCHANGED <<held, tokens, told, clicks, streak>>

\* _handle_consult(): the agent of w asks another one (agent_bridge.py:1988).
Consults(w, a) ==
    /\ w \in Active /\ a # work[w].agent
    /\ Unasked(a, [Fresh(work[w].text.task) EXCEPT !.plain = FALSE])

\* _request_agent_presentation() of the hub, which has handled the end of w: the
\* same agent is to put its result into words (conversation_hub/service.py:597).
Presents(w) ==
    /\ work[w].status \in {"asking", "ending", "asked", "done"}
    /\ Unasked(work[w].agent, [work[w].text EXCEPT !.plain = FALSE])

\* handle_turn() of the hub: a named agent gets the job, else the hub selects
\* one; or it starts nothing.  The job's task is the rendered context package
\* (control_plane/adapters/cli.py:91).
Arrives(w) ==
    /\ work[w].status = "admitted"
    /\ \/ \E a \in Agents, status \in {"active", "ending"} :
             /\ work[w].named => a = work[w].agent
             /\ work' = [work EXCEPT ![w].status = status, ![w].agent = a,
                                     ![w].text.plain = FALSE]
       \/ Ends(w, "refused")
    /\ UNCHANGED <<held, tokens, told, clicks, streak>>

-----------------------------------------------------------------------------
(* Confirmations.                                                           *)

\* A fresh token holds this text for this agent, after those held already.
Holds(a, text) ==
    /\ tokens < MaxTokens
    /\ tokens' = tokens + 1
    /\ held' = Append(held, [token |-> tokens + 1, agent |-> a, text |-> text])
    /\ told' = [told EXCEPT ![tokens + 1] = "held"]

\* _delegate_ack_ex() with a task that must be confirmed.
Hold(a, t) ==
    /\ Holds(a, Fresh(t))
    /\ UNCHANGED <<clicks, work, streak>>

\* The entry at i is resolved: approved, it is dispatched to the agent that the
\* prompt named, or there is no room and it is gone.
LeftInPlace(i) == held
Popped(i) == [n \in 1 .. Len(held) - 1 |-> held[IF n < i THEN n ELSE n + 1]]

Resolve(i, decision) ==
    LET e == held[i] IN
      /\ held' = Popped(i)
      /\ told' = [told EXCEPT ![e.token] = decision]
      /\ IF decision = "approve" /\ HasRoom(e.agent, e.text)
         THEN \E w \in Work : NewWork(w, Admitted(e.agent, e.text, TRUE, e.token))
         ELSE UNCHANGED work
      /\ UNCHANGED <<tokens, streak>>

\* _maybe_consume_confirmation(): a spoken yes or no is about the newest entry.
SpokenAnswer(decision) ==
    /\ held # <<>>
    /\ Resolve(Len(held), decision)
    /\ UNCHANGED clicks

\* approve_agent_task() and deny_agent_task() schedule the coroutine; the button
\* goes when the token is resolved, a click that was made before does not.
Click(k, decision) ==
    /\ told[k] = "held"
    /\ Cardinality(clicks) < MaxClicks
    /\ clicks' = clicks \cup {<<k, decision>>}
    /\ UNCHANGED <<held, tokens, told, work, streak>>

\* _resolve_confirmation() up to its dispatch; nothing happens if the token is
\* gone.
Answers(k, decision) ==
    IF \E i \in DOMAIN held : held[i].token = k
    THEN \E i \in DOMAIN held : held[i].token = k /\ Resolve(i, decision)
    ELSE UNCHANGED <<held, tokens, told, work, streak>>

ClickRuns(k, decision) ==
    /\ <<k, decision>> \in clicks
    /\ clicks' = clicks \ {<<k, decision>>}
    /\ Answers(k, decision)

\* _handle_task_correction(): the newest entry is revised and held on under its
\* token.
Revise ==
    /\ held # <<>>
    /\ held' = [held EXCEPT ![Len(held)] = Revised(held[Len(held)])]
    /\ UNCHANGED <<tokens, told, clicks, work, streak>>

\* With nothing held, replace_latest() cancels a job and starts it again when
\* the cancel has returned; no admission in between.
Replace(w) ==
    /\ held = <<>> /\ w \in Active
    /\ \E v \in Work :
         /\ work[v].status = "none"
         /\ work' = [work EXCEPT ![w].status = "ending", ![w].named = FALSE, ![w].alone = FALSE,
                                 ![v] = [work[w] EXCEPT !.status = "restarting", !.named = TRUE,
                                                        !.alone = FALSE, !.token = NoToken,
                                                        !.text.plain = FALSE]]
    /\ UNCHANGED <<held, tokens, told, clicks, streak>>

Restarts(w, status) ==
    /\ work[w].status = "restarting"
    /\ work' = [work EXCEPT ![w].status = status]
    /\ UNCHANGED <<held, tokens, told, clicks, streak>>

-----------------------------------------------------------------------------
(* The end of a job.                                                        *)

\* It has done its task, failed or was cancelled; or it is done and all it says
\* is that it wants a confirmation.
JobEnds(w, how) ==
    /\ w \in Active
    /\ Ends(w, how)
    /\ UNCHANGED <<held, tokens, told, clicks, streak>>

\* _announce_agent_job() of any other end: done, failed or cancelled.
AnnounceEnd(w) ==
    /\ work[w].status = "ending"
    /\ Ends(w, "done")
    /\ streak' = [streak EXCEPT ![work[w].agent] = 0]
    /\ UNCHANGED <<held, tokens, told, clicks>>

\* The streak so far, counting this request; or forgotten with each job.
Forgotten(a) == 1
Counted(a) == streak[a] + 1

\* _hold_agent_confirmation(): hold the task again, with a note, unless its
\* agent has asked too often.
AnnounceRequest(w) ==
    LET a == work[w].agent IN
      /\ work[w].status = "asking"
      /\ Ends(w, "asked")
      /\ streak' = [streak EXCEPT ![a] = Counted(a)]
      /\ IF Counted(a) > LoopLimit
         THEN UNCHANGED <<held, tokens, told>>
         ELSE Holds(a, Noted(a, work[w].text))
      /\ UNCHANGED clicks

-----------------------------------------------------------------------------
Next ==
    \/ \E a \in Agents, t \in Tasks :
         \/ Hold(a, t)
         \/ \E b \in BOOLEAN : Delegate(a, t, b)
         \/ \E b \in BOOLEAN, status \in {"active", "ending"} : DelegateDirectly(a, t, status, b)
    \/ \E d \in Decisions :
         \/ SpokenAnswer(d)
         \/ \E k \in Tokens : Click(k, d) \/ ClickRuns(k, d)
    \/ Revise
    \/ \E w \in Work :
         \/ Arrives(w) \/ Replace(w)
         \/ \E status \in {"active", "ending"} : Restarts(w, status)
         \/ \E a \in Agents : Consults(w, a)
         \/ Presents(w)
         \/ \E how \in {"asking", "ending"} : JobEnds(w, how)
         \/ AnnounceEnd(w) \/ AnnounceRequest(w)

Spec == Init /\ [][Next]_vars

-----------------------------------------------------------------------------
(* Properties.                                                              *)

\* A held task is dispatched only after the user approved its very token, and
\* once, although a spoken answer, several clicks and new confirmations come in
\* any order; what was denied, or is still held, never runs (session.py:1450-1487
\* and 1721-1754).
ApprovedOnce ==
    \A k \in Tokens :
       LET runs == {w \in Work : work[w].token = k} IN
         /\ Cardinality(runs) <= 1
         /\ runs # {} => told[k] = "approve"
         /\ told[k] = "held" <=> \E i \in DOMAIN held : held[i].token = k

\* What was said of a token once it was resolved stands, and is said once: a
\* late click neither revives nor reverses it.
VerdictStands ==
    [][\A k \in Tokens : told[k] \in Decisions => told'[k] = told[k]]_vars

\* No text gets more than LoopLimit notes in a row, that is without an ordinary end
\* of its agent announced between them, whatever else the agent does: its other
\* jobs' requests, corrections, replacements and consults do not lengthen a loop
\* ("this many times in a row with no real result in between", config.py:1016-1017,
\* session.py:2079-2081).  An end counts if it failed or was cancelled, too.
LoopIsCut ==
    /\ \A i \in DOMAIN held : held[i].text.notes <= LoopLimit
    /\ \A w \in Work : work[w].text.notes <= LoopLimit

\* The limits hold among the dispatches that were admitted while no other was on
\* the way, wherever those are now: so more jobs than a limit allows can only come
\* of admissions that overlap, of a replacement, or of jobs that nobody admits,
\* which are consults and presentations; for the limit of one agent also of a
\* choice of the hub, since the guard looked at the router's.  The docstring at
\* concurrency.py:3-8 says more, that too many jobs are "structurally impossible";
\* this is what the code does.
AdmittedKeepLimits ==
    LET alone == {w \in Active \cup OnTheWay : work[w].alone} IN
      /\ Cardinality(alone) <= GlobalCap
      /\ \A a \in Agents :
           Cardinality({w \in alone : work[w].agent = a /\ work[w].named}) <= HarnessCap

\* The gate keeps ApprovalContract: whatever answers, clicks, corrections and
\* requests come, each prompt is decided once, and what starts in its name starts
\* with the approval and stays with the agent and the task that the prompt named,
\* also when the hub chooses the agents of other dispatches (session.py:1450-1487
\* and 1721-1754, conversation_dispatch.py:38).
WishOf(e) == [agent |-> e.agent, task |-> e.text.task]
Prompts == {[token |-> held[i].token, wish |-> WishOf(held[i])] : i \in DOMAIN held}
Runs == {[token |-> work[w].token, work |-> w, wish |-> WishOf(work[w])] :
            w \in {w \in Work : work[w].token # NoToken}}

Approval == INSTANCE ApprovalContract WITH verdict <- told, prompts <- Prompts, runs <- Runs

KeepsApproval == Approval!Spec
=============================================================================
