---------------------------- MODULE ControlPlane ----------------------------
(***************************************************************************)
(* What RAP knows of each agent: AgentControlPlane and AgentRegistry of    *)
(* control_plane/, between an adapter that is asked and a bridge whose     *)
(* events arrive.                                                          *)
(*                                                                         *)
(* The registry's lock is never held across an await, so reading it and    *)
(* recording into it are part of the step that does so.  What suspends is  *)
(* the adapter's probe, a caller that awaits the one probe task of an      *)
(* agent, and a caller that awaits the outcome of its self-check.  Bridge  *)
(* events are ingested one by one in the order of their emission, each in  *)
(* a task of its own (session.py:2124-2129).                               *)
(***************************************************************************)
EXTENDS Integers, Sequences, FiniteSets

CONSTANTS
    Agents,     \* agents with an adapter
    NoAgent,    \* of a job that does not exist yet
    Callers,    \* who may ask for a response check at a time
    MaxJobs,    \* bound: jobs ever started
    MaxQueue,   \* bound: jobs report nothing while so many events wait
    MaxRuns     \* bound: how many processes there are

ASSUME PlaneAssumption == /\ NoAgent \notin Agents
                          /\ MaxJobs \in Nat \ {0} /\ MaxQueue \in Nat
                          /\ MaxRuns \in Nat \ {0}

VARIABLES
    probe,      \* the task in _refresh_tasks
    seen,       \* the active job the adapter found, or that the agent is missing
    newer,      \* something was observed after that
    watched,    \* agents whose probe a status question awaits
    pc,         \* what a caller does
    target,     \* the agent it wants to check
    told,       \* what the probe told it
    held,       \* the self-check whose outcome a caller may wait for
    reserved,   \* _self_check_agents
    checks,     \* _self_checks
    waiter,     \* _response_check_waiters
    obs,        \* the registry's snapshots: kept in a file
    job,        \* the bridge's jobs
    queue,      \* bridge events that wait to be ingested
    run         \* which process this is

probing == <<probe, seen, newer, watched>>
calling == <<pc, target, told, held>>
checking == <<reserved, checks, waiter>>
vars == <<probing, calling, checking, obs, job, queue, run>>

Jobs == 1 .. MaxJobs
NoJob == 0
Missing == -1

\* How a job ends: with the reply that a self-check asks for, with another one,
\* with a failure that says the model cannot answer, or in another way (cancelled,
\* too).
Done == {"exact", "other"}
Ends == Done \cup {"quota", "failed"}
EndsOf(check) == IF check THEN Ends ELSE Ends \ {"exact"}
Responses == {"unknown", "pending", "responded", "failed"}

\* claimed: a status marker of it said that it is over, and its output goes on.  lost: it is of a process that died.
JobRecords == [agent : Agents \cup {NoAgent}, check : BOOLEAN,
               status : {"none", "running", "claimed", "over", "lost"}]
\* absent: the agent is not installed (presence STOPPED).
Observations == [response : Responses, work : Jobs \cup {NoJob}, absent : BOOLEAN]
Events == [job : Jobs, says : {"running"} \cup Ends]

Alive(j) == job[j].status \in {"running", "claimed"}

TypeOK ==
    /\ probe \in [Agents -> {"none", "reading", "read", "stopping"}]
    /\ seen \in [Agents -> Jobs \cup {NoJob, Missing}]
    /\ newer \in [Agents -> BOOLEAN]
    /\ watched \subseteq Agents
    /\ pc \in [Callers -> {"idle", "checking", "waiting"}]
    /\ target \in [Callers -> Agents \cup {NoAgent}]
    /\ told \in [Callers -> {"nothing", "fit", "unfit"}]
    /\ held \in [Callers -> Jobs \cup {NoJob}]
    /\ reserved \subseteq Agents
    /\ checks \subseteq Jobs
    /\ waiter \in [Jobs -> {"none", "open", "responded", "failed"}]
    /\ obs \in [Agents -> Observations]
    /\ job \in [Jobs -> JobRecords]
    /\ queue \in Seq(Events)
    /\ run \in 1 .. MaxRuns

NothingKnown == [a \in Agents |-> [response |-> "unknown", work |-> NoJob, absent |-> FALSE]]

Init ==
    /\ probe = [a \in Agents |-> "none"]
    /\ seen = [a \in Agents |-> NoJob]
    /\ newer = [a \in Agents |-> FALSE]
    /\ watched = {}
    /\ pc = [c \in Callers |-> "idle"]
    /\ target = [c \in Callers |-> NoAgent]
    /\ told = [c \in Callers |-> "nothing"]
    /\ held = [c \in Callers |-> NoJob]
    /\ reserved = {} /\ checks = {}
    /\ waiter = [j \in Jobs |-> "none"]
    /\ obs = NothingKnown
    /\ job = [j \in Jobs |-> [agent |-> NoAgent, check |-> FALSE, status |-> "none"]]
    /\ queue = <<>>
    /\ run = 1

-----------------------------------------------------------------------------
(* Probes, and who waits for them.                                          *)

\* _refresh(): join the probe that runs, or start one.
Refresh(S) == probe' = [a \in Agents |-> IF a \in S /\ probe[a] = "none" THEN "reading"
                                                                         ELSE probe[a]]

\* get_agent_status(refresh=True) is about one agent, list_agents() about all.
Look(S) ==
    /\ Refresh(S)
    /\ watched' = watched \cup S
    /\ UNCHANGED <<seen, newer, calling, checking, obs, job, queue, run>>

\* request_response_check() reserves the agent before its first await.
Always(a) == TRUE
Unreserved(a) == a \notin reserved

RequestCheck(c, a) ==
    /\ pc[c] = "idle"
    /\ Unreserved(a)
    /\ reserved' = reserved \cup {a}
    /\ Refresh({a})
    /\ pc' = [pc EXCEPT ![c] = "checking"]
    /\ target' = [target EXCEPT ![c] = a]
    /\ UNCHANGED <<seen, newer, watched, told, held, checks, waiter, obs, job, queue, run>>

\* The users' jobs of an agent that the bridge calls active (self-checks are
\* internal and not among them), some that claimed to be done if they went on.
ActiveSets(a) ==
    LET of(s) == {j \in Jobs : job[j].agent = a /\ ~job[j].check /\ job[j].status = s} IN
      {of("running") \cup S : S \in SUBSET of("claimed")}
Oldest(S) == IF S = {} THEN NoJob ELSE CHOOSE j \in S : \A i \in S : j <= i

\* probe() of the adapter has dated its evidence; or the agent is not installed.
ProbeReads(a) ==
    /\ probe[a] = "reading"
    /\ probe' = [probe EXCEPT ![a] = "read"]
    /\ \E j \in {Oldest(S) : S \in ActiveSets(a)} \cup {Missing} : seen' = [seen EXCEPT ![a] = j]
    /\ UNCHANGED <<newer, watched, calling, checking, obs, job, queue, run>>

\* The probe of a is over: everyone who awaits it will resume with this.
Awaits(c, a) == pc[c] = "checking" /\ target[c] = a /\ told[c] = "nothing"

ProbeEnds(a, what) ==
    /\ probe' = [probe EXCEPT ![a] = "none"]
    /\ seen' = [seen EXCEPT ![a] = NoJob]
    /\ newer' = [newer EXCEPT ![a] = FALSE]
    /\ watched' = watched \ {a}
    /\ told' = [c \in Callers |-> IF Awaits(c, a) THEN what ELSE told[c]]
    /\ UNCHANGED <<pc, target, held, checking, job, queue, run>>

\* registry.observe() keeps a current observation that is newer.
Outdated(a) == FALSE
Superseded(a) == newer[a]

\* _keep_response_evidence(): a probe says nothing of the response.
Kept(a) == obs[a].response

Observed(a) == [response |-> Kept(a), work |-> IF seen[a] \in Jobs THEN seen[a] ELSE NoJob,
                absent |-> seen[a] = Missing]

ProbeRecords(a) ==
    /\ probe[a] = "read"
    /\ obs' = IF Superseded(a) THEN obs ELSE [obs EXCEPT ![a] = Observed(a)]
    /\ \/ (obs'[a].absent \/ obs'[a].work # NoJob) /\ ProbeEnds(a, "unfit")
       \/ ~obs'[a].absent /\ obs'[a].work = NoJob /\ ProbeEnds(a, "fit")

\* _record_error() for the agents in S: all that was known, but whether they are
\* there.
RecordErrors(S) == obs' = [a \in Agents |-> [obs[a] EXCEPT !.absent = @ /\ a \notin S]]

\* The probe raised or timed out.
ProbeFails(a) ==
    /\ probe[a] = "reading"
    /\ ProbeEnds(a, "unfit")
    /\ RecordErrors({a})

\* A question about S is cancelled, or list_agents() has waited long enough and
\* records that: it cancels the probes it awaits, whoever else awaits them.  What
\* they found is lost.
Stop(S) ==
    /\ probe' = [a \in Agents |-> IF a \in S THEN "stopping" ELSE probe[a]]
    /\ seen' = [a \in Agents |-> IF a \in S THEN NoJob ELSE seen[a]]
    /\ newer' = [a \in Agents |-> newer[a] /\ a \notin S]

StopsLooking(S) ==
    /\ S \subseteq watched
    /\ Stop(S)
    /\ UNCHANGED obs \/ RecordErrors(S)
    /\ UNCHANGED <<watched, calling, checking, job, queue, run>>

CancelCheck(c) ==
    /\ pc[c] = "checking"
    /\ \/ told[c] = "nothing" /\ Stop({target[c]}) /\ UNCHANGED told
       \/ told[c] = "fit" /\ told' = [told EXCEPT ![c] = "unfit"] /\ UNCHANGED <<probe, seen, newer>>
    /\ UNCHANGED <<watched, pc, target, held, checking, obs, job, queue, run>>

ProbeStops(a) ==
    /\ probe[a] = "stopping"
    /\ ProbeEnds(a, "unfit")
    /\ UNCHANGED obs

-----------------------------------------------------------------------------
(* Jobs of the bridge and their events.                                     *)

NewJob(j, a, check, status) ==
    /\ job[j].status = "none" /\ \A i \in 1 .. j - 1 : job[i].status # "none"
    /\ job' = [job EXCEPT ![j] = [agent |-> a, check |-> check, status |-> status]]

Emit(j, says) == queue' = Append(queue, [job |-> j, says |-> says])
MayReport == Len(queue) < MaxQueue

\* It is active at once, and reported as started by its launch.
UserJobStarts(a) ==
    /\ \E j \in Jobs : NewJob(j, a, FALSE, "running")
    /\ UNCHANGED <<probing, calling, checking, obs, queue, run>>

\* registry.observe() outside of a probe.
Observe(a, response, work, absent) ==
    /\ obs' = [obs EXCEPT ![a] = [response |-> response, work |-> work, absent |-> absent]]
    /\ newer' = [newer EXCEPT ![a] = probe[a] = "read"]

\* dispatch_task() of an agent that was missing: launch() finds it, what it saw is
\* recorded as it is, and the job starts or is refused.
Launches(a) ==
    /\ obs[a].absent
    /\ Observe(a, "unknown", NoJob, FALSE)
    /\ UNCHANGED job \/ \E j \in Jobs : NewJob(j, a, FALSE, "running")
    /\ UNCHANGED <<probe, seen, watched, calling, checking, queue, run>>

JobProgresses(j) ==
    /\ Alive(j) /\ MayReport
    /\ Emit(j, "running")
    /\ UNCHANGED <<probing, calling, checking, obs, job, run>>

\* A marker of the agent says that it has completed or failed: a progress event
\* with that status, and what the job's fields say by then (agent_bridge.py:2430-2460).
JobClaims(j) ==
    /\ job[j].status = "running" /\ MayReport
    /\ job' = [job EXCEPT ![j].status = "claimed"]
    /\ \E says \in EndsOf(job[j].check) : Emit(j, says)
    /\ UNCHANGED <<probing, calling, checking, obs, run>>

JobEnds(j) ==
    /\ Alive(j) /\ MayReport
    /\ job' = [job EXCEPT ![j].status = "over"]
    /\ \E end \in EndsOf(job[j].check) : Emit(j, end)
    /\ UNCHANGED <<probing, calling, checking, obs, run>>

-----------------------------------------------------------------------------
(* Self-checks.                                                             *)

\* _record_response_result()
RecordResponse(a, response, work) == Observe(a, response, work, obs[a].absent)

\* request_response_check() goes on after the probe of its agent; dispatch()
\* returns without having suspended, and recording what it did does not raise.
CheckStarts(c) ==
    /\ pc[c] = "checking" /\ told[c] = "fit"
    /\ \E j \in Jobs : LET a == target[c] IN
         /\ NewJob(j, a, TRUE, "running")
         /\ checks' = checks \cup {j}
         /\ waiter' = [waiter EXCEPT ![j] = "open"]
         /\ RecordResponse(a, "pending", j)
         /\ held' = [held EXCEPT ![c] = j]
    /\ pc' = [pc EXCEPT ![c] = "waiting"]
    /\ target' = [target EXCEPT ![c] = NoAgent]
    /\ told' = [told EXCEPT ![c] = "nothing"]
    /\ UNCHANGED <<probe, seen, watched, reserved, queue, run>>

\* The finally of request_response_check(), with no check started.
Keeps(c) == {}
GivesBack(c) == {target[c]}

Leave(c) ==
    /\ reserved' = reserved \ GivesBack(c)
    /\ pc' = [pc EXCEPT ![c] = "idle"]
    /\ target' = [target EXCEPT ![c] = NoAgent]
    /\ told' = [told EXCEPT ![c] = "nothing"]
    /\ UNCHANGED <<held, checks, waiter>>

\* The bridge refuses the job, whose failure it reports, or dispatch() raises.
CheckNotStarted(c) ==
    /\ pc[c] = "checking" /\ told[c] = "fit"
    /\ Leave(c)
    /\ RecordResponse(target[c], "failed", NoJob)
    /\ \/ \E j \in Jobs : NewJob(j, target[c], TRUE, "over") /\ Emit(j, "failed")
       \/ UNCHANGED <<job, queue>>
    /\ UNCHANGED <<probe, seen, watched, run>>

\* The agent is busy or not there, the probe failed, or somebody cancelled it.
CheckGivenUp(c) ==
    /\ pc[c] = "checking" /\ told[c] = "unfit"
    /\ Leave(c)
    /\ UNCHANGED <<probing, obs, job, queue, run>>

\* wait_for_response_check() returns the outcome or gives up after its timeout.
\* A caller that is cancelled before it calls that leaves its entry behind, for
\* nobody to read.
StopsWaiting(c) ==
    /\ pc[c] = "waiting"
    /\ waiter' = [waiter EXCEPT ![held[c]] = "none"]
    /\ pc' = [pc EXCEPT ![c] = "idle"]
    /\ held' = [held EXCEPT ![c] = NoJob]
    /\ UNCHANGED <<probing, target, told, reserved, checks, obs, job, queue, run>>

-----------------------------------------------------------------------------
(* ingest_bridge_event().                                                   *)

\* _ingest_response_check_event(): the first event that is not one of a job
\* that goes on decides the check.
AnsweredOrNot(says) == CASE says = "exact" -> "responded"
                         [] says = "failed" -> "pending"
                         [] OTHER -> "failed"
Outcome(says) == IF says = "exact" THEN "responded" ELSE "failed"

\* _complete_response_check() leaves the entry for a caller that comes later.
Dropped(j, outcome) == "none"
Resolved(j, outcome) == IF waiter[j] = "open" THEN outcome ELSE waiter[j]

\* What is given back with the check.
IfAwaited(j) == IF waiter[j] = "open" THEN {job[j].agent} ELSE {}
OfCheck(j) == {job[j].agent}

IngestCheckEvent(j, says) ==
    /\ j \in checks
    /\ \/ says = "running" /\ RecordResponse(job[j].agent, "pending", j)
          /\ UNCHANGED checking
       \/ /\ says # "running"
          /\ checks' = checks \ {j}
          /\ reserved' = reserved \ OfCheck(j)
          /\ RecordResponse(job[j].agent, Outcome(says), NoJob)
          /\ waiter' = [waiter EXCEPT ![j] = Resolved(j, Outcome(says))]

\* _job_response_evidence(): what any other job says of its agent.
Evidence(a, says) == CASE says \in Done -> "responded"
                       [] says = "quota" -> "failed"
                       [] OTHER -> obs[a].response

IngestJobEvent(j, says) ==
    /\ j \notin checks
    /\ Observe(job[j].agent, Evidence(job[j].agent, says),
               IF says = "running" THEN j ELSE NoJob, FALSE)
    /\ UNCHANGED checking

Ingest ==
    /\ queue # <<>> /\ queue' = Tail(queue)
    /\ LET e == Head(queue) IN IngestCheckEvent(e.job, e.says) \/ IngestJobEvent(e.job, e.says)
    /\ UNCHANGED <<probe, seen, watched, calling, job, run>>

-----------------------------------------------------------------------------
\* The process dies; the next one loads the registry's file, if it can be read.
Restart ==
    /\ run < MaxRuns /\ run' = run + 1
    /\ probe' = [a \in Agents |-> "none"]
    /\ seen' = [a \in Agents |-> NoJob]
    /\ newer' = [a \in Agents |-> FALSE]
    /\ watched' = {}
    /\ pc' = [c \in Callers |-> "idle"]
    /\ target' = [c \in Callers |-> NoAgent]
    /\ told' = [c \in Callers |-> "nothing"]
    /\ held' = [c \in Callers |-> NoJob]
    /\ reserved' = {} /\ checks' = {}
    /\ waiter' = [j \in Jobs |-> "none"]
    /\ job' = [j \in Jobs |-> IF job[j].status = "none" THEN job[j]
                           ELSE [job[j] EXCEPT !.status = "lost"]]
    /\ queue' = <<>>
    /\ obs' \in {obs, NothingKnown}

ProbeStep(a) == ProbeReads(a) \/ ProbeRecords(a) \/ ProbeFails(a) \/ ProbeStops(a)
CheckStep(c) == CheckStarts(c) \/ CheckNotStarted(c) \/ CheckGivenUp(c)

Next ==
    \/ \E a \in Agents : ProbeStep(a) \/ UserJobStarts(a) \/ Launches(a)
    \/ \E S \in SUBSET Agents \ {{}} : Look(S) \/ StopsLooking(S)
    \/ \E c \in Callers :
         \/ \E a \in Agents : RequestCheck(c, a)
         \/ CancelCheck(c) \/ CheckStep(c) \/ StopsWaiting(c)
    \/ \E j \in Jobs : JobProgresses(j) \/ JobClaims(j) \/ JobEnds(j)
    \/ Ingest \/ Restart

Spec == Init /\ [][Next]_vars

\* Probes have a timeout, callbacks run, and the bridge ends its jobs, which
\* MaxQueue may put off.
FairSpec == /\ Spec
            /\ \A a \in Agents : WF_vars(ProbeStep(a))
            /\ WF_vars(\E c \in Callers : CheckStep(c))
            /\ SF_vars(\E j \in Jobs : JobEnds(j))
            /\ WF_vars(Ingest)

-----------------------------------------------------------------------------
(* Properties.                                                              *)

\* However many callers ask, an agent is pinged by one self-check at a time
\* that has not claimed to be over (the comment at service.py:258-259): the
\* reservation is all that holds the second one back, since the probe does not
\* see internal jobs.
OneCheck ==
    \A a \in Agents :
       Cardinality({j \in Jobs : job[j].agent = a /\ job[j].check /\ job[j].status = "running"}) <= 1

\* An agent is reserved exactly while one request is on the way to its check or
\* one check is registered: no cancelled probe, refusal, timeout of a waiter or
\* late event leaks the reservation or gives back somebody else's.
ReservationOwned ==
    \A a \in Agents :
       LET requests == {c \in Callers : pc[c] = "checking" /\ target[c] = a}
           registered == {j \in checks : job[j].agent = a} IN
         Cardinality(requests) + Cardinality(registered) = IF a \in reserved THEN 1 ELSE 0

\* The response state of an agent is PENDING only while a check of it is
\* registered, or if one was lost with an earlier process.
PendingIsChecked ==
    \A a \in Agents :
       obs[a].response = "pending" =>
         \E j \in Jobs : /\ job[j].agent = a /\ job[j].check
                         /\ j \in checks \/ job[j].status = "lost"

\* A caller that has started a check finds its outcome whenever it looks, also
\* if the event came first (the docstring at service.py:566-573), and only then.
OutcomeIsFound ==
    \A c \in Callers :
       pc[c] = "waiting" =>
         waiter[held[c]] \in IF held[c] \in checks THEN {"open"} ELSE {"responded", "failed"}

\* A job that is over is not shown as current work once its end was ingested,
\* however long a probe that saw it running takes (registry.py:23-36).
NoGhostWork ==
    \A a \in Agents :
       LET j == obs[a].work IN
         j # NoJob /\ job[j].status = "over"
           => \E i \in DOMAIN queue : queue[i].job = j /\ queue[i].says # "running"

\* What a process knows of an agent's answers no probe, error, event or check of it
\* forgets, whatever is recorded late (service.py:704-709).  One thing does: a
\* dispatch to an agent that was missing and is there again (service.py:236-237),
\* which records what launch() saw without keeping the answers.
AnswerKept ==
    [][\A a \in Agents : run' = run /\ obs[a].response # "unknown"
                           => obs'[a].response # "unknown" \/ Launches(a)]_vars

\* The control plane keeps SelfCheckContract: whoever asks, is cancelled or gives
\* up, an agent is reserved, pinged and released once, and the caller of a check
\* finds the outcome that this check had (service.py:240-351 and 530-616).
Asking == {[caller |-> c, agent |-> target[c]] : c \in {c \in Callers : pc[c] = "checking"}}
CheckOf(j) == [check |-> j, agent |-> job[j].agent]
Pinging == {CheckOf(j) : j \in {j \in Jobs : job[j].check /\ job[j].status = "running"}}
Undecided == {CheckOf(j) : j \in checks}
Awaiting == {[caller |-> c, check |-> held[c], answer |-> waiter[held[c]]] :
               c \in {c \in Callers : pc[c] = "waiting"}}

SelfCheck == INSTANCE SelfCheckContract WITH Checks <- Jobs,
    asking <- Asking, running <- Pinging, registered <- Undecided, waiting <- Awaiting

KeepsSelfChecks == SelfCheck!Spec

\* A reservation ends.
CheckSettles == \A a \in Agents : a \in reserved ~> a \notin reserved
=============================================================================
