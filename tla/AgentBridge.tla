---------------------------- MODULE AgentBridge ----------------------------
(***************************************************************************)
(* The life of a delegated job in remote_agent_protocol/agent_bridge.py:   *)
(* start(), the launch task behind it (the per-agent session lane, the     *)
(* launch, the output reader, the settlement, the model failover, the      *)
(* finished notification), cancel(), shutdown() and the aggregate idle     *)
(* event.  The bridge runs on one asyncio loop, so the code between two    *)
(* awaits is one step here, and pc[j] names the await job j is suspended   *)
(* at.  Agent processes take steps of their own.  Remote hosts, consults   *)
(* and Hermes session ids are left to modules of their own.                *)
(***************************************************************************)
EXTENDS Integers, Sequences, FiniteSets

CONSTANTS
    MaxJobs,          \* bound: how many jobs are ever started
    MaxKept,          \* _MAX_KEPT_JOBS
    Agents,           \* agent names a caller may ask for
    Backends,         \* those that have a configured command template
    CleanBackends,    \* those whose template has a clean-session form
    SessionAgents,    \* _HERMES_SESSION_AGENTS
    Models,           \* provider keys
    Chain,            \* _model_chains: agent -> sequence of provider keys
    InactivityTimeout,\* whether _timeout_secs > 0
    Requests,         \* bound: the start() calls that are made
    Switches,         \* bound: the models the user switches agents to
    Reports,          \* bound: the job statuses agents report in their output
    Failures,         \* bound: the provider failures agents print
    MayShutdown,      \* bound: whether shutdown() is called
    NoJob, NoModel

Jobs == 1 .. MaxJobs

ASSUME JobsAssumption == /\ MaxJobs \in Nat
                         /\ MaxKept \in Nat
                         /\ NoJob \notin Jobs
                         /\ MayShutdown \in BOOLEAN
ASSUME AgentsAssumption == /\ CleanBackends \subseteq Backends
                           /\ Backends \subseteq Agents
                           /\ SessionAgents \subseteq Agents
                           /\ Requests \subseteq [agent : Agents, clean : BOOLEAN,
                                                  internal : BOOLEAN]
                           /\ Requests # {}
ASSUME ModelsAssumption == /\ NoModel \notin Models
                           /\ Chain \in [Agents -> Seq(Models)]
                           /\ Switches \subseteq Models
                           /\ InactivityTimeout \in BOOLEAN
ASSUME OutputAssumption ==
    /\ Reports \subseteq {"running", "waiting", "blocked", "done", "failed"}
    /\ Failures \subseteq {"quota", "auth", "model_not_found", "transient"}

VARIABLES
    created,      \* jobs started so far; job ids come from one counter
    kept,         \* the keys of _jobs
    req,          \* what start() was asked for
    status,       \* AgentJob.status
    pc,           \* the await the job's task is suspended at
    proc,         \* the job's entry of _procs
    stop,         \* why _consume ended early: _quota_stopped or timed_out
    launchDone,   \* AgentJob._launch_done.is_set()
    model,        \* _model_provider, _models_tried, whether failure_kind is a failover kind,
                  \* and the models the job's commands were built with
    override,     \* _model_overrides / _model_providers
    holder,       \* _session_locks[a]: the job inside the lock
    waiters,      \* ... and the queue of its waiters
    idleNotified, \* _idle_notified
    publicWork,   \* _public_work_since_idle
    canceller,    \* the cancel() call on job j
    shutdown,     \* how far shutdown() has got
    stopping,     \* the cancel() calls shutdown() gathers, and which have begun; and the
                  \* jobs started after it listed the active ones
    awaited       \* the tasks that shutdown() waits for

taskVars == <<status, pc, proc, stop, launchDone>>
modelVars == <<model, override>>
laneVars == <<holder, waiters>>
idleVars == <<idleNotified, publicWork>>
stopVars == <<shutdown, stopping, awaited>>
registry == <<created, kept, req>>
vars == <<registry, taskVars, modelVars, laneVars, idleVars, canceller, stopVars>>

Active == {"running", "waiting", "blocked"}
Terminal == {"done", "failed", "cancelled"}

\* The awaits of a launch task, in the order a job goes through them.
Launching == {"snapshot", "briefing", "spawning"}
Streaming == {"running", "grace", "reaping"}
Reporting == {"hostcheck", "notifying"}
Pcs == {"absent", "queued", "parked", "ended", "aborted", "cut"}
         \cup Launching \cup Streaming \cup Reporting

Live(j) == proc[j] \in {"alive", "signalled"}
Reported(j) == pc[j] \in {"notifying", "ended", "cut"}
UsesLane(j) == req[j].agent \in SessionAgents /\ ~req[j].clean
ModelStates == [provider : Models \cup {NoModel}, failure : BOOLEAN,
                tried : SUBSET (Models \cup {NoModel}),
                ran : SUBSET (Models \cup {NoModel})]
ActiveJobs == {j \in kept : status[j] \in Active}

TypeOK ==
    /\ created \in 0 .. MaxJobs
    /\ kept \subseteq 1 .. created
    /\ req \in [Jobs -> Requests]
    /\ status \in [Jobs -> {"none"} \cup Active \cup Terminal]
    /\ pc \in [Jobs -> Pcs]
    /\ proc \in [Jobs -> {"none", "alive", "signalled", "dead"}]
    /\ stop \in [Jobs -> {"no", "quota", "timeout"}]
    /\ launchDone \in [Jobs -> BOOLEAN]
    /\ model \in [Jobs -> ModelStates]
    /\ override \in [Agents -> Models \cup {NoModel}]
    /\ holder \in [SessionAgents -> Jobs \cup {NoJob}]
    /\ waiters \in [SessionAgents -> Seq(Jobs)]
    /\ idleNotified \in BOOLEAN
    /\ publicWork \in BOOLEAN
    /\ canceller \in [Jobs -> {"idle", "launching", "killing", "returned"}]
    /\ shutdown \in {"no", "cancelling", "waiting", "aborting", "done"}
    /\ stopping \in [Jobs -> {"no", "call", "wait", "late"}]
    /\ awaited \subseteq Jobs

NoRequest == CHOOSE r \in Requests : TRUE
FreshModel(m) == [provider |-> m, tried |-> {}, failure |-> FALSE, ran |-> {}]

Init ==
    /\ created = 0
    /\ kept = {}
    /\ req = [j \in Jobs |-> NoRequest]
    /\ status = [j \in Jobs |-> "none"]
    /\ pc = [j \in Jobs |-> "absent"]
    /\ proc = [j \in Jobs |-> "none"]
    /\ stop = [j \in Jobs |-> "no"]
    /\ launchDone = [j \in Jobs |-> FALSE]
    /\ model = [j \in Jobs |-> FreshModel(NoModel)]
    /\ override \in [Agents -> Models \cup {NoModel}]
    /\ \A a \in Agents : Chain[a] # <<>> => override[a] # NoModel
    /\ holder = [a \in SessionAgents |-> NoJob]
    /\ waiters = [a \in SessionAgents |-> <<>>]
    /\ idleNotified = TRUE
    /\ publicWork = FALSE
    /\ canceller = [j \in Jobs |-> "idle"]
    /\ shutdown = "no"
    /\ stopping = [j \in Jobs |-> "no"]
    /\ awaited = {}

-----------------------------------------------------------------------------
(* Starting a job and entering its agent's lane.                            *)

\* start() can use the backend, in a clean session if that was asked for.
Usable(r) == r.agent \in Backends /\ (r.clean => r.agent \in CleanBackends)

\* Public work opens a burst that one all_finished event will close.
BusySilently(r) == idleNotified' = idleNotified /\ publicWork' = (publicWork \/ ~r.internal)
MarkBusy(r) ==
    /\ idleNotified' = (idleNotified /\ r.internal)
    /\ publicWork' = (publicWork \/ ~r.internal)

\* start(): the job exists, and counts as active, before its task first runs.
\* A backend that cannot be used fails the job inside the call itself.  Nothing
\* keeps a consult or a presentation from starting a job while shutdown() runs.
Start(r) ==
    LET j == created + 1 IN
    /\ created < MaxJobs
    /\ created' = j
    /\ kept' = kept \cup {j}
    /\ req' = [req EXCEPT ![j] = r]
    /\ model' = [model EXCEPT ![j] = FreshModel(override[r.agent])]
    /\ MarkBusy(r)
    /\ \/ /\ Usable(r)
          /\ status' = [status EXCEPT ![j] = "running"]
          /\ pc' = [pc EXCEPT ![j] = "queued"]
       \/ /\ ~Usable(r)
          /\ status' = [status EXCEPT ![j] = "failed"]
          /\ pc' = [pc EXCEPT ![j] = "notifying"]
    /\ stopping' = IF shutdown = "no" THEN stopping ELSE [stopping EXCEPT ![j] = "late"]
    /\ UNCHANGED <<proc, stop, launchDone, override, laneVars, canceller, shutdown, awaited>>

\* asyncio.Lock.acquire() goes through at once; and the way a job gives it back.
LaneFreeUnchecked(a) == waiters[a] = <<>>
LaneFree(a) == holder[a] = NoJob /\ waiters[a] = <<>>

LaneKept(j) == UNCHANGED holder
ReleaseLane(j) == holder' = [a \in SessionAgents |-> IF holder[a] = j THEN NoJob ELSE holder[a]]

\* _launch_done.set()
LaunchNeverOver(j) == UNCHANGED launchDone
LaunchOver(j) == launchDone' = [launchDone EXCEPT ![j] = TRUE]

\* _launch_and_run() up to its first await, for a job that takes no lane.
BeginFree(j) ==
    /\ pc[j] = "queued"
    /\ ~UsesLane(j)
    /\ pc' = [pc EXCEPT ![j] = "snapshot"]
    /\ UNCHANGED <<registry, status, proc, stop, launchDone, modelVars, laneVars, idleVars,
                   canceller, stopVars>>

\* The same for a lane that is free and has no queue: acquire() does not wait.
BeginHolding(j) ==
    LET a == req[j].agent IN
    /\ pc[j] = "queued"
    /\ UsesLane(j)
    /\ LaneFree(a)
    /\ holder' = [holder EXCEPT ![a] = j]
    /\ pc' = [pc EXCEPT ![j] = "snapshot"]
    /\ UNCHANGED <<registry, status, proc, stop, launchDone, modelVars, waiters, idleVars,
                   canceller, stopVars>>

\* And for a lane it has to wait for.  A locked lane shows the job as waiting,
\* whatever its status was; a released lane whose next waiter has not woken up
\* yet is not locked, and only queues it.
BeginParked(j) ==
    LET a == req[j].agent IN
    /\ pc[j] = "queued"
    /\ UsesLane(j)
    /\ ~LaneFree(a)
    /\ status' = IF holder[a] # NoJob THEN [status EXCEPT ![j] = "waiting"] ELSE status
    /\ waiters' = [waiters EXCEPT ![a] = Append(@, j)]
    /\ pc' = [pc EXCEPT ![j] = "parked"]
    /\ UNCHANGED <<registry, proc, stop, launchDone, modelVars, holder, idleVars,
                   canceller, stopVars>>

\* asyncio.Lock is FIFO: the first waiter wakes up and takes the released lane.
LaneGranted(j) ==
    LET a == req[j].agent IN
    /\ pc[j] = "parked"
    /\ UsesLane(j)
    /\ holder[a] = NoJob
    /\ waiters[a] # <<>>
    /\ Head(waiters[a]) = j
    /\ holder' = [holder EXCEPT ![a] = j]
    /\ waiters' = [waiters EXCEPT ![a] = Tail(@)]
    /\ pc' = [pc EXCEPT ![j] = "snapshot"]
    /\ UNCHANGED <<registry, status, proc, stop, launchDone, modelVars, idleVars,
                   canceller, stopVars>>

-----------------------------------------------------------------------------
(* _launch(): the awaits before the process exists.                         *)

\* _fail_fast(): the job fails and is reported, whatever its status was.
FailFast(j) ==
    /\ status' = [status EXCEPT ![j] = "failed"]
    /\ pc' = [pc EXCEPT ![j] = "notifying"]
    /\ UNCHANGED <<proc, launchDone>>

\* The host snapshot is in: the one place a launch looks for a cancel.
SnapshotTaken(j) ==
    /\ pc[j] = "snapshot"
    /\ pc' = [pc EXCEPT ![j] = IF status[j] = "cancelled" THEN "notifying" ELSE "briefing"]
    /\ UNCHANGED <<registry, status, proc, stop, launchDone, modelVars, laneVars, idleVars,
                   canceller, stopVars>>

\* A failover pins the model its job runs on; a first launch reads the agent's
\* model of the moment, which may no longer be the one start() noted.
Relaunched(j) == model[j].tried # {}
JobModel(j) == IF Relaunched(j) THEN model[j].provider ELSE override[req[j].agent]
Commanded(j) == [model[j] EXCEPT !.ran = @ \cup {JobModel(j)}]

\* The commons and the mailbox are ready: write the prompt file, build the
\* command, spawn; or fail because the prompt file could not be written.
Briefed(j) ==
    /\ pc[j] = "briefing"
    /\ \/ /\ FailFast(j)
          /\ UNCHANGED model
       \/ /\ pc' = [pc EXCEPT ![j] = "spawning"]
          /\ model' = [model EXCEPT ![j] = Commanded(j)]
          /\ UNCHANGED <<status, proc, launchDone>>
    /\ UNCHANGED <<registry, stop, override, laneVars, idleVars, canceller, stopVars>>

\* create_subprocess_exec() answered.  The prompt going down the child's stdin is
\* part of the step: drain() suspends for prompts of 64 KiB and more only.
Spawned(j) ==
    /\ pc[j] = "spawning"
    /\ \/ FailFast(j)
       \/ /\ proc' = [proc EXCEPT ![j] = "alive"]
          /\ status' = [status EXCEPT ![j] = IF @ = "cancelled" THEN @ ELSE "running"]
          /\ LaunchOver(j)
          /\ pc' = [pc EXCEPT ![j] = "running"]
    /\ UNCHANGED <<registry, stop, model, override, laneVars, idleVars, canceller, stopVars>>

-----------------------------------------------------------------------------
(* _consume() and _stream(): the output reader of a job with a process.     *)

\* _terminate(): a process that has exited is left alone.
Terminate(j) == proc' = [proc EXCEPT ![j] = IF @ = "alive" THEN "signalled" ELSE @]

\* _apply_status(): the reported status replaces any status but "cancelled".
ApplyAlways(j, s) == status' = [status EXCEPT ![j] = s]
Apply(j, s) == status' = [status EXCEPT ![j] = IF @ = "cancelled" THEN @ ELSE s]

\* Failures another model may fix: _MODEL_FAILOVER_KINDS.
FailoverKinds == {"quota", "auth", "model_not_found"}

NoteFailure(j, f) ==
    model' = IF f = "none" THEN model
             ELSE [model EXCEPT ![j].failure = f \in FailoverKinds]

\* A line with a status marker, which may read as a provider failure as well.
\* After a terminal one the process gets a grace period, except a session
\* agent's: it is drained to its end, since its session id comes last.
ReadMarker(j, s, f) ==
    /\ pc[j] = "running"
    /\ Apply(j, s)
    /\ NoteFailure(j, f)
    /\ pc' = IF s \in Terminal /\ req[j].agent \notin SessionAgents
             THEN [pc EXCEPT ![j] = "grace"] ELSE pc
    /\ UNCHANGED <<registry, proc, stop, launchDone, override, laneVars, idleVars,
                   canceller, stopVars>>

\* A plain line of output, from which a status that is not terminal, or no
\* status at all, is inferred.
ReadText(j, s, f) ==
    /\ pc[j] = "running"
    /\ f # "quota"
    /\ IF s = "none" THEN UNCHANGED status ELSE Apply(j, s)
    /\ NoteFailure(j, f)
    /\ UNCHANGED <<registry, pc, proc, stop, launchDone, override, laneVars, idleVars,
                   canceller, stopVars>>

\* A plain line saying that the quota is gone stops the process.  The status is
\* left to the settlement.
ReadQuota(j) ==
    /\ pc[j] = "running"
    /\ "quota" \in Failures
    /\ NoteFailure(j, "quota")
    /\ Terminate(j)
    /\ stop' = [stop EXCEPT ![j] = "quota"]
    /\ pc' = [pc EXCEPT ![j] = "reaping"]
    /\ UNCHANGED <<registry, status, launchDone, override, laneVars, idleVars,
                   canceller, stopVars>>

\* The grace period after a terminal marker is over.
GraceOver(j) ==
    /\ pc[j] = "grace"
    /\ Terminate(j)
    /\ pc' = [pc EXCEPT ![j] = "reaping"]
    /\ UNCHANGED <<registry, status, stop, launchDone, modelVars, laneVars, idleVars,
                   canceller, stopVars>>

\* The end of the output, which an agent may close before it exits.  Only the
\* reads are timed: nothing bounds the wait for the exit code.
EndOfOutput(j) ==
    /\ pc[j] = "running"
    /\ pc' = [pc EXCEPT ![j] = "reaping"]
    /\ UNCHANGED <<registry, status, proc, stop, launchDone, modelVars, laneVars, idleVars,
                   canceller, stopVars>>

\* No output for the inactivity timeout.
TimedOut(j) ==
    /\ InactivityTimeout
    /\ pc[j] = "running"
    /\ proc[j] # "dead"
    /\ Terminate(j)
    /\ model' = [model EXCEPT ![j].failure = FALSE]
    /\ stop' = [stop EXCEPT ![j] = "timeout"]
    /\ pc' = [pc EXCEPT ![j] = "reaping"]
    /\ UNCHANGED <<registry, status, launchDone, override, laneVars, idleVars,
                   canceller, stopVars>>

\* _trim_finished_jobs(): forget the oldest jobs that are not active.
AnyForgettable == kept
Forgettable == kept \ ActiveJobs
Trim ==
    LET excess == Cardinality(kept) - MaxKept
    IN  kept \ {j \in Forgettable : Cardinality({k \in Forgettable : k <= j}) <= excess}

\* The status a stream ends with when the exit code, or an error-shaped tail of
\* the output, says failed.
SettledState(j, failed) ==
    CASE status[j] \in Terminal -> status[j]
      [] status[j] \notin Terminal /\ stop[j] # "no" -> "failed"
      [] OTHER -> IF failed THEN "failed" ELSE "completed"
SettledStatus(j, failed) ==
    CASE status[j] \in Terminal -> status[j]
      [] status[j] \notin Terminal /\ stop[j] # "no" -> "failed"
      [] OTHER -> IF failed THEN "failed" ELSE "done"

\* _next_failover_model() for a job that settled as s: the first provider of
\* the chain it has neither tried nor is on.  What it is on is what start(), or
\* the last failover, noted.
Current(j) == IF model[j].provider # NoModel THEN model[j].provider ELSE override[req[j].agent]
GivenUpBefore(j) == model[j].tried
GivenUp(j) == model[j].tried \cup {Current(j)}
ChainOf(j) == Chain[req[j].agent]
Untried(j) == {i \in DOMAIN ChainOf(j) : ChainOf(j)[i] \notin GivenUp(j)}
FirstUntried(j) == CHOOSE i \in Untried(j) : \A k \in Untried(j) : i <= k
NextModel(j, s) ==
    IF req[j].internal \/ s # "failed" \/ ~model[j].failure \/ Untried(j) = {}
    THEN NoModel ELSE ChainOf(j)[FirstUntried(j)]

Replaced(j, m) == [provider |-> m, failure |-> FALSE,
                   tried |-> model[j].tried \cup {Current(j)}, ran |-> model[j].ran]

\* _stream() after the process is reaped, in one step: the status is settled,
\* and a failure that another model may fix is taken back by
\* _prepare_failover(), which relaunches the job up to its first await.
Relaunch(j, failed) ==
    LET m == NextModel(j, SettledStatus(j, failed)) IN
    /\ pc[j] = "reaping"
    /\ proc[j] = "dead"
    /\ m # NoModel
    /\ kept' = Trim
    /\ proc' = [proc EXCEPT ![j] = "none"]
    /\ stop' = [stop EXCEPT ![j] = "no"]
    /\ status' = [status EXCEPT ![j] = "running"]
    /\ model' = [model EXCEPT ![j] = Replaced(j, m)]
    /\ pc' = [pc EXCEPT ![j] = "snapshot"]
    /\ UNCHANGED <<created, req, launchDone, override, laneVars, idleVars, canceller,
                   stopVars>>

\* The same when the job is over: an agent that succeeded after a failover
\* keeps the model that worked.
Settle(j, failed) ==
    LET s == SettledStatus(j, failed) IN
    /\ pc[j] = "reaping"
    /\ proc[j] = "dead"
    /\ NextModel(j, s) = NoModel
    /\ kept' = Trim
    /\ proc' = [proc EXCEPT ![j] = "none"]
    /\ stop' = [stop EXCEPT ![j] = "no"]
    /\ status' = [status EXCEPT ![j] = s]
    /\ override' = IF s = "done" /\ model[j].tried # {} /\ model[j].provider # NoModel
                   THEN [override EXCEPT ![req[j].agent] = model[j].provider] ELSE override
    /\ pc' = [pc EXCEPT ![j] = "hostcheck"]
    /\ UNCHANGED <<created, req, launchDone, model, laneVars, idleVars, canceller,
                   stopVars>>

\* _check_host_repo() returned: the finished event goes out.
HostChecked(j) ==
    /\ pc[j] = "hostcheck"
    /\ pc' = [pc EXCEPT ![j] = "notifying"]
    /\ UNCHANGED <<registry, status, proc, stop, launchDone, modelVars, laneVars, idleVars,
                   canceller, stopVars>>

\* _emit_all_finished_if_idle()
IdleCheck ==
    /\ idleNotified' = (idleNotified \/ ActiveJobs = {})
    /\ publicWork' = (publicWork /\ (idleNotified \/ ActiveJobs # {}))

\* _notify_finished() returned: the idle check, and the end of the launch task,
\* which frees its lane and whoever waits for the launch.
Notified(j) ==
    /\ pc[j] = "notifying"
    /\ IdleCheck
    /\ LaunchOver(j)
    /\ ReleaseLane(j)
    /\ pc' = [pc EXCEPT ![j] = "ended"]
    /\ UNCHANGED <<registry, status, proc, stop, modelVars, waiters, canceller, stopVars>>

-----------------------------------------------------------------------------
(* The agent processes, the user's model switch, cancel() and shutdown().   *)

\* A process exits by itself, or from the signal (SIGTERM, then SIGKILL).
ProcessExits(j) ==
    /\ proc[j] = "alive"
    /\ proc' = [proc EXCEPT ![j] = "dead"]
    /\ UNCHANGED <<registry, status, pc, stop, launchDone, modelVars, laneVars, idleVars,
                   canceller, stopVars>>

ProcessKilled(j) ==
    /\ proc[j] = "signalled"
    /\ proc' = [proc EXCEPT ![j] = "dead"]
    /\ UNCHANGED <<registry, status, pc, stop, launchDone, modelVars, laneVars, idleVars,
                   canceller, stopVars>>

\* set_model_override(), by voice or over the API.
SwitchModel(a, m) ==
    /\ override[a] # m
    /\ override' = [override EXCEPT ![a] = m]
    /\ UNCHANGED <<registry, taskVars, model, laneVars, idleVars, canceller, stopVars>>

\* cancel() of an active job, up to its first await.  Once _launch_done is set
\* and there is no process, it returns without waiting for anything.
CancelHasty(j) == IF proc[j] # "none" THEN "killing" ELSE "returned"
CancelWait(j) == IF proc[j] # "none" THEN "killing"
                 ELSE IF launchDone[j] THEN "returned" ELSE "launching"
CancelCall(j) ==
    /\ status' = [status EXCEPT ![j] = "cancelled"]
    /\ Terminate(j)
    /\ canceller' = [canceller EXCEPT ![j] = CancelWait(j)]

Cancellable(j) == j \in ActiveJobs
Cancel(j) ==
    /\ Cancellable(j)
    /\ CancelCall(j)
    /\ UNCHANGED <<registry, pc, stop, launchDone, modelVars, laneVars, idleVars, stopVars>>

\* _launch_done was set: the process, if one was registered, is terminated.
CancelResumes(j) ==
    /\ canceller[j] = "launching"
    /\ launchDone[j]
    /\ Terminate(j)
    /\ canceller' = [canceller EXCEPT ![j] = IF proc[j] # "none" THEN "killing" ELSE "returned"]
    /\ UNCHANGED <<registry, status, pc, stop, launchDone, modelVars, laneVars, idleVars,
                   stopVars>>

\* _terminate() is over once the process it signalled is dead.
CancelReturns(j) ==
    /\ canceller[j] = "killing"
    /\ proc[j] # "signalled"
    /\ canceller' = [canceller EXCEPT ![j] = "returned"]
    /\ UNCHANGED <<registry, taskVars, modelVars, laneVars, idleVars, stopVars>>

\* shutdown(): the jobs active now will be cancelled, each by a task of its own
\* that looks at the job's status when it first runs.  Jobs started from here on
\* are not among them.
LaunchedJobs == {j \in ActiveJobs : proc[j] # "none"}
ToCancel == ActiveJobs
ShutdownBegins ==
    /\ MayShutdown
    /\ shutdown = "no"
    /\ shutdown' = "cancelling"
    /\ stopping' = [j \in Jobs |-> IF j \in ToCancel THEN "call" ELSE "no"]
    /\ UNCHANGED <<registry, taskVars, modelVars, laneVars, idleVars, canceller, awaited>>

ShutdownCancels(j) ==
    /\ stopping[j] = "call"
    /\ \/ /\ j \in ActiveJobs
          /\ CancelCall(j)
          /\ stopping' = [stopping EXCEPT ![j] = "wait"]
       \/ /\ j \notin ActiveJobs
          /\ stopping' = [stopping EXCEPT ![j] = "no"]
          /\ UNCHANGED <<status, proc, canceller>>
    /\ UNCHANGED <<registry, pc, stop, launchDone, modelVars, laneVars, idleVars, shutdown,
                   awaited>>

Over(j) == pc[j] \in {"absent", "ended", "aborted", "cut"}

\* The gather of the cancels returned; the launch tasks there are now get a bounded
\* wait.  A job that failed inside start() has none.
ShutdownWaits ==
    /\ shutdown = "cancelling"
    /\ \A j \in Jobs : /\ stopping[j] # "call"
                       /\ stopping[j] = "wait" => canceller[j] = "returned"
    /\ shutdown' = "waiting"
    /\ awaited' = {j \in 1 .. created : Usable(req[j]) /\ ~Over(j)}
    /\ UNCHANGED <<registry, taskVars, modelVars, laneVars, idleVars, canceller, stopping>>

\* Those tasks are over.  The loop goes on, and so may jobs started meanwhile.
ShutdownReturns ==
    /\ shutdown \in {"waiting", "aborting"}
    /\ \A j \in awaited : Over(j)
    /\ shutdown' = "done"
    /\ UNCHANGED <<registry, taskVars, modelVars, laneVars, idleVars, canceller, stopping,
                   awaited>>

\* The wait runs out: an agent that nobody signalled does not exit, or a launch,
\* the host's git status or a callback takes longer.  The tasks left are cancelled,
ShutdownTimesOut ==
    /\ shutdown = "waiting"
    /\ \E j \in awaited : ~Over(j)
    /\ shutdown' = "aborting"
    /\ UNCHANGED <<registry, taskVars, modelVars, laneVars, idleVars, canceller, stopping,
                   awaited>>

Doomed(j) == shutdown = "aborting" /\ j \in awaited

\* each where it is suspended: it frees its lane, or leaves the queue for it, and
\* leaves its process alone.  A spawn under way is undone by asyncio; a job whose
\* finished event is out has its callbacks cut short.
Aborted(j) ==
    LET a == req[j].agent IN
    /\ Doomed(j)
    /\ ~Over(j)
    /\ pc' = [pc EXCEPT ![j] = IF @ = "notifying" THEN "cut" ELSE "aborted"]
    /\ ReleaseLane(j)
    /\ IF pc[j] = "parked"
       THEN \E i \in DOMAIN waiters[a] :
              /\ waiters[a][i] = j
              /\ waiters' = [waiters EXCEPT
                               ![a] = SubSeq(@, 1, i - 1) \o SubSeq(@, i + 1, Len(@))]
       ELSE UNCHANGED waiters
    /\ UNCHANGED <<registry, status, proc, stop, launchDone, modelVars, idleVars, canceller,
                   stopVars>>

\* Everything was started and has ended, or the bridge is shut down.
Finished ==
    /\ \/ shutdown = "done"
       \/ created = MaxJobs /\ \A j \in Jobs : pc[j] = "ended"
    /\ UNCHANGED vars

-----------------------------------------------------------------------------
\* One turn of the launch task of job j.  Once cancelled, a task has no other turn.
Task(j) ==
    /\ ~Doomed(j)
    /\ \/ BeginFree(j) \/ BeginHolding(j) \/ BeginParked(j) \/ LaneGranted(j)
       \/ SnapshotTaken(j) \/ Briefed(j) \/ Spawned(j)
       \/ GraceOver(j)
       \/ \E failed \in BOOLEAN : Relaunch(j, failed) \/ Settle(j, failed)
       \/ HostChecked(j) \/ Notified(j)

Output(j) ==
    /\ ~Doomed(j)
    /\ \/ \E s \in Reports, f \in Failures \cup {"none"} : ReadMarker(j, s, f)
       \/ \E s \in (Reports \ Terminal) \cup {"none"}, f \in Failures \cup {"none"} :
              ReadText(j, s, f)
       \/ ReadQuota(j)
       \/ EndOfOutput(j)
       \/ TimedOut(j)

Canceller(j) == CancelResumes(j) \/ CancelReturns(j)

Shutdown ==
    \/ ShutdownBegins \/ ShutdownWaits \/ ShutdownReturns \/ ShutdownTimesOut
    \/ \E j \in Jobs : ShutdownCancels(j) \/ Aborted(j)

Next ==
    \/ \E r \in Requests : Start(r)
    \/ \E a \in Agents, m \in Switches : SwitchModel(a, m)
    \/ \E j \in Jobs : \/ Task(j) \/ Output(j)
                       \/ ProcessExits(j) \/ ProcessKilled(j)
                       \/ Cancel(j) \/ Canceller(j)
    \/ Shutdown
    \/ Finished

Spec == Init /\ [][Next]_vars

\* The event loop runs every task that is ready and its timers; a signalled
\* process dies (SIGKILL), unless the task that would see to it is aborted.
\* Nothing makes an agent exit or fall silent.
Fairness ==
    /\ \A j \in Jobs : /\ WF_vars(Task(j))
                       /\ WF_vars(proc[j] = "dead" /\ ~Doomed(j) /\ EndOfOutput(j))
                       /\ WF_vars(pc[j] # "aborted" /\ ProcessKilled(j))
                       /\ WF_vars(Canceller(j))
                       /\ WF_vars(ShutdownCancels(j))
                       /\ WF_vars(Aborted(j))
    /\ WF_vars(ShutdownWaits)
    /\ WF_vars(ShutdownReturns)
    /\ WF_vars(ShutdownTimesOut)

FairSpec == Spec /\ Fairness

\* The assumption on the environment that every agent exits in the end.
AgentsExit == \A j \in Jobs : WF_vars(ProcessExits(j))

ExitingSpec == FairSpec /\ AgentsExit

\* And the weaker one that those exit whose job has a lane, which others may wait for.
LaneAgentsExit == \A j \in Jobs : WF_vars(UsesLane(j) /\ ProcessExits(j))

LaneExitingSpec == FairSpec /\ LaneAgentsExit

-----------------------------------------------------------------------------
(* Properties.                                                              *)

\* What the host sees of a job: the refinement mapping to JobContract.
PhaseOf(j) == CASE pc[j] = "absent" -> "absent"
                [] pc[j] = "aborted" -> "abandoned"
                [] Reported(j) -> "reported"
                [] OTHER -> "open"

Contract == INSTANCE JobContract WITH
    Lanes <- SessionAgents,
    NoLane <- "none",
    Outcomes <- Terminal,
    NoOutcome <- "none",
    phase <- [j \in Jobs |-> PhaseOf(j)],
    outcome <- [j \in Jobs |-> IF Reported(j) THEN status[j] ELSE "none"],
    running <- {j \in Jobs : Live(j)},
    lane <- [j \in Jobs |-> IF pc[j] # "absent" /\ UsesLane(j) THEN req[j].agent ELSE "none"]

\* The bridge keeps the contract: each of its steps is a step of JobContract or
\* changes nothing the host sees.
KeepsContract == Contract!Spec

\* No two turns of one session agent have a process at the same time: they
\* would resume the same on-disk session (_launch_and_run, _session_locks).  Only a
\* process whose task shutdown() gave up on may go on outside its lane.
LaneExclusive ==
    \A j, k \in Jobs :
        /\ UsesLane(j) /\ UsesLane(k)
        /\ req[j].agent = req[k].agent
        /\ Live(j) /\ Live(k)
        /\ "aborted" \notin {pc[j], pc[k]}
        => j = k

\* The lane is held by a job whose task will free it, and queued for only by
\* jobs parked there, each once: no turn is lost or granted twice.
LaneConsistent ==
    \A a \in SessionAgents :
        /\ holder[a] # NoJob =>
               pc[holder[a]] \in Launching \cup Streaming \cup Reporting
        /\ {j \in Jobs : pc[j] = "parked" /\ req[j].agent = a} =
               {waiters[a][i] : i \in DOMAIN waiters[a]}
        /\ \A i, k \in DOMAIN waiters[a] : waiters[a][i] = waiters[a][k] => i = k

\* A job is reported finished with a terminal status and without a process, and
\* from then on neither output, nor a cancel, nor a failover changes that.
ReportIsFinal ==
    /\ [](\A j \in Jobs : Reported(j) => status[j] \in Terminal /\ proc[j] = "none")
    /\ [][\A j \in Jobs : Reported(j) => Reported(j)' /\ status'[j] = status[j]]_vars

\* A cancel is taken back before the job has a process, if at all: by a lane that
\* is held, which shows the turn as waiting (1567), or by a launch that fails
\* (_fail_fast).  No output still being drained, no exit code and no failover does it.
CancelOverwritten(j) ==
    status[j] = "cancelled" /\ status'[j] # "cancelled" =>
        \/ BeginParked(j) /\ holder[req[j].agent] # NoJob
        \/ pc[j] \in {"briefing", "spawning"} /\ FailFast(j)
CancelTakenBack == [][\A j \in Jobs : CancelOverwritten(j)]_vars

\* When cancel() has returned, the process it was to stop is gone for good,
\* unless the job is one that a failover has relaunched.
OnlyRelaunchEscapes ==
    \A j \in Jobs : canceller[j] = "returned" /\ Live(j) => Relaunched(j)

\* cancel() returns: it is never left waiting for a launch that has ended, nor for an
\* agent that ignores SIGTERM.  Only shutdown() giving up on the task may leave it so,
\* provided that agents with a lane exit (LaneExitingSpec): the cancel() of a turn that
\* is parked behind one that never does waits for ever (1810).
CancelAnswered ==
    \A j \in Jobs : canceller[j] \in {"launching", "killing"}
                      ~> canceller[j] = "returned" \/ shutdown = "done"

\* When every job has ended, the aggregate event of the last burst of public
\* work has been sent, whatever order the jobs, public and internal, ended in.
IdleIsNotified ==
    (created > 0 /\ \A j \in 1 .. created : pc[j] = "ended") => ~publicWork

\* A failover goes back to a model that has failed the job in one case only: the
\* user switched the agent's model after start() had noted another (1507) and
\* before the launch read it (1404).  Then what the job has given up on includes a
\* model that it never ran on.
NoModelRetried ==
    \A j \in Jobs :
        /\ Relaunched(j)
        /\ pc[j] \in {"snapshot", "briefing"}
        /\ model[j].provider \in model[j].ran
        => ~ (model[j].tried \subseteq model[j].ran)

\* A job on its first model, of an agent that does not resume a session.  Two
\* things happen to other jobs only: a lane may show a cancelled turn as waiting
\* and a session agent may go on after its terminal marker, and a failover takes
\* a failed job back.  Either way an inactive, perhaps forgotten, job is active
\* again.
Plain(j) == req[j].agent \notin SessionAgents /\ ~Relaunched(j)

\* Forgetting old jobs never forgets a plain one that is active: cancel(),
\* has_active() and shutdown() find jobs by going through _jobs.
ActiveIsKept == \A j \in Jobs : Plain(j) /\ status[j] \in Active => j \in kept

\* Every job that was started is reported, whatever queues it went through.
EveryJobReported == \A j \in Jobs : pc[j] = "queued" ~> Over(j)

\* Whose process shutdown() may leave, its "Stop every live job and reap its
\* subprocess before the loop closes" notwithstanding: a job's that a failover has
\* relaunched; one's whose cancel(), by another caller, is still at it; and one's
\* that nobody, shutdown() included, asked to stop.  The last is a session agent's,
\* or was started after shutdown() had listed the active jobs, or its agent has
\* announced the end of it and outlasts the wait.
Unasked(j) ==
    /\ canceller[j] = "idle"
    /\ \/ req[j].agent \in SessionAgents
       \/ stopping[j] = "late"
       \/ status[j] \in {"done", "failed"}
ShutdownReaps ==
    shutdown = "done" => \A j \in Jobs : Live(j) =>
        Relaunched(j) \/ canceller[j] \in {"launching", "killing"} \/ Unasked(j)

\* shutdown() returns, on the same condition: it gathers the cancel() of every active
\* job (1862), and nothing bounds that wait.
ShutdownReturned == shutdown = "cancelling" ~> shutdown = "done"

-----------------------------------------------------------------------------
(* What comments and tests of the repository say and the code does not do.  *)

\* When cancel() has returned, the process it was to stop is gone for good
\* ("cancel() is waiting on _launch_done to terminate this process").
CancelReaps == \A j \in Jobs : canceller[j] = "returned" => ~Live(j)

\* A failure that shows is one that no failover replaces.  ("nothing may see a
\* failure that a model failover is about to replace")
FailureSeenIsFinal ==
    [][\A j \in Jobs : status[j] = "failed" => status'[j] = "failed"]_vars

=============================================================================
