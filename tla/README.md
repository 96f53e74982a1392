# Verification of the remote agent protocol

TLA+ models of the program in `src/remote_agent_protocol/`, the TLC runs that check them on
small instances, and TLAPS proofs of the results that should hold for instances of any size.
Paths below are relative to `src/remote_agent_protocol/` unless they start with `src/`.

Contents: [the system](#the-system) · [hard behaviours](#hard-behaviours) ·
[modules](#modules) · [runs](#runs) · [fairness](#fairness) · [proofs](#proofs) ·
[findings](#findings) · [known gaps](#known-gaps) · [not modelled](#not-modelled) · [plan](#plan)

## The system

A user speaks (or types) to a host program.  The host decides whether to answer itself or to
hand the request to a coding agent (Hermes, Codex, ...), which is a command-line program run as
a child process or on a remote host.  The host is one process with one `asyncio` loop; agents
are processes of their own; one JSON store per concern survives restarts.

| Component | State it keeps | Operations | What makes it correct |
|---|---|---|---|
| **Agent bridge**, `agent_bridge.py` | `_jobs`, `_procs`, `_tasks`, `_session_locks`, model overrides and chains, idle flags | `start`, `_launch`, `_consume`/`_stream`, `_prepare_failover`, `cancel`, `shutdown`, `consult` | every job is reported once, after its last process, with an outcome that stays; one process at a time in a resumed session; a cancel stands and reaps |
| **Conversation hub**, `conversation_hub/` | tasks, task owners, the floor, transcript, session bindings, all under one lock and saved after each operation | `handle_turn`, `handle_job_event`, memory and archive operations, recovery of stale tasks | an outcome is recorded once, under its own task; routing and events agree on the owner; background results do not take the floor; tasks settle |
| **Session plumbing**, `session.py`, `brain.py`, `conversation_dispatch.py` | pending confirmations, hub-dispatched jobs, newest event task of each job | `_on_agent_event`, `_announce_agent_job`, the confirmation gate, `run` | events reach the hub in order; an announcement finds the outcome; a confirmation is resolved once and loops stop |
| **Orchestration**, `orchestration/` | pending decisions, quota and telemetry logs | `admit`, `record_outcome` | concurrency limits hold between the check and the dispatch |
| **Control plane**, `control_plane/` | observations, shared probes, self-check reservations and waiters | `list_agents`, `refresh`, `self_check`, `ingest` | one probe per agent, newest observation wins, reservations are released |
| **Remote hosts**, `remote_client.py`, `remote_host.py` | stream state, bounded line queue, job id | `start`, line pump, `terminate`/`kill` | a remote job ends when its client ends it |
| **Job history and commons**, `job_store.py`, `collab.py` | JSON files | read-modify-write under a lock | no lost update |
| **Butler**, `butler/` | ledger, skills | a loop of model calls and tools | an outcome is credited to the right task |
| **Voice pipeline and speech**, `session_processors.py`, `*_tts.py`, ... | audio | – | Pipecat's |
| **Configuration, UI, diagnostics** | settings | reads | – |

How they interact:

```
 user turn ─► session ─► hub.handle_turn ─► adapter.dispatch_in_session ─► bridge.start
                 ▲            │ (under the hub's lock)                         │ task per job
                 │            ▼                                                ▼
            announcement   store.save                               agent process (stdout)
                 ▲            ▲                                                │
                 │            │ (under the hub's lock)                         ▼
                 └── bridge callback: one asyncio task per event ◄── _notify/_notify_finished
```

The bridge calls back into the session for every event of a job; the session wraps each call
of `hub.handle_job_event` in a task of its own, so events queue for the hub's lock together
with user turns.  The hub, in turn, may start another job (a "presentation") while it holds
that lock.

## Hard behaviours

Nothing here is parallel in the sense of threads, but every `await` lets anything else run:

* a job's launch has three awaits before its process exists, and `cancel()`, `shutdown()`, a
  model switch or another job of the same lane may come in at each;
* a settlement can take a failure back and relaunch the job under the same id (failover), while
  its callers look at the status and at `_procs`;
* `asyncio.Lock` is fair but not atomic: between a release and the wake-up of the next waiter,
  the lock is not locked and not free;
* the hub reads the world under its lock, but the bridge moves on while a handler awaits;
* events are delivered by separate tasks, and terminal events may be delivered again;
* job ids restart at 1 in each process, while the store keeps the ids of an earlier one;
* a remote job ends on two machines, which tell each other over a connection that may stall or
  break between any two events.

`PROJECT.json` lists each of these hazards with the line where it bites and the property that
watches it, or the reason why none does yet.

## Modules

| Module | What it is |
|---|---|
| `AgentBridge` | the life of delegated jobs in `agent_bridge.py` |
| `AgentBridgeProofs` | type correctness, lane exclusion, finality of reports; the bridge implements `JobContract` |
| `AgentBridgeInvariants` | the other safety properties: lanes, bursts, failover, cancel, history, shutdown, outcomes and cancels that show |
| `ConversationHub` | tasks, owners, floor, transcript, lists of active tasks and restart of `conversation_hub/` |
| `ConversationHubProofs` | type correctness and all safety properties of the hub; it implements `TaskContract` |
| `SessionBindings` | the physical sessions behind the hub's channels, `conversation_hub/sessions.py` |
| `SessionBindingsProofs` | type correctness and all safety properties of the bindings; they implement `SessionContract` |
| `ControlPlane` | probes, self-checks and observations of `control_plane/` |
| `ControlPlaneProofs` | type correctness and all safety properties of the control plane; it implements `SelfCheckContract` |
| `ConfirmationGate` | confirmations of `session.py` and the limits of `orchestration/concurrency.py` |
| `ConfirmationGateProofs` | type correctness and all passing properties of the gate; it implements `ApprovalContract` |
| `RemoteJob` | one job on another machine: `remote_client.py`, `remote_host.py`, the stream between them |
| `RemoteJobProofs` | type correctness and all safety properties of a remote job; its handle implements `ProcessContract` |
| `JobContract`, `TaskContract`, `SessionContract`, `SelfCheckContract`, `ApprovalContract`, `ProcessContract` | what a component promises, whatever it does internally |
| `ContractProofs` | what follows from each contract alone |
| `MCAgentBridge`, `MCConversationHub`, ... | constants for TLC |

### AgentBridge

The loop runs one coroutine at a time, so the code between two awaits is one step, and `pc[j]`
names the await at which the launch task of job `j` is suspended:

| `pc` | suspended in |
|---|---|
| `queued` | not yet run: the task was created by `start()` |
| `parked` | `acquire()` of the session lane (`_launch_and_run`, 1574) |
| `snapshot`, `briefing`, `spawning` | the awaits of `_launch` before a process exists: host snapshot (1650), commons and mailbox (1693), `create_subprocess_exec` (1747) |
| `running`, `grace`, `reaping` | reading output, the grace period after a terminal marker (2064), the wait for the exit code |
| `hostcheck`, `notifying` | the check of the host's repository, the finished callbacks |
| `ended`, `aborted`, `cut` | the task is over; `shutdown()` cancelled it; `shutdown()` cancelled it in its finished callbacks |

| Variable | In the code |
|---|---|
| `created`, `kept`, `req` | the id counter, the keys of `_jobs`, the arguments of `start()` |
| `status`, `model` | `AgentJob.status`; `_model_provider`, `_models_tried`, whether `failure_kind` warrants a failover, and (history) the models the job's commands were built with |
| `proc` | the entry in `_procs` and the state of that process: `none`, `alive`, `signalled`, `dead` |
| `stop` | `_quota_stopped` or a timeout |
| `launchDone` | `_launch_done.is_set()` |
| `override` | `_model_providers` and `_model_overrides`, changed together by the user and by a failover that worked |
| `holder`, `waiters` | the `asyncio.Lock` of each session agent and its FIFO of waiters |
| `idleNotified`, `publicWork` | `_idle_notified`, `_public_work_since_idle` |
| `canceller`, `shutdown`, `stopping` | the `cancel()` call on a job and the await it is at; progress of `shutdown()` and of the cancels it gathers, and (history) which jobs were started after it listed the active ones |
| `awaited` | the tasks of line 1863 |

Actions: `Start`; `BeginFree`, `BeginHolding`, `BeginParked`, `LaneGranted` (entering the lane);
`SnapshotTaken`, `Briefed`, `Spawned` (launch, with `FailFast` for `_fail_fast`); `ReadMarker`,
`ReadText`, `ReadQuota`, `EndOfOutput`, `TimedOut`, `GraceOver` (output reader); `Relaunch` and
`Settle` (settlement with and without a failover); `HostChecked`, `Notified`; `SwitchModel`;
`Cancel`, `CancelResumes`, `CancelReturns`; `ShutdownBegins`, `ShutdownCancels`,
`ShutdownWaits`, `ShutdownReturns`, `ShutdownTimesOut` and, for each task it then gives up on,
`Aborted`; and the environment, `ProcessExits` and `ProcessKilled`.

`start()` notes the agent's provider (1507); the command is built from the agent's model arguments
when the launch gets there (`_job_model_args`, 1404), "so a switch made while the job waited
counts".  `JobModel` is what the command names, `Current` what a failover takes for it (1417).

Nothing keeps `start()`, `cancel()` or a model switch away from a bridge that is shutting down: the
line of an agent still being drained may start a consult (1988), and the hub a presentation
(`conversation_hub/service.py:597`).  `shutdown()` works on lists: the jobs that are active when it
begins (1861) and the tasks there are when their cancels have returned (1863).  Its bounded wait
(1866) may run out on anything a task may be in, not only on a process; `Aborted` is what the
cancellation of a task does at each await.

One await is merged with the spawn before it: the prompt's way down the child's stdin
(1775-1777), which suspends for prompts of 64 KiB and more only.

What an agent prints is reduced to what the bridge makes of a line: the reported status, and
whether it reads as a provider failure and of which kind.  Whether the exit code or the tail of
the output says "failed" is a free choice of the settlement.

### ConversationHub

All public operations of the hub run under one `asyncio.Lock` and save before they release it.
A step is therefore one whole operation, and `queue` is the FIFO of callers of the lock.  Only
three kinds of callers await anything while they hold it (a user turn, a machine-only result and
a failed one, for a dispatch or the registry); while another kind is at the head nothing
else can happen, which is `Yielding`.  A dispatch that takes effect in the middle of such a
handler is placed at its end: the lock hides the hub's state, and the job it starts cannot
report through the hub before the lock is free.

| Variable | In the code |
|---|---|
| `task` | `_tasks`: status, agent, `attempt_id`, whether a presentation was requested |
| `owner`, `floor` | `_floor_state.task_owner_by_id`, `floor_channel_id` |
| `listed` | `active_task_ids` of each agent's channel |
| `turns` | the agents' turns in the transcript, with a history note of which process and job they came from |
| `run`, `job`, `started`, `asked` | the current process, the jobs its bridge started, the turns asked in all processes |
| `routed`, `tracked`, `narrated` | `_hub_dispatched_jobs`, the keys of `_hub_job_event_tasks`, what was spoken |

Actions: `UserTurn` and `HandleTurn` (`Dispatch`, `DispatchFails`, `Respond`); `JobProgresses`,
`JobEnds`, `Redeliver` (the bridge as a source of events; a progress event may say that the job is
done or has failed, as a marker makes it, `agent_bridge.py:2430-2460`) and `HandleJobEvent` (with
`HandleOutcome`, `HandleFallback`, `Present`, `Record`); `NewChapter`; `Announce`; `Restart`
(`_resolve_stale_tasks`).  Which grammar rule of `floor.py` a sentence triggers is a free choice;
`Decisions` is the set of agents and tasks any rule can yield in the present state.  Whether it
dispatches or not, a turn that names a task registers that task's job for the announcement
(`RouteOf`, `conversation_dispatch.py:59-64`).

A process restart loses the jobs and everything in memory.  The store writes to a temporary
file and renames it, so what the next process reads is a state between two operations.

### SessionBindings

The hub talks to a harness in a session that it names in its store, and it must not use a
session again that a failed or cancelled request may have left half-way.  Calls on one channel
hold the channel's lock, so `phase[c]` is the await at which the one call of channel `c` is
suspended; the code between two awaits is one step, in which every write may fail.

| Variable | In the code |
|---|---|
| `binding`, `stored` | `_bindings` of the manager; the bindings in the store's file |
| `phase`, `call` | the await of the lock's holder (`creating`, `proving`, `validating`, `dispatching`); whether it is `ensure_binding`, `rotate`, `dispatch` or the recovery of a pending rotation |
| `fresh` | a new native binding while it is validated |
| `ids`, `run`, `resumes` | ids handed out; the process; the channels whose adapter resumes native sessions in this process |
| `proved`, `spent`, `doubtful` | history: validated here; given up, with that written down; given up, the write having failed |

Actions: `Ensure` (`ensure_binding` and the first half of `dispatch`), `Rotate`, `Created`,
`Proved`, `Validated`, `NotValidated`, `GivesUp`, `DispatchReturns`, `DispatchFails` (an error or
a cancellation), `HubSaves` (any other save of the hub, which writes the same table) and
`Restart`.  `_persist_binding` ignores the binding it is given and writes the manager's table,
which `_save` updates only afterwards, so `StoreSnapshot` is one binding behind; `ReadyAfterSave`
is the second write that makes up for it before a session is used.

With the adapters that ship today every agent rehydrates; the model keeps the native strategy,
which the code supports, for the agents in `NativeAgents`.

### ControlPlane

The registry's lock is never held over an await.  What suspends is the adapter's probe, a caller
that awaits the one shared probe of an agent, and a caller that awaits the outcome of its
self-check.

| Variable | In the code |
|---|---|
| `probe`, `seen`, `newer` | the task in `_refresh_tasks`, the job it has read or that the agent is not installed, whether an observation is newer than its date |
| `watched` | the agents whose probe a status question (`get_agent_status`, `list_agents`) awaits |
| `pc`, `target`, `told`, `held` | where a caller of `request_response_check` is, its agent, what the probe told it, the check it may wait for |
| `reserved`, `checks`, `waiter` | `_self_check_agents`, `_self_checks`, `_response_check_waiters` |
| `obs` | the registry's snapshots, reduced to the response state, the current work and whether the agent is missing; kept in a file |
| `job`, `queue`, `run` | the bridge's jobs, its events that wait to be ingested, the process |

Actions: `Look`, `StopsLooking`; `RequestCheck`, `CancelCheck`, `CheckStarts`, `CheckNotStarted`,
`CheckGivenUp`, `StopsWaiting`; `ProbeReads`, `ProbeRecords`, `ProbeFails`, `ProbeStops`; the
bridge as `UserJobStarts`, `JobProgresses`, `JobClaims`, `JobEnds`; `Launches`; `Ingest`; `Restart`.

`Launches` is `dispatch_task` of an agent that was missing: it records what the adapter's `launch()`
saw as it is, without `_keep_response_evidence` (`service.py:236-237`), and so forgets what was
known of the agent's answers.  For an agent that is there `dispatch_task` records nothing, and
starting the job is `UserJobStarts`.

Callers of a status question are not told apart: `watched` is the set of agents some of them
await.  Presence and readiness are reduced to whether the agent is missing and whether a check may
start (`fit`).  Self-checks are internal jobs, which the bridge's list of active jobs does not show, so
the reservation alone keeps a second check away.  `JobClaims` is a progress event whose status is
terminal: a marker of the agent says that it is done or has failed, and its output may go on.
Recording an observation and the bridge's callbacks do not raise here, so the `finally` at
`service.py:347-351` only gives a reservation back with which nothing was started.  `wait_for` follows Python 3.12:
what is cancelled in it stays cancelled.  The entry that a caller leaves in the waiter table when
it is cancelled before it waits is taken out, since nobody can read it.

### ConfirmationGate

A risky or agent-requested task is held until the user says yes or clicks.  A request, an answer,
a correction and the button's coroutine run without suspending up to the dispatch; the admitted
dispatch then waits for the hub's lock and counts as an active job only after that.

| Variable | In the code |
|---|---|
| `held`, `tokens` | `_pending_confirmations` in the order of insertion, `_confirm_counter` |
| `told` | what `agent_confirm` and `agent_confirm_resolved` have said of a token |
| `clicks` | scheduled calls of `_resolve_confirmation()` |
| `work` | dispatches and the jobs that come of them: admitted, refused, restarting, active, ending or asking, announced |
| `streak` | `_agent_confirm_streak` |

Actions: `Hold`, `Delegate`, `DelegateDirectly` (the path without the hub), `SpokenAnswer`,
`Click` and `ClickRuns`, `Revise` (a spoken correction of what is held), `Arrives` (the hub has
started the job or refused), `Replace` and `Restarts` (`replace_latest`), `JobEnds`,
`AnnounceEnd`, `AnnounceRequest` (an agent asks in the middle of its task); and `Consults` and
`Presents`, the two ways a job starts without `admit()` (`agent_bridge.py:1988`,
`conversation_hub/service.py:597`).  The retries after a failure or a model switch do ask
(`session.py:1675`, 1695) and are `DelegateDirectly`.

Of a text the model keeps the task, whether it is just what the user said, how often in a row the
note of a confirmation was put in, and what its agent had ended otherwise by then: that is what
the guard's comparison of texts and the loop limit tell apart.  A loop is cut by the count of its
agent's requests *since its last other end*, and a failed or cancelled job is such an end, although
`config.py:1016-1017` speaks of a "real result": an agent of which other jobs end now and then is
never cut off, and `LoopIsCut` claims no more than what is in a row.  Two texts are the same only if both are plain.  In which order dispatches get the hub's
lock, and which job `replace_latest` takes for the newest one, is left open.  A click is made
while its token is shown; a late click is one that waited.  `named` and `alone` are history: the
user named the agent, and nothing else was on the way at the admission.  A correction keeps the
task in the model, so that a click made before it approves the corrected text without anyone
noticing: the code has no check for that, and no property asks for one.

`concurrency.py:3-8` says that the guard makes too many jobs "structurally impossible".  The code
does not: an admission sees neither the admitted dispatches that are still on the way nor what
the hub will choose, and consults and presentations are never admitted.  `AdmittedKeepLimits`
says what is left of it.

### RemoteJob

`AgentBridge` has processes of this machine only.  A remote host's job looks like one to it: a
`RemoteProcess` with an output, a `returncode`, `terminate()` and `kill()`.  This module has what
is behind that look, for one job: the pump that turns the event stream into lines, the two
coroutines of the bridge that may stop the process at once, the network, and the host's thread
with the agent it serves.

| Variable | In the code |
|---|---|
| `pump`, `known`, `lines`, `code` | where `_pump()` is, whether `ids` has a job id, `RemoteProcess._lines`, `returncode` by its source |
| `reader`, `stopper` | `_launch_remote` and `_stream` of the bridge; who is in `_terminate()`, and how that ended |
| `link`, `wire`, `posts` | the connection of the stream and what is in it, cancellations under way |
| `server`, `agent`, `registered`, `pipe` | the thread in `run_job()`, the agent's process, its entry in `_running`, its output |
| `dropped`, `early`, `lost` | history: entries that `_finish()` took out, whether the last `kill()` had no id, whether a cancellation was lost |

Actions of the pump: `ConnectFails`, `Refused`, `Accepted`, `ReadsEvent` (a started event, a line, an
exit), `FeedResumes` (a full buffer has room again), `StreamBreaks`, `FailureResumes`, `StreamEnds`,
`PumpEnds` (its `finally`), `PumpCollected`.  Of the bridge: `LaunchReturns`, `ReadsOutput`,
`FallsSilent`, `StopBegins`, `StopReturns`, `Kill`.  Of the network: `RequestArrives`, `LinkBreaks`,
`PostArrives`, `PostLost`.  Of the host: `LaunchFails`, `EmitsError`, `Launches`, `Announces`,
`Relays`, `Reaps`, `Reports`, `LosesPeer` (an error while a line is relayed) and `Flees` (an error
anywhere else); of the agent: `AgentPrints`, `AgentExits`, `AgentKilled`.

Lines are alike: that one of them is a terminal marker or a quota message is the reader's free
choice to stop.  A broken connection is noticed at either end at any later time or never, which
covers an end that hangs, is unplugged or was closed by the other one.

### The contracts

Each component has an abstract specification of what it promises its callers, in terms of the few
things they can see.  The component instantiates it under a refinement mapping, the
mapped specification is a property of the component's run, and a theorem says that it holds of
every instance.  The contracts know of no awaits, locks, queues or events; what follows from
one is proved once, in `ContractProofs`, and carries over to whatever implements it.

| Contract | Promise | Seen as |
|---|---|---|
| `JobContract` (`KeepsContract`, bridge) | A job is accepted once into a lane or into none, gets processes only while open and never beside another process of its lane, and is reported at most once, after its last process, with an outcome that never changes.  `Abandon` is `shutdown()` giving up on a task, whose process may go on outside the lane | `phase` follows `pc`; `outcome` is the status once reported; `running` are the jobs with a live process |
| `TaskContract` (`KeepsTaskContract`, hub) | A task at work has an owner and has one outcome in its whole life, told when it settles and never otherwise; what is over stays over; only turns move the floor, to the agent they give work or to the Butler | the tasks' `status`, `owner` and `floor`; `outcomes` are the tasks of the transcript's agent turns |
| `SessionContract` (`KeepsSessionContract`, bindings) | A request goes into sessions that the store names for its channel, that no other channel's request is in, and that were never given up; `gone` is forgotten never, `unsure` only when the process dies | `inUse` are the sessions of a channel whose dispatch is awaited; `named` those in the file; `gone` and `unsure` are `spent` and `doubtful` |
| `SelfCheckContract` (`KeepsSelfChecks`, control plane) | One request or one check has an agent at a time; a check whose outcome is told no longer runs; the caller that started it, and no other, finds that outcome | `asking` are the callers at `checking`; `running` are the check jobs that have neither ended nor claimed to be done, `registered` is `_self_checks`; `waiting` are the callers at `waiting` with their entry of the waiter table |
| `ApprovalContract` (`KeepsApproval`, gate) | The first answer to a prompt is its verdict; what was approved runs at most once, at once, as it was asked of the agent that was named | `verdict` is `told`; `prompts` are the entries of `held`; `runs` are the dispatches that bear a token |
| `ProcessContract` (`KeepsHandle`, remote job) | A process starts at most once; the first returncode stands; an exit's code says that the process has ended and a refusal's that it never starts; nobody lets go of a handle without a code.  A killed or lost handle says nothing | `there` follows `agent`; `code` is `returncode`; `held` until the reader has left |

## Runs

| Run | Instance | Shows |
|---|---|---|
| `bridge_lane` | one session agent, three turns, any of them cancelled at any time | `LaneExclusive`: one process at a time in a resumed session.  `LaneConsistent`: the lane's holder is a task that will release it and its queue holds each parked turn once.  `KeepsContract`: refinement of `JobContract`.  `EveryJobReported`, and `CancelAnswered`: `cancel()` returns, also that of a turn that is parked |
| `bridge_plain` | two jobs, each a turn of a session agent or an internal check of another agent, history of one; started and cancelled before and during a shutdown at any time | `ShutdownReturned`: it does, also with a turn parked behind another.  `ShutdownReaps`: a process that it leaves is of a job that another `cancel()` is still at or that nobody asked to stop.  `IdleIsNotified`: when the last job ends, the aggregate event of a burst of public work has come.  `ActiveIsKept`: trimming the history spares active jobs |
| `bridge_chain` | one job, of an agent with a chain of three models and three kinds of failure, of a session agent, or of an agent that lacks the form that was asked for; user switches, cancel, shutdown | `NoModelRetried`: a failover goes back to a model that failed only if the user switched between the start of the job and its launch.  `OnlyRelaunchEscapes`: a cancel that has returned left no process, unless a failover relaunched the job.  `CancelTakenBack`: nothing takes a cancel back but a held lane or a launch that fails |
| `hub_tasks` | two agents, two tasks, three jobs per process and two turns, markers, repeated events, one restart | `OutcomeOwned`: one outcome per attempt, under its task.  `OwnersAgree`, `ListedIsLive`: owner map, tasks and the channels' lists agree.  `ActiveIsAwaited`, `TaskSettles`: no task is forgotten.  `FloorNotStolen`, `PresentedOnce`.  `KeepsTaskContract`: refinement of `TaskContract` |
| `sessions` | a channel with native sessions and one without, three ids, two processes, failing writes and adapters | `DurableBeforeUse`: a request goes only into a session the file names.  `KeepsSessionContract`: nor into one that was given up, or that another channel uses.  `NativeIsProved`: a native session was validated in this process |
| `control` | one agent, two callers, two jobs, two processes | `KeepsSelfChecks`, `ReservationOwned`: one self-check at a time, found by its own caller, and no leaked reservation.  `OutcomeIsFound`: early and late outcomes reach the caller.  `PendingIsChecked`, `NoGhostWork`: what is shown of an agent is true.  `CheckSettles` |
| `gate` | two agents, two confirmations, three dispatches, limits of two and one | `KeepsApproval`: what was held runs once, as it was asked, and only if its own token was approved.  `LoopIsCut`: no more notes in a row than the limit, "in a row" being without an ordinary end of the agent announced in between.  `AdmittedKeepLimits`: what was admitted while nothing else was on the way keeps the limits |
| `remote` | one job, a line buffer and sockets of two entries, a pipe of one, two stoppers, a connection that stalls or breaks anywhere, lost cancellations | `EndIsMarked`, `LossIsBounded`: a full buffer hides no end and costs no more output than that takes.  `HostReaps`, `StopIsAccounted`: when the agent may outlive its job.  `KeepsHandle`: the bridge may hold the job as it holds a process.  `JobEnds`: this side always ends.  `KillReachesAgent`: the far side does too, unless a cancellation is lost |
| `bridge_cancel_leak`, `bridge_failure_seen`, `hub_reuse`, `hub_announce` | the smallest instance with the case | one disagreement each, see [findings](#findings) |

Why the bounds are enough to meet the interesting cases:

* Three turns are the least that make a lane's holder, a waiter at the head and a waiter behind
  it; the wake-up of the head while a fourth party asks is the same as a third turn arriving
  between the release and the wake-up.
* Two jobs and a history of one force trimming while a job is active, and a burst of public work
  in which one job ends before, with or after another.  Two are also what a shutdown needs: a turn
  parked behind another, and a job that starts after the list of active ones was made.
* A chain of three models allows two failovers and one end of the chain, with the user's switch
  to any of the three at any point before, between and after: also after `start()` has noted a
  model and before the launch reads another, where the exception of `NoModelRetried` is met.  One
  job at a time is enough, since jobs share no more than the agent's model.
* Two tasks, two agents and two turns allow a follow-up on an active task, a move to the other
  agent, ambiguity, and a turn on each side of a restart; three jobs allow a presentation in addition; two processes are
  what the reuse of job ids needs.  `MaxQueue = 1` bounds only optional callers (turns, progress,
  repetitions); last events join the lock's queue at any length.
* Each binding takes one id, so three allow a binding, one that replaces it, and one of the other
  channel or a third of the same; two processes are what validation after a restart needs.
* Two callers race for one reservation; two jobs allow a user's job and a check, or two checks.
  One agent suffices, because callers, probes and observations of different agents share
  nothing but the bridge's queue; `MaxQueue = 1` puts the reports of jobs off while an event
  waits, never the steps of callers and probes.
* Two confirmations are needed for a click on an older one while a newer one is held, three
  dispatches to exceed a limit of two, and a loop limit of one is exceeded by two requests.
* A buffer of two entries is full while a line and an end are in it, which is what a second
  `_finish()` meets; with both stoppers `_finish()` runs up to four times.  Sockets of two hold a
  line between a started and an exit event; a pipe of one makes the agent wait for the relay.

Names of bounds: `MaxJobs`, `Requests`, `Switches`, `Reports`, `Failures`, `MayShutdown`
(bridge); `MaxTasks`, `MaxJobs`, `MaxRuns`, `MaxTurns`, `MaxQueue`, `Repeats` (hub); `MaxIds`,
`MaxRuns` (sessions); `MaxJobs`, `MaxQueue`, `MaxRuns` (control plane); `MaxTokens`, `Work`,
`MaxClicks` (gate); `MaxBuffered`, `MaxWire`, `MaxPipe` (remote job).  The bridge is checked for
deadlock: `Finished` is the only stuttering state and says why the system may stop there.  The
other runs disable that check because the bounds on turns, ids, jobs and processes end their
behaviours, and because a remote job that is over stops.

`gate` is reduced by the symmetry of its agents and of its dispatches: no definition of the module
tells two of them apart, and its properties are safety.  No other run uses symmetry: chains,
requests and owners tell the agents apart, or the run checks liveness.

## Fairness

*Bridge* (`FairSpec`).  Launch tasks, cancels and the shutdown are weakly fair: the loop runs
what is ready, and the awaits inside (snapshot, commons, spawn, host check, callbacks, grace
period) have their own timeouts or end by themselves.  A signalled process dies, since
`_terminate` escalates to SIGKILL; where `shutdown()` has cancelled the task that would escalate,
nothing is assumed.  The output of a dead process comes to its end, which leaves out a child of
the agent that keeps the pipe open.  Nothing is assumed of an agent that is left alone: it may print
and run forever.

That is not enough where a turn waits for its lane: behind an agent that never exits it waits
forever without the inactivity timeout, its `cancel()` with it (1810), and the `shutdown()` that
gathers this `cancel()` (1862), since the session agent that has printed its terminal marker is not
active and nobody stops it.  `LaneExitingSpec` adds that the agents of jobs with a lane exit, under
which `cancel()` and `shutdown()` return (`CancelAnswered`, `ShutdownReturned`); `ExitingSpec` that
all agents do, under which every job is reported (`EveryJobReported`).

*Hub* (`FairSpec`).  The lock is released, so the handlers are weakly fair.  Jobs end:
`JobEnds` is strongly fair, because a handler that does not yield holds the loop for a moment
again and again, which makes the job's step unavailable while it holds it, and the event loop
gets back to the job's task each time.  That jobs end is what `EveryJobReported` of the bridge
shows under its own assumptions.

*Control plane* (`FairSpec`).  A probe has a timeout, so its steps are weakly fair for each
agent; a caller whose probe is over goes on, since the loop runs what is ready, and so do the
callbacks that ingest events.  That some job ends is strongly fair, because the bound on the
queue takes that step away while an event waits.

*Remote job* (`FairSpec`).  The client's loop runs what is ready and its timers, so the reader and an
escalation in `_terminate()` are weakly fair; a cancellation arrives or its request times out; the
host's `cancel()` kills what does not end.  Nothing is assumed of the stream or the pump: it may
stall for ever, a break need not show, and the agent need not print or exit.  So `JobEnds`
does not rest on the network.

*Session bindings* and *confirmation gate* state no fairness and no liveness: an adapter may never
return, and a user need not answer.

## Proofs

Every theorem holds for all values of its module's constants; the bounds are constants too, so
they can be as large as one likes.  The assumptions are the named ones next to the constants: the
four of `AgentBridge` say only that templates belong to agents, chains are sequences of models,
and statuses and failures are those the code knows; those of the other modules give the bounds
their types and keep special values apart from agents.

### Agent bridge

| Theorem | Says |
|---|---|
| `TypeCorrect` | `Spec => []TypeOK` |
| `LaneSafety` | `Spec => []LaneExclusive` |
| `ReportsAreFinal` | `Spec => ReportIsFinal` |
| `BridgeKeepsContract` | `Spec => KeepsContract`: every step of the bridge is a step of `JobContract` or a stutter |
| `ModelsAreFresh` | `Spec => []NoModelRetried` |
| `BurstsAreClosed` | `Spec => []IdleIsNotified` |
| `LanesAreConsistent` | `Spec => []LaneConsistent` |
| `CancelsReapLaunches` | `Spec => []OnlyRelaunchEscapes` |
| `CancelsReap` | without model chains (`NoChains`), `Spec => []CancelReaps` |
| `ActiveJobsAreKept` | `Spec => []ActiveIsKept` |
| `ShutdownsReap` | `Spec => []ShutdownReaps` |
| `ReturnsAreReaped` | `Spec => ReturnIsReaped` |
| `ShownOutcomesStand` | `Spec => OutcomeTakenBack` |
| `FailuresAreFinal` | without chains and session agents, `Spec => FailureSeenIsFinal` |
| `CancelsStandButTwice` | `Spec => CancelTakenBack` |
| `NobodyWaitsInVain` | `Spec => []NoVainWait` |

*Type correctness* needs two facts that are not immediate: a failover picks an entry of the
chain (`NextModelType`, which needs that a set of naturals has a least element), and a settled
status is terminal.

*The inductive invariant* `LaneInv`.  `LaneExclusive` speaks of processes only and says nothing
of who may start the next one.  What is inductive is the conjunction with

* `ProcessOwned`: a job with a process has a task in the streaming phase (or one that shutdown
  abandoned);
* `LaneHeld`: the task of a lane's job holds the lane from the launch to the end of streaming.
  Relaunch depends on this: the failover keeps the lane over both processes;
* `JobsInOrder`: ids are given out in order, so a new job has no task yet.

Two processes in one lane would then both hold it.  A task that `shutdown()` cancels frees its lane
and leaves its process, and a job started meanwhile may take the lane: `LaneExclusive` exempts the
processes of such tasks.  The proof goes action by action; `QuietStep`
covers the steps that move no task and no lane.

*Finality.*  `ReportIsFinal` needs, beside `LaneInv`, that a job past its settlement has a terminal
status (`Settled`), which a cancel, being for active jobs, leaves alone.

*Refinement.*  The proof first says which changes of what a host sees are steps of
the contract (`SeenAccept`, `SeenLaunch`, `SeenExit`, `SeenReport`, `SeenAbandon`) and which are
none (`UnseenMove`, `UnseenStay`), then maps each action.  `Spawned` is the interesting one:
that no other process of the lane runs, but an abandoned one, is `LaneHeld` again.

*Lanes, bursts and failover*, in `AgentBridgeInvariants`.  `LaneConsistent` is inductive together
with `LaneInv`; the work is in what a step of the FIFO does to the set of its elements
(`Queued`, `Dequeued`, and `LeftQueue` for a task cancelled in the middle of the queue).  `BurstInv`
says that public work that was not reported as over has a job that has not ended; the last one to end finds no active job, because past its settlement a job
is not active (`Settled`).  `RanInv` compares the models a job ran on with those it gave up on: a
failover pins a model that is not yet given up, so a relaunch runs on what it notes.  Only the first
launch may run on a model that was not noted; then the one that was noted, and given up on, never
ran, and that is how `NoModelRetried` names the exception.

*Cancel, history and shutdown.*  Of a job that a failover relaunched, or of a session agent's, the
code breaks what one would like to say of every job (see [known gaps](#known-gaps) and
finding 1).  The properties name these jobs instead of leaving them out of the bridge:
`Relaunched(j)` has given up a model, and a job is `Plain` if neither holds of it.  They
hold of the plain jobs of every bridge, beside any lanes, chains and relaunched jobs, and
`SameJob` says why that is a sound way to speak: no step but an acceptance or a failover changes
which jobs they are.  `ShutdownReaps` speaks of every job, and says which exception a process that
survives belongs to.

* `ReapInv`: on a job's first launch, the flag that the launch is over is up only past the launch,
  a process has it up, and a cancel that has passed its wait found it up.  A relaunch breaks the
  first part, which is all that `CancelReaps` lacks; without chains there is none
  (`NeverRelaunched`).
* `KeptInv`: before and while its output is read, a plain job is active or cancelled, and an active
  one is kept.  A lane that sets a cancelled turn to waiting breaks the second part, and a session
  agent, which is read on after its terminal marker, the first.
* `LeftInv`: once `shutdown()` waits for the launch tasks, every `cancel()` it gathers has begun.
* `StopInv`: a job is cancelled by a call of `cancel()` only, and once `shutdown()` has begun, the plain
  jobs that are active are those it has yet to cancel and those started since.  `ShutdownsReap` then
  says of a process that survives: if no failover relaunched its job, no call on it has returned
  (`ReapInv`); if no call is at it either, its job was never cancelled (`StopInv`), so it shows an
  outcome, is a session agent's, or is active and was started late (`StopInv`, `LeftInv`).
* `CalledInv` is for what `cancel()` has seen to when it returns (`ReturnsAreReaped`): outside the
  lanes, a process it has signalled is the last one of its job, which stays cancelled and so gets
  no failover.  What `OnlyRelaunchEscapes` lets pass is therefore spawned after the return, or
  belongs to a turn whose cancel its lane had taken back.

*Waiting.*  `NoVainWait` is the part of the bridge's liveness that is safety: a `cancel()` that waits
for a launch has its flag set or a task that has yet to end, unless `shutdown()` has cancelled the
task, and an ended task has set the flag (`WaitInv`); a parked turn is in the queue of a lane that is free or held by a task that will free it
(`LaneConsistent`); and each call `shutdown()` gathers was made.  That fair tasks then get there is
for TLC to check.

*Outcomes that show.*  `ShownOutcomesStand` is what remains of finding 2 for every bridge:
an outcome that shows (`done` or `failed`) is taken back only by a failover of a failed job or by
what a session agent prints after its terminal marker; no cancel, exit code, timeout or
shutdown does it.  `DecidedLate` is the invariant: no outcome shows before a job's output is
read, so nothing that a launch writes over is one.  `FailuresAreFinal` draws the conclusion for
bridges that have neither, where the property that `bridge_failure_seen` refutes holds.
`CancelsStandButTwice` says the same of cancels, of every job: the two places that overwrite one
are before a process, since a job with one is neither in front of its lane nor in a launch
(`LaneInv`), and a cancelled job gets no other model.

### Conversation hub

| Theorem | Says |
|---|---|
| `TypeCorrect` | `Spec => []TypeOK` |
| `FloorIsTheUsers` | `Spec => FloorNotStolen` |
| `OwnersNeverDiffer` | `Spec => []OwnersAgree` |
| `ListsAreLive` | `Spec => []ListedIsLive` |
| `OutcomesAreOwned` | `Spec => []OutcomeOwned` |
| `NotAskedForever` | `Spec => []PresentedOnce` |
| `ActiveIsNeverForgotten` | `Spec => []ActiveIsAwaited` |
| `SettledIsTold` | `Spec => []SettledIsRecorded` |
| `DropsAreExplained` | `Spec => DroppedIsKnown` |
| `LossesAreFromBefore` | `Spec => []LostToAnEarlierRun` |
| `HubKeepsTaskContract` | `Spec => KeepsTaskContract`: every step of the hub is a step of `TaskContract` or a stutter |

`Kinds` first says that every step but a restart is quiet, binds a task to a new job, presents,
reactivates or records one, or closes a chapter; each invariant is then shown once per kind.
`IInv` adds to the properties:

* `AttemptInv`: a task that names a job is active or settled, and an active one names a job of
  this process that was started for it, with its agent.  So an accepted event is about an active
  task, and two active tasks never name one job.
* `TurnInv`: an outcome of this process is about a job that no task is at work on any more, which
  is why a second outcome of the same attempt cannot be accepted.
* `FreshInv` and `CountInv`: jobs not started are for nothing, and an active task that was not
  presented yet has one turn more than presentations.
* `EventInv` and `AwaitInv`: an event that says cancelled, which no marker does, is of a
  cancelled job, and an active task has a busy job (running, cancelled or with an event on the way
  that says it is over) or an older task bears its job's id.  A settled task never changes, so that exception is stable (`BorneStep`).

*What is shown is what was told.*  `SettledIsRecorded` says that a task shown as done or failed has
the outcome of its attempt in the transcript.  With it finding 3 gets its cause.  When an
outcome is dropped as settled (`DroppedIsKnown`), this process has recorded one of the same job
under the job's task, or an earlier process one of another task under the job's id.  In the first
case the task has an outcome, but not always the last one: a marker may have told it before the job
was over (see [known gaps](#known-gaps)).  `PastInv` is the addition that takes: a task with an
outcome is settled for good, and no job of a later process is for it.  Likewise a task that nothing can settle any more was lost to an outcome
that an earlier process recorded for an older task (`LostToAnEarlierRun`): the exception that
`ActiveIsAwaited` and `TaskSettles` make by `Shadowed` covers the reuse of ids and nothing else.

*Refinement.*  A handled turn is `Work`, `Yield` or nothing (`TurnIsContract`), a recorded outcome
is `Settle`, a restart is `Interrupt` (`RestartIsContract`), and everything else changes nothing
the contract sees (`OtherIsContract`).

### Session bindings

| Theorem | Says |
|---|---|
| `TypeCorrect` | `Spec => []TypeOK` |
| `UsedIsDurable` | `Spec => []DurableBeforeUse` |
| `GivenUpIsNotUsed` | `Spec => []NoReplay` |
| `NativeIsValidated` | `Spec => []NativeIsProved` |
| `BindingsKeepContract` | `Spec => KeepsSessionContract` |

`NoReplay` rests on what is known of ids: only those handed out are in use (`Handed`) and two
channels share none (`Separate`), so a new binding cannot name a session that was given up.  One
that was given up is still bound only if it is marked pending, in the file too if that was
written (`Marked`), and a pending binding is replaced before anything is dispatched.
`ProvingNew`, `Unmarked` and `ValidatedHere` say what the awaits of a call may rely on: the
binding being proved is a new one, the one being validated or used is not pending, and a
native one without a mark was validated in this process.  `Unnamed` ties the file to the
manager's table.

*Refinement.*  `DurableBeforeUse` and `Separate` at the end of a step, and `Marked` at its
beginning, give `Use` its guards: the sessions a dispatch goes into are the file's, nobody
else's, and never given up.  A rotation and a failed or cancelled dispatch are `GiveUp` of the
channel's sessions; a restart is `Crash`, which forgets `doubtful` only; every
write is one that goes on naming what is in use (`StaysNamed`).

### Control plane

| Theorem | Says |
|---|---|
| `TypeCorrect` | `Spec => []TypeOK` |
| `ChecksAreSingle` | `Spec => []OneCheck` |
| `ReservationsAreOwned` | `Spec => []ReservationOwned` |
| `OutcomesAreFound` | `Spec => []OutcomeIsFound` |
| `PendingHasItsCheck` | `Spec => []PendingIsChecked` |
| `AnswersAreKept` | `Spec => AnswerKept`: only `Launches` forgets answers |
| `NoGhosts` | `Spec => []NoGhostWork` |
| `PlaneKeepsSelfChecks` | `Spec => KeepsSelfChecks` |

`OneCheck` and `ReservationOwned` count; what is inductive names instead who owns a reservation.
`CheckInv` has these parts: a reserved agent has a caller on its way or a registered check
(`Owned`); the agent of either is reserved, and no two of them share one (`OwnedOnce`); what is
registered is a check of this process that was started, and a running check is registered
(`Registered`); no two callers wait for one check (`Waiting`).  `CheckedAlone`
gets the two counts back.  `QueueInv` orders the events of a job: who said more than that it goes
on has claimed to be done or is over, and a progress report of a job that is over has its end
behind it.  `SightInv` follows the current work of an agent from the probe that reads it to the
observation that shows it: at each of these places, if the job is over, the queue still tells so,
or something newer was observed and the probe will not be recorded.

*Refinement.*  `CheckInv` gives each step of `SelfCheckContract` its guard: `OwnedOnce` and `Owned` that
of `Ask`, `Registered` that a new check is nobody's (`Start`), `Waiting` that an outcome reaches one
caller (`Decide`).  A check is decided by an event with a terminal status, be it a progress event;
`QueueInv` says that its job has then ended or claimed to be done, which is what counts as
stopped in the mapping: after its marker an agent may go on to print.

### Confirmation gate

| Theorem | Says |
|---|---|
| `TypeCorrect` | `Spec => []TypeOK` |
| `OnlyApprovedRuns` | `Spec => []ApprovedOnce` |
| `VerdictsStand` | `Spec => VerdictStands` |
| `LoopsAreCut` | `Spec => []LoopIsCut` |
| `AdmittedKeepTheLimits` | `Spec => []AdmittedKeepLimits` |
| `GateKeepsApproval` | `Spec => KeepsApproval` |

`TokenInv`: tokens above the counter have told nothing, held tokens are distinct and are exactly
those whose verdict is open, a dispatch of a token has its approval, and two dispatches never
have one token.  `LoopInv`: the notes in a text, held or at work, are within the limit, and
counted in its agent's streak unless that agent ended otherwise since the last of them (`since` is
a part of what it has ended).  `CapInv` is `AdmittedKeepLimits`: what is admitted alone finds
nothing on the way, so all that counts is active and was counted by the guard; consults and
presentations (`Joins`) never bear the mark.

*Refinement.*  An approval that finds room is `Approve` with a run, any other answer a verdict
alone; a correction keeps agent and task of the prompt and is a stutter.  `NamedInv`
carries the rest: a dispatch that bears a token was given to a named agent, so the hub, which may
choose the agent of a dispatch that names none, leaves it with the one the prompt showed.

### Remote job

| Theorem | Says |
|---|---|
| `TypeCorrect` | `Spec => []TypeOK` |
| `EndsAreMarked` | `Spec => []EndIsMarked` |
| `LossesAreBounded` | `Spec => []LossIsBounded` |
| `ExitsAreTrue` | `Spec => []ExitIsTrue` |
| `HostsReap` | `Spec => []HostReaps` |
| `AnnouncedAreRegistered` | `Spec => []AnnouncedIsRegistered` |
| `StopsAreAccounted` | `Spec => []StopIsAccounted` |
| `RemoteKeepsHandle` | `Spec => KeepsHandle` |

`MarkedFacts` says what `_finish()` does to a buffer of any size: it takes one entry at most, and
the end is in it.  `Quiet` is why the lines of a failed connection fit: nobody reads or stops
before the pump has connected.  A reader that takes the end marker leaves in the same step, which
makes `EndIsMarked` inductive (`EndStep`).  `LossInv` counts what is left for the pump to finish
(`Finishes`) against those who killed.  `HostInv` follows an event from the thread that emits it to
the pump that reads it: what is in the stream was said by a thread that had got that far (`Says`),
so a known id is of an announced agent and an exit code of a thread that is done.  `StopInv` adds
that only a known id is cancelled and that a kill without one was early; a cancellation that
arrives finds the agent by `AnnouncedIsRegistered`.  `HandleInv` is what the refinement of
`ProcessContract` needs beyond that: the end marker tells of a code, a reader leaves with one, and
a refusal means that the host is done and never had an agent.

### Contracts

`ContractProofs` proves of each contract what its callers may conclude, with no program in
sight; for the programs that implement the contract the conclusion then holds under the refinement
mapping.

| Theorem | Says of every program that keeps the contract |
|---|---|
| `ContractIsExclusive`, `ContractReportsStand` (`JobContract`) | two jobs of one lane never have a process at the same time; what was reported has an outcome and no process, and stays so |
| `ContractTellsOnce`, `ContractOverStands` (`TaskContract`) | a task is settled exactly if it was told, once, and is in an agent's hands while at work; what is over stays over, as it was |
| `ContractSessionsAreApart`, `ContractGoneStands` (`SessionContract`) | no session takes the requests of two channels or one that the store does not name; what was given up is not in use, and what was written of that stands |
| `ContractChecksOnce`, `ContractAnswersAreTrue` (`SelfCheckContract`) | an agent is reserved once; a caller waits for a check of its own and has an answer exactly when that is decided |
| `ContractPromptsOnce`, `ContractRunsStand` (`ApprovalContract`) | one prompt per held token; what runs was approved, is the only run of its token, and is not taken back |
| `ContractFinalIsTrue`, `ContractCodeStands` (`ProcessContract`) | nothing runs after an exit code, nor ever ran after a refusal; a code stands, and a handle is let go with one |

### Not proved

*Model-checked only*: all liveness properties (`EveryJobReported`, `CancelAnswered`,
`ShutdownReturned`, `TaskSettles`, `CheckSettles`, `JobEnds`, `KillReachesAgent`), since TLAPS does
not handle fairness and `ENABLED`.  What the three of the bridge need beside fairness and agents that exit is proved:
`NobodyWaitsInVain`.  Every safety property of a passing run is proved for all
values of the constants.  Of the properties that the code violates, the theorems above
say where they hold (`CancelsReap`, `FailuresAreFinal`) and what stays
true of every instance (`CancelsReapLaunches`, `ReturnsAreReaped`, `ShownOutcomesStand`,
`DropsAreExplained`).

*Proved only*: the type invariants of all modules but `AgentBridge`; `ReportIsFinal`, `ReturnIsReaped`,
`OutcomeTakenBack`, `SettledIsRecorded`, `DroppedIsKnown`, `LostToAnEarlierRun`, `NoReplay`, `OneCheck`, `AnswerKept`,
`ApprovedOnce`, `VerdictStands`, `ExitIsTrue` and `AnnouncedIsRegistered`.  TLC agreed with them
while the modules were written; since they are proved for every instance, the runs no longer repeat
them.  `ReportIsFinal`, `NoReplay`, `OneCheck` and `ApprovedOnce` are in the contracts besides,
which the runs do check.

## Findings

Each is a run that must end in a violation, with one property.

1. **A cancel during a failover's relaunch leaves the process running** (`bridge_cancel_leak`,
   `agent_bridge.py:1810`).  `_launch_done` stays set over `_prepare_failover`, so `cancel()`
   does not wait; `_launch` is past its only check and spawns the process after `cancel()` has
   returned.
2. **A failure shows before a failover takes it back** (`bridge_failure_seen`,
   `agent_bridge.py:2435`).  A terminal marker sets `failed` while the process has its grace
   period; in that window a cancel is ignored, and then the job runs again.
3. **An outcome is dropped after a restart** (`hub_reuse`, `conversation_hub/service.py:646`).
   A settled task keeps its `attempt_id`; the next process counts from `job-1` again, and the
   terminal guard takes the new job's outcome for a replay.
4. **An announcement does not wait for the outcome** (`hub_announce`, `session.py:2146`).  The
   callback of an older event removes the entry of the newer one.  `brain.py` has the same code.

The passing properties are stated so that they hold beside these findings and say so:
`OnlyRelaunchEscapes` exempts jobs that a failover has relaunched, and `ActiveIsAwaited` and `TaskSettles` exempt
by name a task whose job id an older one bears (`Shadowed`) and a cancelled job, about which no
comment or test of the repository says anything.

## Known gaps

Behaviours that unrestricted instances of `AgentBridge` show, that no run states yet:

* a cancel that falls before the task's first step or into the launch is overwritten, by
  `STATUS_WAITING` at the lane (1567) or by `_fail_fast` (2039) - `CancelTakenBack` says that
  nothing else does it; a lane's turn that is then launched is killed by the waiting `cancel()`,
  but a failover may relaunch it before the call returns;
* `shutdown()` does less than its docstring (1850, "Stop every live job and reap its subprocess") and
  the comment at 1858-1860 say.  It asks the jobs to stop that are active when it begins.  It may
  leave the process of a job that a failover has relaunched, as in finding 1; of one that another
  caller's `cancel()` is still stopping; of a session agent's that printed its terminal marker; of one
  whose agent has announced its end and outlasts the wait, the grace period being configurable; and of
  one started meanwhile by a consult (1988) or a presentation (`conversation_hub/service.py:597`).
  `ShutdownReaps` lists these;
* a task that `shutdown()` cancels frees its lane while its process goes on, so a job started
  meanwhile may run beside it in one session: `LaneExclusive` and `JobContract` exempt it;
* the `cancel()` of a turn that is parked behind an agent that never exits waits for ever (1810), and
  with it `shutdown()`, which gathers it without a timeout (1862);
* the finished event of one job may follow the aggregate idle event of another;
* a lane's job that failed may be trimmed from `_jobs` and relaunched;
* a failover may go back to the model that failed: `start()` notes the agent's provider (1507), the
  launch reads its arguments (1404), and after a switch in between the failover gives up on the
  model that was noted (1417) and may choose the one that ran, although the docstring at 1407 says
  "the next untried provider".  `NoModelRetried` says that this is the only way.

Of the hub and its sessions:

* a task that moved to another agent stays in the `active_task_ids` of its former channel until a
  new chapter, and `conversation_projection.py:74` goes on showing it there; `ListedIsLive`
  exempts it;
* a cancelled job leaves its task active;
* the hub takes the status of a progress event for the outcome (`conversation_hub/service.py:648-669`),
  so a marker's `failed` settles the task while a failover may still follow.  The answer of the
  failover is then dropped at line 646 without any restart, although the comment there (636-645)
  knows replays only: `DroppedIsReplay` asks no more than that the job has an outcome, which
  `hub_reuse` refutes by the reuse of ids, and `DropsAreExplained` names both cases;
* each write of `_persist_binding` (`conversation_hub/service.py:916`) is one binding behind,
  against the docstring at `conversation_hub/sessions.py:24`; `dispatch()` is safe because it
  writes twice, which is what `DurableBeforeUse` shows;
* after a restart the table of a rotation that was not saved is lost, so `NoReplay` holds across
  restarts only for what was written down (`spent`, not `doubtful`).

Of the control plane:

* a progress event with a terminal status decides a self-check as failed before its terminal
  event brings the reply (`control_plane/service.py:541`); the later event then counts as an
  ordinary job's;
* cancelling one waiter of a shared probe cancels it for all (138);
* the agent may become busy between the probe and the resumption of the caller (289);
* the end of any job clears the agent's current work, though another job of it is active;
* `dispatch_task` to an agent that was missing forgets what it is known to have answered
  (236-237), which the keeping of evidence elsewhere (704-709) rules out: the exception that
  `AnswerKept` names;
* a pending response of a check that died with its process is read back after the restart.

Of the remote job:

* the started event is emitted outside the `try` that reaps (`remote_host.py:161`), so a peer that
  hangs up just then leaves an agent running that nobody can cancel, although the comment at 238
  says that `run_job` has reaped it (server state `fled`);
* `start_job` waits for the answer without a timeout once it has connected
  (`remote_client.py:198`): a host that accepts and never answers holds the launch, and with it
  the `cancel()` that waits for the launch;
* a pump that waits for room after a kill may wait for ever (120);
* an agent that prints nothing is not stopped by the peer's hang-up, but at its next line.

Of the gate: a duplicate delegation is not recognised (`orchestration/concurrency.py:58`), since
the guard compares the requested task with the text of running jobs, which start with a context
package or the conversation around it; the limits bound nothing while the hub's lock is busy,
since every admission then sees the same room; the streak of confirmations is reset by a failed or
cancelled job too; a correction keeps the token, so a click made before it approves the corrected
text.

## Not modelled

Of the bridge: consultation between agents, Hermes session ids and their rotation, heartbeats and
the wording of results.  Of the remote hosts: their discovery and heartbeats (`RemoteRegistry`),
a crash of either machine, and `_terminate()` on Windows, which uses a `pid` that a
`RemoteProcess` does not have.  Of the hub: rosters, archives, memory and context selection, import
of legacy history, and the checks of names in `sessions.py`.  Of the control plane:
`cancel_job` and `redirect_job` (calls of the bridge), callbacks that raise, the details of
presence and usage.  Of the session: the relaunch after a model failure (`_handle_retry_request`,
`_handle_model_switch`), the kill switch, `run()`'s shutdown.  Of the orchestration: limits of
single agents, working directories, and the decisions kept for telemetry.
The voice pipeline, speech, personas, user interface, configuration, diagnostics, launchers and
the vendored Pipecat framework (most of the lines of the repository) are audio, text, I/O or
third-party code; routing of utterances and the scores of the orchestrator are sequential
functions on text and numbers, whose results are free choices here.  `PROJECT.json` names each
with its reason.

## Plan

In this order; each module keeps recursion to recursive functions or folds, so that it can be
proved about.

1. `Consult` (`agent_bridge.py:1877-2036`, `collab.py`): ask, refuse, start of the peer, answer
   file, depth and budget, with crashes of the asker.  Two consults of one id and the refusal of
   a duplicate, which overwrite an answer, are its first cases.
2. The shutdown of a session: kill switch, cancelled background tasks and the bridge's shutdown.
3. Composition: the hub's source of job events replaced by `JobContract`, so that the proved
   refinement carries over to what the hub assumes of the bridge; and `RemoteJob` shown to be a
   process in the sense of `AgentBridge`, which needs the lane's rule weakened to processes that
   this side has not given up.

Proofs next: the compositions of step 3, for which the contracts are stated.
