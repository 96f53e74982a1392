--------------------------- MODULE ConversationHub ---------------------------
(***************************************************************************)
(* The durable conversation state of conversation_hub/service.py: which    *)
(* task a bridge job works on, who owns it, who holds the floor and which  *)
(* outcomes are in the transcript, across restarts of the process, with    *)
(* the routing of floor.py and the recovery of migrations.py.              *)
(*                                                                         *)
(* Every public operation of the hub runs under one asyncio.Lock, which    *)
(* wakes its waiters in order, and ends by saving what it changed: a step  *)
(* here is one such operation, queue holds the callers of the lock, and    *)
(* the durable variables are the file the next process reads.  The bridge  *)
(* appears only as the source of jobs and of their events.                 *)
(***************************************************************************)
EXTENDS Integers, Sequences, FiniteSets

CONSTANTS
    Agents,        \* agents with a session adapter
    Butler,        \* BUTLER_ID, who is not an agent here
    NoAgent,       \* a task without an entry in task_owner_by_id
    MaxTasks,      \* bound: how many tasks are ever created
    MaxJobs,       \* bound: jobs the bridge starts in one process
    MaxRuns,       \* bound: how many processes there are
    MaxTurns,      \* bound: user turns of all processes
    MaxQueue,      \* bound: callers of the lock when one more may join
    Repeats        \* bound: whether terminal events may be delivered again

Tasks == 1 .. MaxTasks
Jobs == 1 .. MaxJobs
NoJob == 0
NoTask == 0

ASSUME HubAssumption == /\ {MaxTasks, MaxJobs, MaxRuns, MaxTurns, MaxQueue} \subseteq Nat
                        /\ MaxRuns # 0
                        /\ Butler \notin Agents
                        /\ NoAgent \notin Agents \cup {Butler}
                        /\ Repeats \in BOOLEAN

VARIABLES
    \* What the store keeps.
    task,      \* _tasks, in the order of their creation
    owner,     \* _floor_state.task_owner_by_id
    floor,     \* _floor_state.floor_channel_id
    turns,     \* _turns, the agents' outcomes among them
    listed,    \* active_task_ids of each agent's channel
    \* What one process has.
    run,       \* which process this is
    job,       \* the jobs this process' bridge started
    started,   \* ... how many: the bridge counts job ids from 1 again
    queue,     \* who waits for _lock: user turns and job events
    asked,     \* user turns so far
    routed,    \* _hub_dispatched_jobs of the session
    tracked,   \* the keys of the session's _hub_job_event_tasks
    narrated   \* jobs whose end the session has spoken of

durable == <<task, owner, floor, turns, listed>>
session == <<routed, tracked, narrated>>
vars == <<durable, run, job, started, queue, asked, session>>

TerminalStatuses == {"done", "failed"}
Statuses == {"none", "active", "interrupted"} \cup TerminalStatuses
\* What a job's last event says; "fallback" is done with result_is_fallback.
Ends == {"done", "fallback", "failed", "cancelled"}

TaskRecords == [status : Statuses, agent : Agents \cup {NoAgent},
                attempt : Jobs \cup {NoJob}, presented : BOOLEAN]
JobRecords == [agent : Agents \cup {NoAgent}, task : Tasks \cup {NoTask},
               why : {"none", "turn", "presentation"}, state : {"none", "running"} \cup Ends]
Items == [what : {"turn"}, job : {NoJob}]
           \cup [what : {"running"} \cup Ends, job : Jobs]

TypeOK ==
    /\ task \in [Tasks -> TaskRecords]
    /\ owner \in [Tasks -> Agents \cup {NoAgent}]
    /\ floor \in Agents \cup {Butler}
    /\ turns \in Seq([task : Tasks, run : 1 .. MaxRuns, job : Jobs])
    /\ listed \in [Agents -> SUBSET Tasks]
    /\ run \in 1 .. MaxRuns
    /\ job \in [Jobs -> JobRecords]
    /\ started \in 0 .. MaxJobs
    /\ queue \in Seq(Items)
    /\ asked \in 0 .. MaxTurns
    /\ routed \subseteq Jobs
    /\ tracked \subseteq Jobs
    /\ narrated \subseteq Jobs

NewTask == [status |-> "none", agent |-> NoAgent, attempt |-> NoJob, presented |-> FALSE]
NewJob == [agent |-> NoAgent, task |-> NoTask, why |-> "none", state |-> "none"]

Init ==
    /\ task = [t \in Tasks |-> NewTask]
    /\ owner = [t \in Tasks |-> NoAgent]
    /\ floor = Butler
    /\ turns = <<>>
    /\ listed = [a \in Agents |-> {}]
    /\ run = 1
    /\ job = [j \in Jobs |-> NewJob]
    /\ started = 0
    /\ queue = <<>>
    /\ asked = 0
    /\ routed = {} /\ tracked = {} /\ narrated = {}

-----------------------------------------------------------------------------
(* Routing a user turn.                                                     *)

ActiveTasks == {t \in Tasks : task[t].status = "active"}
OwnedActive(a) == {t \in ActiveTasks : owner[t] = a}
Sole(S) == IF Cardinality(S) = 1 THEN S ELSE {NoTask}

\* The caller named agent a: a turn on its only active task, or on a new one.
ExplicitTasks(a) == Sole(OwnedActive(a))

\* The text names agent a.  "it", "that" or "this" carries the turn to the
\* task of the floor holder that was touched last (by wall clock, so any of
\* them), or to the only active task, whoever owns it.
DirectTasks ==
    {NoTask} \cup (IF OwnedActive(floor) # {} THEN OwnedActive(floor) ELSE Sole(ActiveTasks))

\* What agent a is doing: a follow-up is about the floor holder's, small talk
\* about that of whoever spoke last.
CurrentTasks(a) ==
    LET held == {t \in OwnedActive(floor) : task[t].agent = a} IN
      IF held # {} THEN held ELSE Sole({t \in ActiveTasks : task[t].agent = a})

\* The agent and the task a turn goes to.  Unnamed new work goes to the agent
\* the Butler selects, any verified one.
Decisions ==
    (UNION {{[agent |-> a, task |-> t] : t \in ExplicitTasks(a) \cup DirectTasks \cup {NoTask}} :
              a \in Agents})
      \cup (IF floor \in Agents THEN {[agent |-> floor, task |-> t] : t \in CurrentTasks(floor)} ELSE {})

-----------------------------------------------------------------------------
(* The bridge and the session, as far as the hub sees them.                 *)

Event(j, what) == [what |-> what, job |-> j]

\* The caller at the head of the queue gives up the lock; if it was an event,
\* its asyncio task is over and a callback forgets the job's newest one.
Waiting == Tail(queue)
Remembered == tracked \ {Head(queue).job}

\* start() inside a handler: the job's first event joins the queue.
StartJob(a, t, why, state) ==
    /\ started < MaxJobs
    /\ started' = started + 1
    /\ job' = [job EXCEPT ![started + 1] =
                 [agent |-> a, task |-> t, why |-> why, state |-> state]]
    /\ queue' = Append(Waiting, Event(started + 1, state))
    /\ tracked' = Remembered \cup {started + 1}

StartNothing ==
    /\ queue' = Waiting
    /\ tracked' = Remembered
    /\ UNCHANGED <<job, started>>

\* A dispatch that raises: before a job exists, or with a job that start()
\* failed at once and that no task will ever name.
StartFails(a) == StartJob(a, NoTask, "none", "failed") \/ StartNothing

\* _on_agent_event: each event becomes a task of its own that wants the lock;
\* the newest one of a job is remembered under the job's id.
Deliver(j, what) ==
    /\ queue' = Append(queue, Event(j, what))
    /\ tracked' = tracked \cup {j}

\* Only these callers await something once they hold the lock (an adapter, the
\* registry); the others run to their end before anything else happens.
Yielding == queue # <<>> => Head(queue).what \in {"turn", "fallback", "failed"}

\* A marker of the agent sets the status of a job that goes on, until it ends, fails
\* over or says otherwise (agent_bridge.py:2430-2460): a progress event may say
\* that it is done or has failed.
JobProgresses(j) ==
    /\ Yielding /\ job[j].state = "running" /\ Len(queue) < MaxQueue
    /\ \E what \in {"running"} \cup TerminalStatuses : Deliver(j, what)
    /\ UNCHANGED <<durable, run, job, started, asked, routed, narrated>>

JobEnds(j) ==
    /\ Yielding /\ job[j].state = "running"
    /\ \E what \in Ends : /\ job' = [job EXCEPT ![j].state = what]
                          /\ Deliver(j, what)
    /\ UNCHANGED <<durable, run, started, asked, routed, narrated>>

\* The same terminal event arrives once more.
Redeliver(j) ==
    /\ Repeats /\ Yielding /\ job[j].state \in Ends /\ Len(queue) < MaxQueue
    /\ Deliver(j, job[j].state)
    /\ UNCHANGED <<durable, run, job, started, asked, routed, narrated>>

UserTurn ==
    /\ Yielding /\ asked < MaxTurns /\ Len(queue) < MaxQueue
    /\ asked' = asked + 1
    /\ queue' = Append(queue, [what |-> "turn", job |-> NoJob])
    /\ UNCHANGED <<durable, run, job, started, session>>

-----------------------------------------------------------------------------
(* handle_turn.                                                             *)

\* _dispatch binds the turn's task, an existing one or the next new one, to
\* the job its agent was given; the reference is built anew.
BindKeepingOwner(t, a, j) ==
    /\ task' = [task EXCEPT ![t] = [status |-> "active", agent |-> a,
                                    attempt |-> j, presented |-> FALSE]]
    /\ owner' = IF task[t].status = "none" THEN [owner EXCEPT ![t] = a] ELSE owner
    /\ listed' = [listed EXCEPT ![a] = @ \cup {t}]
    /\ floor' = a

Bind(t, a, j) ==
    /\ task' = [task EXCEPT ![t] = [status |-> "active", agent |-> a,
                                    attempt |-> j, presented |-> FALSE]]
    /\ owner' = [owner EXCEPT ![t] = a]
    /\ listed' = [listed EXCEPT ![a] = @ \cup {t}]
    /\ floor' = a

Dispatch(d) ==
    \E t \in IF d.task # NoTask THEN {d.task}
             ELSE {n \in Tasks : /\ task[n].status = "none"
                                 /\ \A m \in 1 .. n - 1 : task[m].status # "none"} :
        /\ StartJob(d.agent, t, "turn", "running")
        /\ Bind(t, d.agent, started + 1)
        /\ routed' = routed \cup {started + 1}
        /\ UNCHANGED <<turns, run, asked, narrated>>

\* dispatch_via_hub() goes by the task the hub names, with or without a dispatch.
RouteOf(t) == routed' = routed \cup ({task[t].attempt} \ {NoJob})

\* _butler_intervention: the dispatch failed, with or without a job.
DispatchFails(d) ==
    /\ StartFails(d.agent)
    /\ floor' = Butler
    /\ IF d.task # NoTask THEN RouteOf(d.task) ELSE routed' = routed
    /\ UNCHANGED <<task, owner, turns, listed, run, asked, narrated>>

\* _respond_without_dispatch: the Butler was called or found no agent, or the
\* turn was small talk, ambiguous, or for an agent that is not configured.
Respond ==
    /\ StartNothing
    /\ floor' \in {Butler, floor}
    /\ \/ UNCHANGED routed
       \/ floor' = floor /\ \E a \in Agents : \E t \in CurrentTasks(a) \ {NoTask} : RouteOf(t)
    /\ UNCHANGED <<task, owner, turns, listed, run, asked, narrated>>

HandleTurn ==
    /\ queue # <<>> /\ Head(queue).what = "turn"
    /\ \/ \E d \in Decisions : Dispatch(d) \/ DispatchFails(d)
       \/ Respond

-----------------------------------------------------------------------------
(* handle_job_event.                                                        *)

\* _task_by_job_id: the oldest task whose attempt has this id.
Attempts(j) == {t \in Tasks : task[t].attempt = j}
TaskOf(j) == CHOOSE t \in Attempts(j) : \A u \in Attempts(j) : t <= u

AcceptedAgain(j) == /\ Attempts(j) # {}
                    /\ task[TaskOf(j)].agent = job[j].agent

\* The event is for a task of this agent that is not settled yet.
Accepted(j) == /\ Attempts(j) # {}
               /\ task[TaskOf(j)].agent = job[j].agent
               /\ task[TaskOf(j)].status \notin TerminalStatuses

\* The end of the handler: the outcome joins the transcript, the task settles
\* and the floor is saved as it was.
RecordTakingFloor(j, status) ==
    /\ turns' = Append(turns, [task |-> TaskOf(j), run |-> run, job |-> j])
    /\ task' = [task EXCEPT ![TaskOf(j)].status = status]
    /\ listed' = [listed EXCEPT ![job[j].agent] = @ \ {TaskOf(j)}]
    /\ floor' = job[j].agent
    /\ UNCHANGED owner

RecordAndList(j, status) ==
    /\ turns' = Append(turns, [task |-> TaskOf(j), run |-> run, job |-> j])
    /\ task' = [task EXCEPT ![TaskOf(j)].status = status]
    /\ UNCHANGED <<owner, floor, listed>>

Record(j, status) ==
    /\ turns' = Append(turns, [task |-> TaskOf(j), run |-> run, job |-> j])
    /\ task' = [task EXCEPT ![TaskOf(j)].status = status]
    /\ listed' = [listed EXCEPT ![job[j].agent] = @ \ {TaskOf(j)}]
    /\ UNCHANGED <<owner, floor>>

\* _request_agent_presentation: the task's agent writes the final answer.
Present(j) ==
    /\ StartJob(task[TaskOf(j)].agent, TaskOf(j), "presentation", "running")
    /\ task' = [task EXCEPT ![TaskOf(j)] =
                  [@ EXCEPT !.status = "active", !.attempt = started + 1, !.presented = TRUE]]
    /\ UNCHANGED <<owner, floor, turns, listed>>

PresentationFails(j) ==
    /\ StartFails(task[TaskOf(j)].agent)
    /\ Record(j, "failed")

HandleFallbackAlways(j) == Present(j) \/ PresentationFails(j)

HandleFallbackOnce(j) ==
    \/ /\ ~task[TaskOf(j)].presented
       /\ Present(j) \/ PresentationFails(j)
    \/ task[TaskOf(j)].presented /\ StartNothing /\ UNCHANGED durable

HandleFallback(j) ==
    \/ /\ ~task[TaskOf(j)].presented
       /\ Present(j) \/ PresentationFails(j)
    \/ task[TaskOf(j)].presented /\ StartNothing /\ Record(j, "failed")

HandleOutcome(j, what) ==
    \/ what = "running" /\ StartNothing
         /\ task' = [task EXCEPT ![TaskOf(j)].status = "active"]
         /\ UNCHANGED <<owner, floor, turns, listed>>
    \/ what = "cancelled" /\ StartNothing /\ UNCHANGED durable
    \/ what \in TerminalStatuses /\ StartNothing /\ Record(j, what)
    \/ what = "fallback" /\ HandleFallback(j)

HandleJobEvent ==
    /\ queue # <<>> /\ Head(queue).what # "turn"
    /\ LET e == Head(queue) IN
         \/ Accepted(e.job) /\ HandleOutcome(e.job, e.what)
         \/ ~Accepted(e.job) /\ StartNothing /\ UNCHANGED durable
    /\ UNCHANGED <<run, asked, routed, narrated>>

\* new_chapter(): the channel of a forgets its topic, and lists no task any more,
\* although those it had go on.
NewChapter(a) ==
    /\ Yielding /\ listed[a] # {}
    /\ listed' = [listed EXCEPT ![a] = {}]
    /\ UNCHANGED <<task, owner, floor, turns, run, job, started, queue, asked, session>>

-----------------------------------------------------------------------------
(* The session speaks of a finished job, and the process starts again.      *)

\* An event that says that j is over waits to be handled.
Pending(j) == \E i \in DOMAIN queue : queue[i].job = j /\ queue[i].what \in Ends

\* _announce_agent_job waits for the job's newest event if that is remembered,
\* then looks for the outcome in the transcript.
Announce(j) ==
    /\ j \in routed /\ j \notin narrated /\ job[j].state \in {"done", "fallback"}
    /\ Yielding /\ j \notin tracked
    /\ narrated' = narrated \cup {j}
    /\ routed' = routed \ {j}
    /\ UNCHANGED <<durable, run, job, started, queue, asked, tracked>>

\* The process dies; the next one loads the store, and _resolve_stale_tasks
\* settles what nothing can complete any more.
InterruptedByStatus(t) == IF task[t].status = "active"
                          THEN [task[t] EXCEPT !.status = "interrupted"] ELSE task[t]
StillActive(t) == task[t]

Interrupted(t) == IF task[t].status = "active"
                  THEN [task[t] EXCEPT !.status = "interrupted", !.attempt = NoJob]
                  ELSE task[t]

Restart ==
    /\ run < MaxRuns
    /\ run' = run + 1
    /\ task' = [t \in Tasks |-> Interrupted(t)]
    /\ owner' = [t \in Tasks |-> IF task[t].status = "active" THEN NoAgent ELSE owner[t]]
    /\ listed' = [a \in Agents |-> listed[a] \ ActiveTasks]
    /\ job' = [j \in Jobs |-> NewJob]
    /\ started' = 0 /\ queue' = <<>>
    /\ routed' = {} /\ tracked' = {} /\ narrated' = {}
    /\ UNCHANGED <<floor, turns, asked>>

Next ==
    \/ UserTurn \/ HandleTurn \/ HandleJobEvent \/ Restart
    \/ \E j \in Jobs : JobProgresses(j) \/ JobEnds(j) \/ Redeliver(j) \/ Announce(j)
    \/ \E a \in Agents : NewChapter(a)

Spec == Init /\ [][Next]_vars

\* The lock is always released, and the bridge ends its jobs.
FairSpec == /\ Spec
            /\ WF_vars(HandleTurn)
            /\ WF_vars(HandleJobEvent)
            /\ \A j \in Jobs : SF_vars(JobEnds(j))

-----------------------------------------------------------------------------
(* Properties.                                                              *)

\* An outcome joins the transcript once per attempt, under the task the job
\* was dispatched for, although events repeat, restarts reuse job ids and
\* tasks move from one agent to another (service.py:636-647).
OutcomeOwned ==
    \A i \in DOMAIN turns :
       /\ turns[i].run = run => job[turns[i].job].task = turns[i].task
       /\ \A k \in DOMAIN turns :
            turns[k].run = turns[i].run /\ turns[k].job = turns[i].job => k = i

\* Routing asks task_owner_by_id, job events ask the task: the two agree on
\* every active task (service.py:403-427 against migrations.py:222-272).
OwnersAgree == \A t \in ActiveTasks : owner[t] = task[t].agent /\ owner[t] \in Agents

\* A channel lists no task that is over, whatever moved, repeated or restarted
\* meanwhile, except one that went on to another agent: that one nobody takes off
\* the list of its former channel (service.py:415, 772, migrations.py:248-257).
ListedIsLive ==
    \A a \in Agents : \A t \in listed[a] : task[t].status = "active" \/ task[t].agent # a

\* A job id that an older, settled task of an earlier process still bears.
Shadowed(t) == TaskOf(task[t].attempt) # t

\* Something can still settle an active task: its job runs, an event that says that
\* it is over is on the way, or the user cancelled it -- unless its job id is borne by a
\* task of an earlier process as well, the one way an outcome gets lost.
ActiveIsAwaited ==
    \A t \in ActiveTasks :
       LET j == task[t].attempt IN
         \/ j # NoJob /\ (job[j].state \in {"running", "cancelled"} \/ Pending(j))
         \/ Shadowed(t)

\* A background result never moves the floor, nor does an event of a job that
\* the hub itself asks for a presentation (service.py:619-789).
FloorNotStolen == [][queue # <<>> /\ queue' # queue /\ floor' # floor
                       => Head(queue).what = "turn"]_vars

\* The hub asks for the presentation of a result at most once per user turn:
\* an agent that answers with machine output each time is not asked forever.
PresentedOnce ==
    \A t \in Tasks :
      Cardinality({j \in Jobs : job[j].task = t /\ job[j].why = "presentation"})
        <= Cardinality({j \in Jobs : job[j].task = t /\ job[j].why = "turn"})

\* Whatever the hub does is a step of TaskContract, or none: the contract's
\* owners are what routing asks for, its outcomes the turns that events recorded.
Contract == INSTANCE TaskContract WITH
               status <- [t \in Tasks |-> task[t].status],
               outcomes <- [i \in DOMAIN turns |-> turns[i].task]
KeepsTaskContract == Contract!Spec

\* While agents finish, every active task settles, except one whose job was
\* cancelled or whose job id an older task bears.
TaskSettles ==
    \A t \in Tasks :
       task[t].status = "active" ~>
         \/ task[t].status # "active"
         \/ Shadowed(t)
         \/ job[task[t].attempt].state = "cancelled"

\* The comment at service.py:636-645: an event for a job id that has driven its
\* task to a terminal status is a replay, never a new outcome.  At the least the
\* transcript then has an outcome of this very job; whether that was its last
\* word is another matter, since a marker may have spoken before a failover.
DroppedIsReplay ==
    [][LET e == Head(queue) IN
         queue # <<>> /\ queue' = Tail(queue) /\ e.what \in TerminalStatuses
           /\ job[e.job].task # NoTask
           /\ Attempts(e.job) # {} /\ task[TaskOf(e.job)].status \in TerminalStatuses
         => \E i \in DOMAIN turns : turns[i].run = run /\ turns[i].job = e.job]_vars

\* The comment at session.py:2000-2005: the announcement of a hub job waits for
\* the handler of its last event, so that it finds the outcome.
AnnouncedAfterRecording ==
    [][\A j \in narrated' \ narrated : job[j].state = "done" => ~Pending(j)]_vars
=============================================================================
