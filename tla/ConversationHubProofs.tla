------------------------ MODULE ConversationHubProofs ------------------------
(***************************************************************************)
(* Proofs about ConversationHub, for any agents and numbers of tasks,      *)
(* jobs, turns and processes: outcomes are recorded once and under their   *)
(* own task, routing and events agree on the owner, lists of tasks are     *)
(* live, and background results leave the floor alone.                     *)
(***************************************************************************)
EXTENDS ConversationHub, FiniteSetTheorems, WellFoundedInduction, TLAPS

-----------------------------------------------------------------------------
(* Helpers.                                                                 *)

Less == {ss \in Nat \X Nat : ss[1] < ss[2]}

\* A set of task numbers has a least one.
LEMMA LeastTask ==
    ASSUME NEW S, S \subseteq Nat, S # {}
    PROVE  \E i \in S : \A k \in S : i <= k
<1>1. IsWellFoundedOn(Less, Nat)
  BY NatLessThanWellFounded DEF OpToRel, Less
<1>2. PICK i \in S : \A k \in S : <<k, i>> \notin Less
  BY <1>1, WFMin
<1>3. ASSUME NEW k \in S PROVE i <= k
  <2>1. ~ (k < i)
    BY <1>2 DEF Less
  <2> QED
    BY <2>1
<1> QED
  BY <1>3

LEMMA TaskOfType ==
    ASSUME NEW j, Attempts(j) # {}
    PROVE  TaskOf(j) \in Attempts(j) /\ TaskOf(j) \in Tasks /\ task[TaskOf(j)].attempt = j
           /\ \A u \in Attempts(j) : TaskOf(j) <= u
<1>1. Attempts(j) \subseteq Nat
  BY DEF Attempts, Tasks
<1>2. \E t \in Attempts(j) : \A u \in Attempts(j) : t <= u
  BY <1>1, LeastTask
<1>3. TaskOf(j) \in Attempts(j) /\ \A u \in Attempts(j) : TaskOf(j) <= u
  BY <1>2 DEF TaskOf
<1> QED
  BY <1>3 DEF Attempts

LEMMA TaskTypes ==
    ASSUME TypeOK, NEW t \in Tasks
    PROVE  /\ task[t] \in TaskRecords /\ task[t].status \in Statuses
           /\ task[t].agent \in Agents \cup {NoAgent}
           /\ task[t].attempt \in Jobs \cup {NoJob} /\ task[t].presented \in BOOLEAN
<1>1. task[t] \in TaskRecords
  BY DEF TypeOK
<1> QED
  BY <1>1 DEF TaskRecords

LEMMA HeadTypes ==
    ASSUME TypeOK, queue # <<>>
    PROVE  /\ Head(queue) \in Items /\ Tail(queue) \in Seq(Items)
           /\ Head(queue).what # "turn"
                => Head(queue).job \in Jobs /\ Head(queue).what \in {"running"} \cup Ends
<1>1. Head(queue) \in Items /\ Tail(queue) \in Seq(Items)
  BY DEF TypeOK
<1> QED
  BY <1>1 DEF Items

LEMMA EventType ==
    ASSUME NEW j \in Jobs, NEW what \in {"running"} \cup Ends
    PROVE  Event(j, what) \in Items
BY DEF Event, Items

\* What start() does inside a handler.
LEMMA StartJobFacts ==
    ASSUME TypeOK, queue # <<>>, NEW a \in Agents \cup {NoAgent}, NEW t \in Tasks \cup {NoTask},
           NEW why \in {"none", "turn", "presentation"}, NEW state \in {"running"} \cup Ends,
           StartJob(a, t, why, state)
    PROVE  /\ started + 1 \in Jobs /\ started' = started + 1 /\ started' \in 0 .. MaxJobs
           /\ job' \in [Jobs -> JobRecords]
           /\ \A j \in Jobs : j # started + 1 => job'[j] = job[j]
           /\ job'[started + 1].agent = a /\ job'[started + 1].task = t
           /\ job'[started + 1].why = why /\ job'[started + 1].state = state
           /\ queue' = Append(Tail(queue), Event(started + 1, state))
           /\ queue' \in Seq(Items) /\ tracked' \subseteq Jobs
<1> DEFINE new == [agent |-> a, task |-> t, why |-> why, state |-> state]
<1>1. started + 1 \in Jobs /\ started' = started + 1 /\ started' \in 0 .. MaxJobs
  BY HubAssumption DEF StartJob, TypeOK, Jobs
<1>2. new \in JobRecords
  BY DEF JobRecords, Ends
<1>3. job' = [job EXCEPT ![started + 1] = new] /\ job \in [Jobs -> JobRecords]
  BY DEF StartJob, TypeOK
<1>4. queue' = Append(Tail(queue), Event(started + 1, state)) /\ queue' \in Seq(Items)
  BY <1>1, HeadTypes, EventType DEF StartJob, Waiting
<1>5. tracked' \subseteq Jobs
  BY <1>1 DEF StartJob, Remembered, TypeOK
<1>6. new.agent = a /\ new.task = t /\ new.why = why /\ new.state = state
  OBVIOUS
<1> HIDE DEF new
<1> QED
  BY <1>1, <1>2, <1>3, <1>4, <1>5, <1>6

LEMMA StartNothingFacts ==
    ASSUME TypeOK, queue # <<>>, StartNothing
    PROVE  /\ job' = job /\ started' = started
           /\ queue' = Tail(queue) /\ queue' \in Seq(Items) /\ tracked' \subseteq Jobs
BY HeadTypes DEF StartNothing, Waiting, Remembered, TypeOK

LEMMA SoleTasks ==
    ASSUME NEW S
    PROVE  Sole(S) \subseteq S \cup {NoTask}
BY DEF Sole

LEMMA CurrentTypes ==
    ASSUME NEW a
    PROVE  CurrentTasks(a) \subseteq ActiveTasks \cup {NoTask}
<1>1. Sole({t \in ActiveTasks : task[t].agent = a}) \subseteq ActiveTasks \cup {NoTask}
  BY SoleTasks
<1>2. OwnedActive(floor) \subseteq ActiveTasks
  BY DEF OwnedActive
<1> QED
  BY <1>1, <1>2 DEF CurrentTasks

LEMMA DecisionTypes ==
    ASSUME NEW d \in Decisions
    PROVE  d.agent \in Agents /\ d.task \in ActiveTasks \cup {NoTask}
<1>1. \A a : OwnedActive(a) \subseteq ActiveTasks
  BY DEF OwnedActive
<1>2. DirectTasks \subseteq ActiveTasks \cup {NoTask}
  BY <1>1, SoleTasks DEF DirectTasks
<1>3. \A a : ExplicitTasks(a) \subseteq ActiveTasks \cup {NoTask}
  BY <1>1, SoleTasks DEF ExplicitTasks
<1>4. CurrentTasks(floor) \subseteq ActiveTasks \cup {NoTask}
  BY CurrentTypes
<1> DEFINE Named == UNION {{[agent |-> a, task |-> t] :
                               t \in ExplicitTasks(a) \cup DirectTasks \cup {NoTask}} : a \in Agents}
           Held == IF floor \in Agents THEN {[agent |-> floor, task |-> t] : t \in CurrentTasks(floor)}
                   ELSE {}
<1>8. Decisions = Named \cup Held
  BY DEF Decisions
<1>5. d \in Named \/ d \in Held
  <2> HIDE DEF Named, Held
  <2> QED
    BY <1>8
<1>6. CASE d \in Named
  <2>1. PICK a \in Agents : d \in {[agent |-> a, task |-> t] :
                                    t \in ExplicitTasks(a) \cup DirectTasks \cup {NoTask}}
    BY <1>6
  <2>2. PICK t \in ExplicitTasks(a) \cup DirectTasks \cup {NoTask} : d = [agent |-> a, task |-> t]
    BY <2>1
  <2> QED
    BY <1>2, <1>3, <2>2
<1>7. CASE d \in Held
  <2>1. floor \in Agents /\ \E t \in CurrentTasks(floor) : d = [agent |-> floor, task |-> t]
    BY <1>7
  <2> QED
    BY <1>4, <2>1
<1> QED
  BY <1>5, <1>6, <1>7

-----------------------------------------------------------------------------
(* What a step does to jobs, tasks, owners, lists and the transcript.       *)

\* Jobs keep what they are for; one that is started for nothing has no task.
JobsKept ==
    /\ started' \in {started, started + 1}
    /\ \A j \in Jobs : \/ /\ job'[j].task = job[j].task /\ job'[j].agent = job[j].agent
                          /\ job'[j].why = job[j].why
                       \/ j = started + 1 /\ started' = j /\ job'[j].task = NoTask

\* A new job of agent a for task t.
JobAdded(a, t, why) ==
    /\ started + 1 \in Jobs /\ started' = started + 1
    /\ \A j \in Jobs : j # started + 1 => job'[j] = job[j]
    /\ job'[started + 1].task = t /\ job'[started + 1].agent = a /\ job'[started + 1].why = why

OnlyTask(t) ==
    /\ task' \in [Tasks -> TaskRecords]
    /\ \A u \in Tasks : u # t => task'[u] = task[u]

Quiet ==
    /\ JobsKept /\ UNCHANGED <<task, owner, listed, turns, run>>

Binds(t, a) ==
    /\ JobAdded(a, t, "turn") /\ OnlyTask(t) /\ UNCHANGED <<turns, run>>
    /\ a \in Agents /\ task[t].status \in {"none", "active"}
    /\ task'[t].status = "active" /\ task'[t].agent = a /\ task'[t].attempt = started + 1
    /\ ~task'[t].presented
    /\ owner' = [owner EXCEPT ![t] = a]
    /\ listed' = [listed EXCEPT ![a] = @ \cup {t}]

Presents(j) ==
    LET t == TaskOf(j) IN
      /\ Accepted(j) /\ ~task[t].presented
      /\ JobAdded(task[t].agent, t, "presentation") /\ OnlyTask(t)
      /\ UNCHANGED <<owner, listed, turns, run>>
      /\ task'[t].status = "active" /\ task'[t].agent = task[t].agent
      /\ task'[t].attempt = started + 1 /\ task'[t].presented

Records(j) ==
    LET t == TaskOf(j) IN
      /\ Accepted(j) /\ JobsKept /\ OnlyTask(t) /\ UNCHANGED <<owner, run>>
      /\ task'[t].status \in TerminalStatuses /\ task'[t].agent = task[t].agent
      /\ task'[t].attempt = task[t].attempt /\ task'[t].presented = task[t].presented
      /\ listed' = [listed EXCEPT ![job[j].agent] = @ \ {t}]
      /\ turns' = Append(turns, [task |-> t, run |-> run, job |-> j])

\* A progress event makes its task active, which it is.
Reactivates(j) ==
    LET t == TaskOf(j) IN
      /\ Accepted(j) /\ UNCHANGED <<job, started, owner, listed, turns, run>> /\ OnlyTask(t)
      /\ task'[t].status = "active" /\ task'[t].agent = task[t].agent
      /\ task'[t].attempt = task[t].attempt /\ task'[t].presented = task[t].presented

Closes(a) ==
    /\ UNCHANGED <<task, owner, turns, run, job, started>>
    /\ listed' = [listed EXCEPT ![a] = {}]

LEMMA AddedIsJob ==
    ASSUME TypeOK, queue # <<>>, NEW a \in Agents \cup {NoAgent}, NEW t \in Tasks,
           NEW why \in {"turn", "presentation"}, StartJob(a, t, why, "running")
    PROVE  JobAdded(a, t, why)
BY StartJobFacts DEF JobAdded

LEMMA FailedKeeps ==
    ASSUME TypeOK, queue # <<>>, NEW a \in Agents \cup {NoAgent}, StartFails(a)
    PROVE  JobsKept
<1>1. CASE StartJob(a, NoTask, "none", "failed")
  BY <1>1, StartJobFacts DEF JobsKept, Ends
<1>2. CASE StartNothing
  BY <1>2, StartNothingFacts DEF JobsKept
<1> QED
  BY <1>1, <1>2 DEF StartFails

LEMMA NothingKeeps ==
    ASSUME TypeOK, queue # <<>>, StartNothing
    PROVE  JobsKept
BY StartNothingFacts DEF JobsKept

LEMMA DispatchBinds ==
    ASSUME TypeOK, queue # <<>>, NEW d \in Decisions, Dispatch(d)
    PROVE  /\ \E t \in Tasks : Binds(t, d.agent) /\ StartJob(d.agent, t, "turn", "running")
           /\ floor' = d.agent /\ routed' = routed \cup {started + 1}
           /\ UNCHANGED <<asked, narrated>>
<1>1. PICK t \in IF d.task # NoTask THEN {d.task}
                 ELSE {n \in Tasks : /\ task[n].status = "none"
                                     /\ \A m \in 1 .. n - 1 : task[m].status # "none"} :
        /\ StartJob(d.agent, t, "turn", "running")
        /\ Bind(t, d.agent, started + 1)
        /\ routed' = routed \cup {started + 1}
        /\ UNCHANGED <<turns, run, asked, narrated>>
  BY DEF Dispatch
<1>2. d.agent \in Agents /\ d.task \in ActiveTasks \cup {NoTask}
  BY DecisionTypes
<1>3. t \in Tasks /\ task[t].status \in {"none", "active"}
  BY <1>1, <1>2 DEF ActiveTasks
<1>4. JobAdded(d.agent, t, "turn") /\ started + 1 \in Jobs
  BY <1>1, <1>2, <1>3, AddedIsJob DEF JobAdded
<1> DEFINE new == [status |-> "active", agent |-> d.agent, attempt |-> started + 1,
                   presented |-> FALSE]
<1>5. new \in TaskRecords /\ new.status = "active" /\ new.agent = d.agent
      /\ new.attempt = started + 1 /\ ~new.presented
  BY <1>2, <1>4 DEF TaskRecords, Statuses
<1>6. task' = [task EXCEPT ![t] = new]
  BY <1>1 DEF Bind
<1> HIDE DEF new
<1>7. OnlyTask(t) /\ task'[t] = new
  BY <1>3, <1>5, <1>6 DEF OnlyTask, TypeOK
<1>8. Binds(t, d.agent)
  BY <1>1, <1>2, <1>3, <1>4, <1>5, <1>7 DEF Binds, Bind
<1> QED
  BY <1>1, <1>3, <1>8 DEF Bind

\* An accepted event is about a task of its job's agent.
LEMMA AcceptedFacts ==
    ASSUME TypeOK, NEW j \in Jobs, Accepted(j)
    PROVE  /\ TaskOf(j) \in Tasks /\ task[TaskOf(j)].attempt = j
           /\ task[TaskOf(j)].agent = job[j].agent
           /\ task[TaskOf(j)].status \notin TerminalStatuses
           /\ \A u \in Tasks : task[u].attempt = j => TaskOf(j) <= u
BY TaskOfType DEF Accepted, Attempts

LEMMA PresentPresents ==
    ASSUME TypeOK, queue # <<>>, NEW j \in Jobs, Accepted(j), ~task[TaskOf(j)].presented,
           Present(j), UNCHANGED run
    PROVE  Presents(j)
<1> DEFINE t == TaskOf(j)
           new == [task[t] EXCEPT !.status = "active", !.attempt = started + 1, !.presented = TRUE]
<1>1. t \in Tasks
  BY AcceptedFacts
<1>2. task[t] \in TaskRecords /\ task[t].agent \in Agents \cup {NoAgent}
  BY <1>1, TaskTypes
<1>3. JobAdded(task[t].agent, t, "presentation") /\ started + 1 \in Jobs
  BY <1>1, <1>2, AddedIsJob DEF Present, JobAdded
<1>4. new \in TaskRecords /\ new.status = "active" /\ new.agent = task[t].agent
      /\ new.attempt = started + 1 /\ new.presented
  BY <1>2, <1>3 DEF TaskRecords, Statuses
<1>5. task' = [task EXCEPT ![t] = new]
  BY DEF Present
<1> HIDE DEF new
<1>6. OnlyTask(t) /\ task'[t] = new
  BY <1>1, <1>4, <1>5 DEF OnlyTask, TypeOK
<1> QED
  BY <1>3, <1>4, <1>6 DEF Presents, Present

LEMMA StatusFacts ==
    ASSUME TypeOK, NEW t \in Tasks, NEW s \in Statuses, task' = [task EXCEPT ![t].status = s]
    PROVE  /\ OnlyTask(t) /\ task'[t].status = s /\ task'[t].agent = task[t].agent
           /\ task'[t].attempt = task[t].attempt /\ task'[t].presented = task[t].presented
<1> DEFINE new == [task[t] EXCEPT !.status = s]
<1>1. task[t] \in TaskRecords
  BY TaskTypes
<1>2. new \in TaskRecords /\ new.status = s /\ new.agent = task[t].agent
      /\ new.attempt = task[t].attempt /\ new.presented = task[t].presented
  BY <1>1 DEF TaskRecords
<1>3. task' = [task EXCEPT ![t] = new]
  OBVIOUS
<1> HIDE DEF new
<1> QED
  BY <1>2, <1>3 DEF OnlyTask, TypeOK

LEMMA RecordRecords ==
    ASSUME TypeOK, NEW j \in Jobs, Accepted(j), NEW s \in TerminalStatuses, Record(j, s),
           JobsKept, UNCHANGED run
    PROVE  Records(j)
<1>1. TaskOf(j) \in Tasks /\ s \in Statuses
  BY AcceptedFacts DEF Statuses, TerminalStatuses
<1>2. task' = [task EXCEPT ![TaskOf(j)].status = s]
  BY DEF Record
<1> QED
  BY <1>1, <1>2, StatusFacts DEF Record, Records

LEMMA HandleOutcomeDoes ==
    ASSUME TypeOK, queue # <<>>, NEW j \in Jobs, NEW what \in {"running"} \cup Ends,
           Accepted(j), HandleOutcome(j, what), UNCHANGED run
    PROVE  Quiet \/ Reactivates(j) \/ Presents(j) \/ Records(j)
<1> DEFINE t == TaskOf(j)
<1>1. t \in Tasks /\ task[t].agent \in Agents \cup {NoAgent}
  BY AcceptedFacts, TaskTypes
<1>2. CASE what = "running" /\ StartNothing
           /\ task' = [task EXCEPT ![t].status = "active"] /\ UNCHANGED <<owner, floor, turns, listed>>
  BY <1>1, <1>2, StatusFacts, StartNothingFacts DEF Reactivates, Statuses
<1>3. CASE StartNothing /\ UNCHANGED durable
  BY <1>3, NothingKeeps DEF Quiet, durable
<1>4. CASE what \in TerminalStatuses /\ StartNothing /\ Record(j, what)
  BY <1>4, NothingKeeps, RecordRecords
<1>5. CASE HandleFallback(j)
  <2>1. CASE ~task[t].presented /\ Present(j)
    BY <2>1, PresentPresents
  <2>2. CASE StartFails(task[t].agent) /\ Record(j, "failed")
    BY <1>1, <2>2, FailedKeeps, RecordRecords DEF TerminalStatuses
  <2>3. CASE StartNothing /\ Record(j, "failed")
    BY <2>3, NothingKeeps, RecordRecords DEF TerminalStatuses
  <2> QED
    BY <1>5, <2>1, <2>2, <2>3 DEF HandleFallback, PresentationFails
<1> QED
  BY <1>2, <1>3, <1>4, <1>5 DEF HandleOutcome

\* Every step but a restart is one of these.
StepKinds ==
    \/ Quiet
    \/ \E t \in Tasks, a \in Agents : Binds(t, a)
    \/ \E j \in Jobs : Reactivates(j) \/ Presents(j) \/ Records(j)
    \/ \E a \in Agents : Closes(a)

LEMMA HandleTurnKind ==
    ASSUME TypeOK, HandleTurn
    PROVE  StepKinds
<1>1. queue # <<>>
  BY DEF HandleTurn
<1>2. ASSUME NEW d \in Decisions, Dispatch(d) PROVE StepKinds
  BY <1>1, <1>2, DispatchBinds, DecisionTypes DEF StepKinds
<1>3. ASSUME NEW d \in Decisions, DispatchFails(d) PROVE StepKinds
  BY <1>1, <1>3, FailedKeeps, DecisionTypes DEF StepKinds, DispatchFails, Quiet
<1>4. CASE Respond
  BY <1>1, <1>4, NothingKeeps DEF StepKinds, Respond, Quiet
<1> QED
  BY <1>2, <1>3, <1>4 DEF HandleTurn

LEMMA HandleJobEventDoes ==
    ASSUME TypeOK, HandleJobEvent
    PROVE  Quiet \/ \E j \in Jobs : Reactivates(j) \/ Presents(j) \/ Records(j)
<1> DEFINE e == Head(queue)
<1>1. queue # <<>> /\ e.job \in Jobs /\ e.what \in {"running"} \cup Ends /\ UNCHANGED run
  BY HeadTypes DEF HandleJobEvent
<1>2. CASE Accepted(e.job) /\ HandleOutcome(e.job, e.what)
  BY <1>1, <1>2, HandleOutcomeDoes
<1>3. CASE StartNothing /\ UNCHANGED durable
  BY <1>1, <1>3, NothingKeeps DEF Quiet, durable
<1> QED
  BY <1>2, <1>3 DEF HandleJobEvent

LEMMA HandleJobEventKind ==
    ASSUME TypeOK, HandleJobEvent
    PROVE  StepKinds
BY HandleJobEventDoes DEF StepKinds

LEMMA JobStateFacts ==
    ASSUME TypeOK, NEW j \in Jobs, NEW what \in Ends, job' = [job EXCEPT ![j].state = what]
    PROVE  /\ job' \in [Jobs -> JobRecords] /\ \A i \in Jobs : i # j => job'[i] = job[i]
           /\ job'[j].state = what /\ job'[j].task = job[j].task /\ job'[j].agent = job[j].agent
           /\ job'[j].why = job[j].why
<1> DEFINE new == [job[j] EXCEPT !.state = what]
<1>1. job[j] \in JobRecords
  BY DEF TypeOK
<1>2. new \in JobRecords /\ new.state = what /\ new.task = job[j].task
      /\ new.agent = job[j].agent /\ new.why = job[j].why
  BY <1>1 DEF JobRecords
<1>3. job' = [job EXCEPT ![j] = new]
  OBVIOUS
<1> HIDE DEF new
<1> QED
  BY <1>2, <1>3 DEF TypeOK

LEMMA OtherDoes ==
    ASSUME TypeOK, [Next]_vars, ~HandleTurn, ~HandleJobEvent, ~Restart
    PROVE  Quiet \/ \E a \in Agents : Closes(a)
<1> DEFINE Kind == Quiet \/ \E a \in Agents : Closes(a)
<1>1. CASE UserTurn
  BY <1>1 DEF UserTurn, Quiet, JobsKept, durable
<1>2. ASSUME NEW j \in Jobs, JobProgresses(j) PROVE Kind
  BY <1>2 DEF JobProgresses, Quiet, JobsKept, durable
<1>3. ASSUME NEW j \in Jobs, JobEnds(j) PROVE Kind
  <2>1. PICK what \in Ends : job' = [job EXCEPT ![j].state = what]
    BY <1>3 DEF JobEnds
  <2>2. UNCHANGED <<task, owner, listed, turns, run, started>>
    BY <1>3 DEF JobEnds, durable
  <2> QED
    BY <2>1, <2>2, JobStateFacts DEF Quiet, JobsKept
<1>4. ASSUME NEW j \in Jobs, Redeliver(j) PROVE Kind
  BY <1>4 DEF Redeliver, Quiet, JobsKept, durable
<1>5. ASSUME NEW j \in Jobs, Announce(j) PROVE Kind
  BY <1>5 DEF Announce, Quiet, JobsKept, durable
<1>6. ASSUME NEW a \in Agents, NewChapter(a) PROVE Kind
  BY <1>6 DEF NewChapter, Closes
<1>7. CASE UNCHANGED vars
  BY <1>7 DEF vars, durable, Quiet, JobsKept
<1> QED
  BY <1>1, <1>2, <1>3, <1>4, <1>5, <1>6, <1>7 DEF Next

LEMMA OtherKinds ==
    ASSUME TypeOK, [Next]_vars, ~HandleTurn, ~HandleJobEvent, ~Restart
    PROVE  StepKinds
BY OtherDoes DEF StepKinds

LEMMA Kinds ==
    ASSUME TypeOK, [Next]_vars
    PROVE  StepKinds \/ Restart
BY HandleTurnKind, HandleJobEventKind, OtherKinds

-----------------------------------------------------------------------------
(* Type correctness.                                                        *)

\* What the kinds of steps do to what they are about.
DurableType ==
    /\ task \in [Tasks -> TaskRecords]
    /\ owner \in [Tasks -> Agents \cup {NoAgent}]
    /\ turns \in Seq([task : Tasks, run : 1 .. MaxRuns, job : Jobs])
    /\ listed \in [Agents -> SUBSET Tasks]
    /\ run \in 1 .. MaxRuns

LEMMA KindsType ==
    ASSUME TypeOK, StepKinds
    PROVE  DurableType'
<1> USE DEF TypeOK, DurableType
<1>1. CASE Quiet
  BY <1>1 DEF Quiet
<1>2. ASSUME NEW t \in Tasks, NEW a \in Agents, Binds(t, a) PROVE DurableType'
  BY <1>2 DEF Binds, OnlyTask
<1>3. ASSUME NEW j \in Jobs, Reactivates(j) PROVE DurableType'
  BY <1>3 DEF Reactivates, OnlyTask
<1>4. ASSUME NEW j \in Jobs, Presents(j) PROVE DurableType'
  BY <1>4 DEF Presents, OnlyTask
<1>5. ASSUME NEW j \in Jobs, Records(j) PROVE DurableType'
  <2>1. TaskOf(j) \in Tasks
    BY <1>5, AcceptedFacts DEF Records
  <2> DEFINE turn == [task |-> TaskOf(j), run |-> run, job |-> j]
  <2>2. turn \in [task : Tasks, run : 1 .. MaxRuns, job : Jobs]
    BY <2>1
  <2>3. turns' = Append(turns, turn)
    BY <1>5 DEF Records
  <2> HIDE DEF turn
  <2>4. turns' \in Seq([task : Tasks, run : 1 .. MaxRuns, job : Jobs])
    BY <2>2, <2>3
  <2>5. listed' \in [Agents -> SUBSET Tasks]
    BY <1>5 DEF Records
  <2> QED
    BY <1>5, <2>4, <2>5 DEF Records, OnlyTask
<1>6. ASSUME NEW a \in Agents, Closes(a) PROVE DurableType'
  BY <1>6 DEF Closes
<1> QED
  BY <1>1, <1>2, <1>3, <1>4, <1>5, <1>6 DEF StepKinds

\* The rest of the state.
LiveType ==
    /\ floor \in Agents \cup {Butler}
    /\ job \in [Jobs -> JobRecords]
    /\ started \in 0 .. MaxJobs
    /\ queue \in Seq(Items)
    /\ asked \in 0 .. MaxTurns
    /\ routed \subseteq Jobs /\ tracked \subseteq Jobs /\ narrated \subseteq Jobs

LEMMA TypeSplit == TypeOK <=> DurableType /\ LiveType
BY DEF TypeOK, DurableType, LiveType

LEMMA StartFailsType ==
    ASSUME TypeOK, queue # <<>>, NEW a \in Agents \cup {NoAgent}, StartFails(a)
    PROVE  /\ job' \in [Jobs -> JobRecords] /\ started' \in 0 .. MaxJobs
           /\ queue' \in Seq(Items) /\ tracked' \subseteq Jobs
<1>1. CASE StartJob(a, NoTask, "none", "failed")
  BY <1>1, StartJobFacts DEF Ends
<1>2. CASE StartNothing
  BY <1>2, StartNothingFacts DEF TypeOK
<1> QED
  BY <1>1, <1>2 DEF StartFails

LEMMA RouteType ==
    ASSUME TypeOK, NEW t \in ActiveTasks, RouteOf(t)
    PROVE  routed' \subseteq Jobs
<1>1. task[t].attempt \in Jobs \cup {NoJob}
  BY TaskTypes DEF ActiveTasks
<1> QED
  BY <1>1 DEF RouteOf, TypeOK

LEMMA HandleTurnType ==
    ASSUME TypeOK, HandleTurn
    PROVE  LiveType'
<1>1. queue # <<>>
  BY DEF HandleTurn
<1>2. ASSUME NEW d \in Decisions, Dispatch(d) PROVE LiveType'
  <2>1. d.agent \in Agents
    BY DecisionTypes
  <2>2. PICK t \in Tasks : StartJob(d.agent, t, "turn", "running")
    BY <1>1, <1>2, DispatchBinds
  <2>3. /\ job' \in [Jobs -> JobRecords] /\ started' \in 0 .. MaxJobs /\ started + 1 \in Jobs
        /\ queue' \in Seq(Items) /\ tracked' \subseteq Jobs
    BY <1>1, <2>1, <2>2, StartJobFacts
  <2> QED
    BY <1>1, <1>2, <2>1, <2>3, DispatchBinds DEF LiveType, TypeOK
<1>3. ASSUME NEW d \in Decisions, DispatchFails(d) PROVE LiveType'
  <2>1. d.agent \in Agents /\ d.task \in ActiveTasks \cup {NoTask}
    BY DecisionTypes
  <2>2. routed' \subseteq Jobs
    BY <1>3, <2>1, RouteType DEF DispatchFails, TypeOK
  <2>3. StartFails(d.agent) /\ floor' = Butler /\ UNCHANGED <<asked, narrated>>
    BY <1>3 DEF DispatchFails
  <2> QED
    BY <1>1, <2>1, <2>2, <2>3, StartFailsType DEF LiveType, TypeOK
<1>4. CASE Respond
  <2>1. \A a : CurrentTasks(a) \ {NoTask} \subseteq ActiveTasks
    BY CurrentTypes
  <2>2. routed' \subseteq Jobs
    BY <1>4, <2>1, RouteType DEF Respond, TypeOK
  <2>3. StartNothing /\ floor' \in {Butler, floor} /\ UNCHANGED <<asked, narrated>>
    BY <1>4 DEF Respond
  <2> QED
    BY <1>1, <2>2, <2>3, StartNothingFacts DEF LiveType, TypeOK
<1> QED
  BY <1>2, <1>3, <1>4 DEF HandleTurn

\* What a handler leaves of the live state, when it leaves the floor alone.
HandlerTypes ==
    /\ job' \in [Jobs -> JobRecords] /\ started' \in 0 .. MaxJobs
    /\ queue' \in Seq(Items) /\ tracked' \subseteq Jobs /\ floor' = floor

LEMMA NothingTypes ==
    ASSUME TypeOK, queue # <<>>, StartNothing, floor' = floor
    PROVE  HandlerTypes
BY StartNothingFacts DEF TypeOK, HandlerTypes

LEMMA OutcomeTypes ==
    ASSUME TypeOK, queue # <<>>, NEW j \in Jobs, NEW what \in {"running"} \cup Ends,
           Accepted(j), HandleOutcome(j, what)
    PROVE  HandlerTypes
<1> DEFINE t == TaskOf(j)
<1>1. t \in Tasks /\ task[t].agent \in Agents \cup {NoAgent}
  BY AcceptedFacts, TaskTypes
<1>2. CASE Present(j)
  <2>1. StartJob(task[t].agent, t, "presentation", "running") /\ floor' = floor
    BY <1>2 DEF Present
  <2>2. /\ job' \in [Jobs -> JobRecords] /\ started' \in 0 .. MaxJobs
        /\ queue' \in Seq(Items) /\ tracked' \subseteq Jobs
    BY <1>1, <2>1, StartJobFacts
  <2> QED
    BY <2>1, <2>2 DEF HandlerTypes
<1>3. CASE PresentationFails(j)
  <2>1. StartFails(task[t].agent) /\ floor' = floor
    BY <1>3 DEF PresentationFails, Record
  <2> QED
    BY <1>1, <2>1, StartFailsType DEF HandlerTypes
<1>4. CASE StartNothing /\ UNCHANGED durable
  BY <1>4, NothingTypes DEF durable
<1>5. CASE StartNothing /\ \E s \in TerminalStatuses : Record(j, s)
  BY <1>5, NothingTypes DEF Record
<1>6. CASE StartNothing /\ UNCHANGED <<owner, floor, turns, listed>>
  BY <1>6, NothingTypes
<1>7. CASE HandleFallback(j)
  BY <1>2, <1>3, <1>5, <1>7 DEF HandleFallback, TerminalStatuses
<1> QED
  BY <1>4, <1>5, <1>6, <1>7 DEF HandleOutcome

LEMMA HandleJobEventType ==
    ASSUME TypeOK, HandleJobEvent
    PROVE  LiveType' /\ floor' = floor
<1> DEFINE j == Head(queue).job
           what == Head(queue).what
<1>1. queue # <<>> /\ j \in Jobs /\ what \in {"running"} \cup Ends
  BY HeadTypes DEF HandleJobEvent
<1>2. (Accepted(j) /\ HandleOutcome(j, what)) \/ (StartNothing /\ UNCHANGED durable)
  BY DEF HandleJobEvent
<1>3. HandlerTypes
  BY <1>1, <1>2, OutcomeTypes, NothingTypes DEF durable
<1> QED
  BY <1>3 DEF HandlerTypes, LiveType, TypeOK, HandleJobEvent

LEMMA DeliverType ==
    ASSUME TypeOK, NEW j \in Jobs, NEW what \in {"running"} \cup Ends, Deliver(j, what)
    PROVE  queue' \in Seq(Items) /\ tracked' \subseteq Jobs
BY EventType DEF Deliver, TypeOK

LEMMA OtherTypes ==
    ASSUME TypeOK, [Next]_vars, ~HandleTurn, ~HandleJobEvent, ~Restart
    PROVE  LiveType' /\ floor' = floor
<1>1. CASE UserTurn
  <2>1. [what |-> "turn", job |-> NoJob] \in Items
    BY DEF Items
  <2>2. queue' \in Seq(Items)
    BY <1>1, <2>1 DEF UserTurn, TypeOK
  <2>3. asked' \in 0 .. MaxTurns
    BY <1>1, HubAssumption DEF UserTurn, TypeOK
  <2> QED
    BY <1>1, <2>2, <2>3 DEF UserTurn, LiveType, TypeOK, durable, session
<1>2. ASSUME NEW j \in Jobs, JobProgresses(j) PROVE LiveType' /\ floor' = floor
  <2>1. PICK what \in {"running"} \cup TerminalStatuses : Deliver(j, what)
    BY <1>2 DEF JobProgresses
  <2>2. queue' \in Seq(Items) /\ tracked' \subseteq Jobs
    BY <2>1, DeliverType DEF Ends, TerminalStatuses
  <2> QED
    BY <1>2, <2>2 DEF JobProgresses, LiveType, TypeOK, durable
<1>3. ASSUME NEW j \in Jobs, JobEnds(j) PROVE LiveType' /\ floor' = floor
  <2>1. PICK what \in Ends : job' = [job EXCEPT ![j].state = what] /\ Deliver(j, what)
    BY <1>3 DEF JobEnds
  <2> QED
    BY <1>3, <2>1, JobStateFacts, DeliverType DEF JobEnds, LiveType, TypeOK, durable
<1>4. ASSUME NEW j \in Jobs, Redeliver(j) PROVE LiveType' /\ floor' = floor
  BY <1>4, DeliverType DEF Redeliver, LiveType, TypeOK, durable
<1>5. ASSUME NEW j \in Jobs, Announce(j) PROVE LiveType' /\ floor' = floor
  BY <1>5 DEF Announce, LiveType, TypeOK, durable
<1>6. ASSUME NEW a \in Agents, NewChapter(a) PROVE LiveType' /\ floor' = floor
  BY <1>6 DEF NewChapter, LiveType, TypeOK, session
<1>7. CASE UNCHANGED vars
  BY <1>7 DEF vars, durable, session, LiveType, TypeOK
<1> QED
  BY <1>1, <1>2, <1>3, <1>4, <1>5, <1>6, <1>7 DEF Next

LEMMA NewTypes ==
    /\ NewTask \in TaskRecords /\ NewTask.status = "none" /\ NewTask.attempt = NoJob
    /\ NewJob \in JobRecords /\ NewJob.task = NoTask /\ NewJob.why = "none"
BY DEF NewTask, NewJob, TaskRecords, JobRecords, Statuses

LEMMA InterruptedFacts ==
    ASSUME TypeOK, NEW t \in Tasks
    PROVE  /\ Interrupted(t) \in TaskRecords
           /\ task[t].status # "active" => Interrupted(t) = task[t]
           /\ task[t].status = "active"
                => Interrupted(t).status = "interrupted" /\ Interrupted(t).attempt = NoJob
BY TaskTypes DEF Interrupted, TaskRecords, Statuses

LEMMA RestartType ==
    ASSUME TypeOK, Restart
    PROVE  TypeOK'
<1>1. task' \in [Tasks -> TaskRecords]
  BY InterruptedFacts DEF Restart
<1>2. job' \in [Jobs -> JobRecords]
  BY NewTypes DEF Restart
<1>3. owner' \in [Tasks -> Agents \cup {NoAgent}] /\ listed' \in [Agents -> SUBSET Tasks]
  BY DEF Restart, TypeOK
<1>4. run' \in 1 .. MaxRuns /\ started' \in 0 .. MaxJobs /\ asked' \in 0 .. MaxTurns
  BY HubAssumption DEF Restart, TypeOK
<1>5. queue' \in Seq(Items) /\ routed' \subseteq Jobs /\ tracked' \subseteq Jobs /\ narrated' \subseteq Jobs
  BY DEF Restart
<1>6. UNCHANGED <<floor, turns>>
  BY DEF Restart
<1> QED
  BY <1>1, <1>2, <1>3, <1>4, <1>5, <1>6 DEF TypeOK

LEMMA TypeStep ==
    ASSUME TypeOK, [Next]_vars
    PROVE  TypeOK'
<1>1. CASE ~Restart
  <2>1. DurableType'
    BY <1>1, Kinds, KindsType
  <2>2. LiveType'
    BY <1>1, HandleTurnType, HandleJobEventType, OtherTypes
  <2> QED
    BY <2>1, <2>2 DEF TypeOK, DurableType, LiveType
<1> QED
  BY <1>1, RestartType

LEMMA TypeInit ==
    ASSUME Init
    PROVE  TypeOK
<1>1. 1 \in 1 .. MaxRuns /\ 0 \in 0 .. MaxJobs /\ 0 \in 0 .. MaxTurns
  BY HubAssumption
<1>2. task \in [Tasks -> TaskRecords] /\ job \in [Jobs -> JobRecords]
  BY NewTypes DEF Init
<1> QED
  BY <1>1, <1>2 DEF Init, TypeOK

\* Every variable of the hub keeps its type, for any number of agents, tasks,
\* jobs, turns and processes.
THEOREM TypeCorrect == Spec => []TypeOK
<1>1. Init => TypeOK
  BY TypeInit
<1>2. TypeOK /\ [Next]_vars => TypeOK'
  BY TypeStep
<1> QED
  BY <1>1, <1>2, PTL DEF Spec

-----------------------------------------------------------------------------
(* The floor.                                                               *)

\* Only a user turn moves the floor: no event of a job, no announcement, no new
\* chapter and no restart does (service.py:619-789).
THEOREM FloorIsTheUsers == Spec => FloorNotStolen
<1>1. ASSUME TypeOK, [Next]_vars
      PROVE  [queue # <<>> /\ queue' # queue /\ floor' # floor => Head(queue).what = "turn"]_vars
  <2>1. CASE HandleTurn
    BY <2>1 DEF HandleTurn
  <2>2. CASE ~HandleTurn
    <3>1. floor' = floor
      BY <1>1, <2>2, HandleJobEventType, OtherTypes DEF Restart
    <3> QED
      BY <3>1
  <2> QED
    BY <2>1, <2>2
<1> QED
  BY <1>1, TypeCorrect, PTL DEF Spec, FloorNotStolen

-----------------------------------------------------------------------------
(* Tasks, their jobs, their owners and the lists of the channels.           *)

\* A task that names a job is at work or settled; one at work names a job of
\* this process that was started for it.
AttemptInv ==
    \A t \in Tasks :
      /\ task[t].attempt # NoJob => task[t].status \in {"active"} \cup TerminalStatuses
      /\ task[t].status = "active" =>
           /\ task[t].attempt \in Jobs /\ task[t].attempt <= started
           /\ job[task[t].attempt].task = t
           /\ job[task[t].attempt].agent = task[t].agent

LEMMA JobNumbers ==
    ASSUME TypeOK
    PROVE  /\ \A j \in Jobs : j \in Nat /\ j # NoJob
           /\ started \in Nat /\ run \in Nat
BY HubAssumption DEF TypeOK, Jobs, NoJob

LEMMA AcceptedIsActive ==
    ASSUME TypeOK, AttemptInv, NEW j \in Jobs, Accepted(j)
    PROVE  /\ TaskOf(j) \in Tasks /\ task[TaskOf(j)].status = "active"
           /\ task[TaskOf(j)].attempt = j /\ j <= started /\ job[j].task = TaskOf(j)
           /\ job[j].agent = task[TaskOf(j)].agent
<1>1. TaskOf(j) \in Tasks /\ task[TaskOf(j)].attempt = j /\ task[TaskOf(j)].status \notin TerminalStatuses
  BY AcceptedFacts
<1>2. j # NoJob
  BY JobNumbers
<1>3. task[TaskOf(j)].status = "active"
  BY <1>1, <1>2 DEF AttemptInv
<1> QED
  BY <1>1, <1>3 DEF AttemptInv

\* Jobs that exist stay what they are.
LEMMA KeptJob ==
    ASSUME TypeOK, JobsKept, NEW j \in Jobs, j <= started
    PROVE  j <= started' /\ job'[j].task = job[j].task /\ job'[j].agent = job[j].agent
BY JobNumbers DEF JobsKept

LEMMA AddedKeepsJob ==
    ASSUME TypeOK, NEW a, NEW t, NEW why, JobAdded(a, t, why), NEW j \in Jobs, j <= started
    PROVE  j <= started' /\ job'[j] = job[j]
BY JobNumbers DEF JobAdded

LEMMA AttemptStep ==
    ASSUME TypeOK, AttemptInv, StepKinds \/ Restart
    PROVE  AttemptInv'
<1>1. CASE Quiet
  BY <1>1, KeptJob DEF Quiet, AttemptInv
<1>2. ASSUME NEW t \in Tasks, NEW a \in Agents, Binds(t, a) PROVE AttemptInv'
  <2>1. /\ started + 1 \in Jobs /\ started' = started + 1 /\ job'[started + 1].task = t
        /\ job'[started + 1].agent = a /\ JobAdded(a, t, "turn")
    BY <1>2 DEF Binds, JobAdded
  <2>2. \A u \in Tasks : u # t => task'[u] = task[u]
    BY <1>2 DEF Binds, OnlyTask
  <2>3. task'[t].status = "active" /\ task'[t].agent = a /\ task'[t].attempt = started + 1
    BY <1>2 DEF Binds
  <2> QED
    BY <2>1, <2>2, <2>3, AddedKeepsJob, JobNumbers DEF AttemptInv
<1>3. ASSUME NEW j \in Jobs, Reactivates(j) PROVE AttemptInv'
  BY <1>3, AcceptedIsActive DEF Reactivates, OnlyTask, AttemptInv
<1>4. ASSUME NEW j \in Jobs, Presents(j) PROVE AttemptInv'
  <2> DEFINE t == TaskOf(j)
  <2>1. /\ started + 1 \in Jobs /\ started' = started + 1 /\ job'[started + 1].task = t
        /\ job'[started + 1].agent = task[t].agent /\ JobAdded(task[t].agent, t, "presentation")
    BY <1>4 DEF Presents, JobAdded
  <2>2. \A u \in Tasks : u # t => task'[u] = task[u]
    BY <1>4 DEF Presents, OnlyTask
  <2>3. task'[t].status = "active" /\ task'[t].agent = task[t].agent /\ task'[t].attempt = started + 1
    BY <1>4 DEF Presents
  <2> QED
    BY <2>1, <2>2, <2>3, AddedKeepsJob, JobNumbers DEF AttemptInv
<1>5. ASSUME NEW j \in Jobs, Records(j) PROVE AttemptInv'
  <2> DEFINE t == TaskOf(j)
  <2>1. \A u \in Tasks : u # t => task'[u] = task[u]
    BY <1>5 DEF Records, OnlyTask
  <2>2. task'[t].status \in TerminalStatuses /\ JobsKept
    BY <1>5 DEF Records
  <2>3. \A u \in Tasks : task'[u].status = "active" => u # t
    BY <2>2 DEF TerminalStatuses
  <2> QED
    BY <2>1, <2>2, <2>3, KeptJob DEF AttemptInv
<1>6. ASSUME NEW a \in Agents, Closes(a) PROVE AttemptInv'
  BY <1>6 DEF Closes, AttemptInv
<1>7. CASE Restart
  <2>1. \A t \in Tasks : task'[t] = Interrupted(t)
    BY <1>7 DEF Restart
  <2> QED
    BY <2>1, InterruptedFacts DEF AttemptInv
<1> QED
  BY <1>1, <1>2, <1>3, <1>4, <1>5, <1>6, <1>7 DEF StepKinds

LEMMA OwnersStep ==
    ASSUME TypeOK, AttemptInv, OwnersAgree, StepKinds \/ Restart
    PROVE  OwnersAgree'
<1> DEFINE Agree == \A t \in Tasks : task[t].status = "active" =>
                      owner[t] = task[t].agent /\ owner[t] \in Agents
<1>1. Agree /\ (Agree' => OwnersAgree')
  BY DEF OwnersAgree, ActiveTasks
<1>2. ASSUME NEW j \in Jobs, Reactivates(j) \/ Presents(j) \/ Records(j) PROVE Agree'
  <2>1. /\ Accepted(j) /\ OnlyTask(TaskOf(j)) /\ owner' = owner
        /\ task'[TaskOf(j)].agent = task[TaskOf(j)].agent
    BY <1>2 DEF Reactivates, Presents, Records
  <2>2. task[TaskOf(j)].status = "active" /\ TaskOf(j) \in Tasks
    BY <2>1, AcceptedIsActive
  <2> QED
    BY <1>1, <2>1, <2>2 DEF OnlyTask
<1>3. ASSUME NEW t \in Tasks, NEW a \in Agents, Binds(t, a) PROVE Agree'
  <2>1. \A u \in Tasks : u # t => task'[u] = task[u] /\ owner'[u] = owner[u]
    BY <1>3 DEF Binds, OnlyTask, TypeOK
  <2>2. task'[t].agent = a /\ owner'[t] = a
    BY <1>3 DEF Binds, TypeOK
  <2> QED
    BY <1>1, <2>1, <2>2
<1>4. CASE Quiet \/ \E a \in Agents : Closes(a)
  BY <1>1, <1>4 DEF Quiet, Closes
<1>5. CASE Restart
  <2>1. ASSUME NEW t \in Tasks PROVE task'[t].status # "active"
    <3>1. task'[t] = Interrupted(t)
      BY <1>5 DEF Restart
    <3> QED
      BY <3>1, InterruptedFacts
  <2> QED
    BY <2>1 DEF OwnersAgree, ActiveTasks
<1> QED
  BY <1>1, <1>2, <1>3, <1>4, <1>5 DEF StepKinds

LEMMA ListsStep ==
    ASSUME TypeOK, AttemptInv, ListedIsLive, StepKinds \/ Restart
    PROVE  ListedIsLive'
<1>1. ASSUME NEW t \in Tasks, NEW a \in Agents, Binds(t, a) PROVE ListedIsLive'
  <2>1. \A u \in Tasks : u # t => task'[u] = task[u]
    BY <1>1 DEF Binds, OnlyTask
  <2>2. task'[t].status = "active"
    BY <1>1 DEF Binds
  <2>3. \A b \in Agents : listed'[b] \subseteq listed[b] \cup {t}
    BY <1>1 DEF Binds, TypeOK
  <2>4. \A b \in Agents : listed[b] \subseteq Tasks
    BY DEF TypeOK
  <2> QED
    BY <2>1, <2>2, <2>3, <2>4 DEF ListedIsLive
<1>2. ASSUME NEW j \in Jobs, Reactivates(j) \/ Presents(j) PROVE ListedIsLive'
  <2>1. OnlyTask(TaskOf(j)) /\ listed' = listed /\ task'[TaskOf(j)].status = "active"
    BY <1>2 DEF Reactivates, Presents
  <2>2. \A b \in Agents : listed[b] \subseteq Tasks
    BY DEF TypeOK
  <2> QED
    BY <2>1, <2>2 DEF OnlyTask, ListedIsLive
<1>3. ASSUME NEW j \in Jobs, Records(j) PROVE ListedIsLive'
  <2> DEFINE t == TaskOf(j)
  <2>1. Accepted(j) /\ OnlyTask(t) /\ task'[t].agent = task[t].agent
    BY <1>3 DEF Records
  <2>2. job[j].agent = task[t].agent
    BY <2>1, AcceptedFacts
  <2>3. listed' = [listed EXCEPT ![job[j].agent] = @ \ {t}]
    BY <1>3 DEF Records
  <2>4. \A b \in Agents : /\ listed'[b] \subseteq listed[b] /\ listed[b] \subseteq Tasks
                          /\ b = job[j].agent => t \notin listed'[b]
    BY <2>3 DEF TypeOK
  <2>5. \A b \in Agents : t \in listed'[b] => task'[t].agent # b
    BY <2>1, <2>2, <2>4
  <2>6. \A u \in Tasks : u # t => task'[u] = task[u]
    BY <2>1 DEF OnlyTask
  <2> HIDE DEF t
  <2> QED
    BY <2>4, <2>5, <2>6 DEF ListedIsLive
<1>4. CASE Quiet
  BY <1>4 DEF Quiet, ListedIsLive
<1>5. ASSUME NEW a \in Agents, Closes(a) PROVE ListedIsLive'
  BY <1>5 DEF Closes, ListedIsLive, TypeOK
<1>6. CASE Restart
  <2>1. \A b \in Agents : listed'[b] = listed[b] \ ActiveTasks /\ listed[b] \subseteq Tasks
    BY <1>6 DEF Restart, TypeOK
  <2>2. \A t \in Tasks : t \notin ActiveTasks => task'[t] = task[t] /\ task[t].status # "active"
    BY <1>6, InterruptedFacts DEF Restart, ActiveTasks
  <2> QED
    BY <2>1, <2>2 DEF ListedIsLive
<1> QED
  BY <1>1, <1>2, <1>3, <1>4, <1>5, <1>6 DEF StepKinds

-----------------------------------------------------------------------------
(* The transcript.                                                          *)

\* An outcome of this process is about a job it started for the task, and no
\* task is at work on that job any more; an attempt has one outcome.
TurnInv ==
    \A i \in DOMAIN turns :
      /\ turns[i].run <= run
      /\ turns[i].run = run =>
           /\ turns[i].job <= started /\ job[turns[i].job].task = turns[i].task
           /\ \A t \in Tasks : task[t].status = "active" => task[t].attempt # turns[i].job
      /\ \A k \in DOMAIN turns :
           turns[k].run = turns[i].run /\ turns[k].job = turns[i].job => k = i

LEMMA TurnTypes ==
    ASSUME TypeOK, NEW i \in DOMAIN turns
    PROVE  turns[i].task \in Tasks /\ turns[i].run \in Nat /\ turns[i].job \in Jobs
           /\ turns[i].job # NoJob
<1> DEFINE T == [task : Tasks, run : 1 .. MaxRuns, job : Jobs]
<1>2. turns \in Seq(T)
  BY DEF TypeOK
<1>1. turns[i] \in T
  <2> HIDE DEF T
  <2> QED
    BY <1>2
<1> QED
  BY <1>1, JobNumbers, HubAssumption

LEMMA TurnStep ==
    ASSUME TypeOK, AttemptInv, TurnInv, StepKinds \/ Restart
    PROVE  TurnInv'
<1>1. CASE Quiet
  BY <1>1, KeptJob, TurnTypes DEF Quiet, TurnInv
<1>2. ASSUME NEW t \in Tasks, NEW a \in Agents, Binds(t, a) PROVE TurnInv'
  <2>1. JobAdded(a, t, "turn") /\ UNCHANGED <<turns, run>>
    BY <1>2 DEF Binds
  <2>2. \A u \in Tasks : u # t => task'[u] = task[u]
    BY <1>2 DEF Binds, OnlyTask
  <2>3. task'[t].attempt = started + 1
    BY <1>2 DEF Binds
  <2>4. \A i \in DOMAIN turns : turns[i].job <= started =>
           turns[i].job <= started' /\ job'[turns[i].job] = job[turns[i].job]
           /\ started + 1 # turns[i].job
    BY <2>1, TurnTypes, AddedKeepsJob, JobNumbers
  <2> QED
    BY <2>1, <2>2, <2>3, <2>4 DEF TurnInv
<1>3. ASSUME NEW j \in Jobs, Reactivates(j) PROVE TurnInv'
  <2>1. UNCHANGED <<job, started, turns, run>> /\ Accepted(j)
    BY <1>3 DEF Reactivates
  <2>2. \A u \in Tasks : task'[u].status = "active" =>
                          task[u].status = "active" /\ task'[u].attempt = task[u].attempt
    BY <1>3, <2>1, AcceptedIsActive DEF Reactivates, OnlyTask
  <2> QED
    BY <2>1, <2>2 DEF TurnInv
<1>4. ASSUME NEW j \in Jobs, Presents(j) PROVE TurnInv'
  <2> DEFINE t == TaskOf(j)
  <2>1. JobAdded(task[t].agent, t, "presentation") /\ UNCHANGED <<turns, run>>
    BY <1>4 DEF Presents
  <2>2. \A u \in Tasks : u # t => task'[u] = task[u]
    BY <1>4 DEF Presents, OnlyTask
  <2>3. task'[t].attempt = started + 1
    BY <1>4 DEF Presents
  <2>4. \A i \in DOMAIN turns : turns[i].job <= started =>
           turns[i].job <= started' /\ job'[turns[i].job] = job[turns[i].job]
           /\ started + 1 # turns[i].job
    BY <2>1, TurnTypes, AddedKeepsJob, JobNumbers
  <2> QED
    BY <2>1, <2>2, <2>3, <2>4 DEF TurnInv
<1>5. ASSUME NEW j \in Jobs, Records(j) PROVE TurnInv'
  <2> DEFINE t == TaskOf(j)
             turn == [task |-> t, run |-> run, job |-> j]
  <2>1. Accepted(j) /\ JobsKept /\ run' = run
    BY <1>5 DEF Records
  <2>2. /\ t \in Tasks /\ task[t].status = "active" /\ task[t].attempt = j /\ j <= started
        /\ job[j].task = t
    BY <2>1, AcceptedIsActive
  <2>3. \A u \in Tasks : task'[u].status = "active" => task'[u] = task[u] /\ u # t
    BY <1>5 DEF Records, OnlyTask, TerminalStatuses
  <2>4. \A u \in Tasks : task'[u].status = "active" => task'[u].attempt # j
    BY <2>2, <2>3 DEF AttemptInv
  <2>5. turn.task = t /\ turn.run = run /\ turn.job = j
    OBVIOUS
  <2>6. turns' = Append(turns, turn)
    BY <1>5 DEF Records
  <2> HIDE DEF turn
  <2>7. /\ DOMAIN turns' = DOMAIN turns \cup {Len(turns) + 1}
        /\ Len(turns) + 1 \notin DOMAIN turns
        /\ turns'[Len(turns) + 1] = turn
        /\ \A i \in DOMAIN turns : turns'[i] = turns[i]
    BY <2>6 DEF TypeOK
  <2>8. \A i \in DOMAIN turns : turns[i].run = run => turns[i].job # j
    BY <2>2 DEF TurnInv
  <2>9. j <= started' /\ job'[j].task = t
    BY <2>1, <2>2, KeptJob
  <2>10. \A i \in DOMAIN turns : turns[i].run = run =>
            turns[i].job <= started' /\ job'[turns[i].job].task = turns[i].task
    BY <2>1, TurnTypes, KeptJob DEF TurnInv
  <2>11. \A i \in DOMAIN turns : turns[i].run <= run
    BY DEF TurnInv
  <2>12. ASSUME NEW i \in DOMAIN turns' PROVE
           /\ turns'[i].run <= run
           /\ turns'[i].run = run =>
                /\ turns'[i].job <= started' /\ job'[turns'[i].job].task = turns'[i].task
                /\ \A u \in Tasks : task'[u].status = "active" => task'[u].attempt # turns'[i].job
           /\ \A k \in DOMAIN turns' :
                turns'[k].run = turns'[i].run /\ turns'[k].job = turns'[i].job => k = i
    <3>1. CASE i = Len(turns) + 1
      BY <2>4, <2>5, <2>7, <2>8, <2>9, <3>1, JobNumbers
    <3>2. CASE i \in DOMAIN turns
      BY <2>3, <2>5, <2>7, <2>8, <2>10, <2>11, <3>2 DEF TurnInv
    <3> QED
      BY <2>7, <3>1, <3>2
  <2> QED
    BY <2>1, <2>12 DEF TurnInv
<1>6. ASSUME NEW a \in Agents, Closes(a) PROVE TurnInv'
  BY <1>6 DEF Closes, TurnInv
<1>7. CASE Restart
  <2>1. turns' = turns /\ run' = run + 1
    BY <1>7 DEF Restart
  <2>2. \A i \in DOMAIN turns : turns[i].run <= run' /\ turns[i].run # run'
    BY <2>1, TurnTypes, JobNumbers DEF TurnInv
  <2> QED
    BY <2>1, <2>2 DEF TurnInv
<1> QED
  BY <1>1, <1>2, <1>3, <1>4, <1>5, <1>6, <1>7 DEF StepKinds

-----------------------------------------------------------------------------
(* Jobs that are not started yet, and how often a task was presented.       *)

FreshInv == \A j \in Jobs : j > started => job[j].task = NoTask

Reasons == {"turn", "presentation"}
JobsFor(t, why) == {j \in Jobs : job[j].task = t /\ job[j].why = why}

\* One more job for t is a turn's as long as t can still be presented.
CountInv ==
    \A t \in Tasks :
      /\ Cardinality(JobsFor(t, "presentation")) <= Cardinality(JobsFor(t, "turn"))
      /\ task[t].status = "active" /\ ~task[t].presented
           => Cardinality(JobsFor(t, "presentation")) + 1 <= Cardinality(JobsFor(t, "turn"))

LEMMA JobsForFinite ==
    ASSUME NEW t, NEW why
    PROVE  IsFiniteSet(JobsFor(t, why)) /\ Cardinality(JobsFor(t, why)) \in Nat
<1>1. IsFiniteSet(Jobs)
  BY FS_Interval, HubAssumption DEF Jobs
<1>2. JobsFor(t, why) \subseteq Jobs
  BY DEF JobsFor
<1> QED
  BY <1>1, <1>2, FS_Subset, FS_CardinalityType

LEMMA KeptJobsFor ==
    ASSUME TypeOK, FreshInv, JobsKept
    PROVE  FreshInv' /\ \A t \in Tasks, why \in Reasons : JobsFor(t, why)' = JobsFor(t, why)
<1>1. \A t \in Tasks : t # NoTask
  BY HubAssumption DEF Tasks, NoTask
<1>2. FreshInv'
  BY JobNumbers DEF FreshInv, JobsKept
<1>3. ASSUME NEW t \in Tasks, NEW why, NEW j \in Jobs
      PROVE  job'[j].task = t /\ job'[j].why = why <=> job[j].task = t /\ job[j].why = why
  <2>1. CASE job'[j].task = job[j].task /\ job'[j].why = job[j].why
    BY <2>1
  <2>2. CASE j = started + 1 /\ job'[j].task = NoTask
    <3>1. job[j].task = NoTask
      BY <2>2, JobNumbers DEF FreshInv
    <3> QED
      BY <1>1, <2>2, <3>1
  <2> QED
    BY <2>1, <2>2 DEF JobsKept
<1> QED
  BY <1>2, <1>3 DEF JobsFor

LEMMA AddedJobsFor ==
    ASSUME TypeOK, FreshInv, NEW a, NEW t \in Tasks, NEW why \in Reasons, JobAdded(a, t, why)
    PROVE  /\ FreshInv'
           /\ \A u \in Tasks, w \in Reasons : u # t \/ w # why => JobsFor(u, w)' = JobsFor(u, w)
           /\ Cardinality(JobsFor(t, why)') = Cardinality(JobsFor(t, why)) + 1
<1>1. \A u \in Tasks : u # NoTask
  BY HubAssumption DEF Tasks, NoTask
<1>2. FreshInv'
  BY JobNumbers DEF FreshInv, JobAdded
<1>3. started + 1 \in Jobs /\ job[started + 1].task = NoTask
  BY JobNumbers DEF JobAdded, FreshInv
<1>4. \A u \in Tasks, w \in Reasons : u # t \/ w # why => JobsFor(u, w)' = JobsFor(u, w)
  BY <1>1, <1>3 DEF JobAdded, JobsFor
<1>5. JobsFor(t, why)' = JobsFor(t, why) \cup {started + 1} /\ started + 1 \notin JobsFor(t, why)
  BY <1>1, <1>3 DEF JobAdded, JobsFor
<1>6. Cardinality(JobsFor(t, why) \cup {started + 1}) = Cardinality(JobsFor(t, why)) + 1
  BY <1>5, JobsForFinite, FS_AddElement
<1> QED
  BY <1>2, <1>4, <1>5, <1>6

LEMMA CountStep ==
    ASSUME TypeOK, AttemptInv, FreshInv, CountInv, StepKinds \/ Restart
    PROVE  FreshInv' /\ CountInv'
<1> DEFINE P(t) == Cardinality(JobsFor(t, "presentation"))
           N(t) == Cardinality(JobsFor(t, "turn"))
<1>1. \A t \in Tasks : P(t) \in Nat /\ N(t) \in Nat
  BY JobsForFinite
<1>2. CASE Quiet
  <2>1. JobsKept /\ task' = task
    BY <1>2 DEF Quiet
  <2> QED
    BY <2>1, KeptJobsFor DEF CountInv, Reasons
<1>3. ASSUME NEW t \in Tasks, NEW a \in Agents, Binds(t, a) PROVE FreshInv' /\ CountInv'
  <2>1. JobAdded(a, t, "turn") /\ \A u \in Tasks : u # t => task'[u] = task[u]
    BY <1>3 DEF Binds, OnlyTask
  <2>2. /\ FreshInv' /\ \A u \in Tasks, w \in Reasons : u # t \/ w # "turn" => JobsFor(u, w)' = JobsFor(u, w)
        /\ Cardinality(JobsFor(t, "turn")') = Cardinality(JobsFor(t, "turn")) + 1
    BY <2>1, AddedJobsFor DEF Reasons
  <2>3. \A u \in Tasks : JobsFor(u, "presentation")' = JobsFor(u, "presentation")
    BY <2>2 DEF Reasons
  <2>4. \A u \in Tasks : u # t => JobsFor(u, "turn")' = JobsFor(u, "turn")
    BY <2>2 DEF Reasons
  <2> QED
    BY <1>1, <2>1, <2>2, <2>3, <2>4 DEF CountInv
<1>4. ASSUME NEW j \in Jobs, Reactivates(j) PROVE FreshInv' /\ CountInv'
  <2>1. UNCHANGED <<job, started>> /\ OnlyTask(TaskOf(j)) /\ Accepted(j)
        /\ task'[TaskOf(j)].presented = task[TaskOf(j)].presented
    BY <1>4 DEF Reactivates
  <2>2. task[TaskOf(j)].status = "active"
    BY <2>1, AcceptedIsActive
  <2>3. \A t \in Tasks : task'[t].status = "active" /\ ~task'[t].presented
                          => task[t].status = "active" /\ ~task[t].presented
    BY <2>1, <2>2 DEF OnlyTask
  <2> QED
    BY <2>1, <2>3 DEF CountInv, FreshInv, JobsFor
<1>5. ASSUME NEW j \in Jobs, Presents(j) PROVE FreshInv' /\ CountInv'
  <2>0. PICK t \in Tasks : t = TaskOf(j) /\ task[t].status = "active"
    BY <1>5, AcceptedIsActive DEF Presents
  <2>1. /\ JobAdded(task[t].agent, t, "presentation") /\ OnlyTask(t)
        /\ ~task[t].presented /\ task'[t].presented
    BY <1>5, <2>0 DEF Presents
  <2>3. \A u \in Tasks : u # t => task'[u] = task[u]
    BY <2>1 DEF OnlyTask
  <2>4. /\ FreshInv'
        /\ \A u \in Tasks, w \in Reasons : u # t \/ w # "presentation" => JobsFor(u, w)' = JobsFor(u, w)
        /\ Cardinality(JobsFor(t, "presentation")') = Cardinality(JobsFor(t, "presentation")) + 1
    BY <2>1, AddedJobsFor DEF Reasons
  <2>5. \A u \in Tasks : JobsFor(u, "turn")' = JobsFor(u, "turn")
    BY <2>4 DEF Reasons
  <2>6. \A u \in Tasks : u # t => JobsFor(u, "presentation")' = JobsFor(u, "presentation")
    BY <2>4 DEF Reasons
  <2> QED
    BY <1>1, <2>0, <2>1, <2>3, <2>4, <2>5, <2>6 DEF CountInv
<1>6. ASSUME NEW j \in Jobs, Records(j) PROVE FreshInv' /\ CountInv'
  <2>1. JobsKept /\ OnlyTask(TaskOf(j)) /\ task'[TaskOf(j)].status \in TerminalStatuses
    BY <1>6 DEF Records
  <2>2. \A t \in Tasks : task'[t].status = "active" => task'[t] = task[t]
    BY <2>1 DEF OnlyTask, TerminalStatuses
  <2>3. FreshInv' /\ \A t \in Tasks, why \in Reasons : JobsFor(t, why)' = JobsFor(t, why)
    BY <2>1, KeptJobsFor
  <2> QED
    BY <2>2, <2>3 DEF CountInv, Reasons
<1>7. ASSUME NEW a \in Agents, Closes(a) PROVE FreshInv' /\ CountInv'
  BY <1>7 DEF Closes, CountInv, FreshInv, JobsFor
<1>8. CASE Restart
  <2>1. \A j \in Jobs : job'[j].task = NoTask
    BY <1>8, NewTypes DEF Restart
  <2>2. \A t \in Tasks, why \in Reasons : JobsFor(t, why)' = {}
    BY <2>1, HubAssumption DEF JobsFor, Tasks, NoTask
  <2>3. ASSUME NEW t \in Tasks PROVE task'[t].status # "active"
    <3>1. task'[t] = Interrupted(t)
      BY <1>8 DEF Restart
    <3> QED
      BY <3>1, InterruptedFacts
  <2>4. \A t \in Tasks, why \in Reasons : Cardinality(JobsFor(t, why))' = 0
    BY <2>2, FS_EmptySet
  <2> QED
    BY <2>1, <2>3, <2>4 DEF FreshInv, CountInv, Reasons
<1> QED
  BY <1>2, <1>3, <1>4, <1>5, <1>6, <1>7, <1>8 DEF StepKinds

-----------------------------------------------------------------------------
(* What can still settle a task.                                            *)

Elements(q) == {q[i] : i \in DOMAIN q}
InQueue == Elements(queue)

\* Jobs that do not exist have no state.  Events are those of jobs that do, and one
\* that no marker can have sent says how its job ended.
EventInv ==
    /\ \A j \in Jobs : j > started => job[j].state = "none"
    /\ \A e \in InQueue : e.what # "turn" =>
         e.job <= started /\ (e.what = "cancelled" => job[e.job].state = "cancelled")

Busy(j) == job[j].state \in {"running", "cancelled"} \/ Pending(j)

\* An older task has the job id of t.
Borne(t) == \E u \in Tasks : u < t /\ task[u].attempt = task[t].attempt

AwaitInv == \A t \in Tasks : task[t].status = "active" => Busy(task[t].attempt) \/ Borne(t)

LEMMA TailElements ==
    ASSUME NEW S, NEW q \in Seq(S), q # <<>>
    PROVE  Elements(q) = Elements(Tail(q)) \cup {Head(q)}
<1>1. /\ Len(q) \in Nat /\ Len(q) # 0 /\ DOMAIN q = 1 .. Len(q) /\ Head(q) = q[1]
      /\ DOMAIN Tail(q) = 1 .. Len(q) - 1 /\ \A i \in 1 .. Len(q) - 1 : Tail(q)[i] = q[i + 1]
  OBVIOUS
<1>2. ASSUME NEW i \in DOMAIN q, i # 1 PROVE i - 1 \in DOMAIN Tail(q) /\ Tail(q)[i - 1] = q[i]
  BY <1>1, <1>2
<1>3. ASSUME NEW i \in DOMAIN Tail(q) PROVE i + 1 \in DOMAIN q /\ Tail(q)[i] = q[i + 1]
  BY <1>1
<1>4. 1 \in DOMAIN q
  BY <1>1
<1>5. Elements(q) \subseteq Elements(Tail(q)) \cup {Head(q)}
  <2>1. ASSUME NEW i \in DOMAIN q PROVE q[i] \in Elements(Tail(q)) \cup {Head(q)}
    BY <1>1, <1>2 DEF Elements
  <2> QED
    BY <2>1 DEF Elements
<1>6. Elements(Tail(q)) \cup {Head(q)} \subseteq Elements(q)
  <2>1. ASSUME NEW i \in DOMAIN Tail(q) PROVE Tail(q)[i] \in Elements(q)
    BY <1>3 DEF Elements
  <2>2. Head(q) \in Elements(q)
    BY <1>1, <1>4 DEF Elements
  <2> QED
    BY <2>1, <2>2 DEF Elements
<1> QED
  BY <1>5, <1>6

LEMMA AppendElements ==
    ASSUME NEW S, NEW q \in Seq(S), NEW e \in S
    PROVE  Elements(Append(q, e)) = Elements(q) \cup {e}
<1>1. /\ DOMAIN Append(q, e) = DOMAIN q \cup {Len(q) + 1}
      /\ Append(q, e)[Len(q) + 1] = e
      /\ \A i \in DOMAIN q : Append(q, e)[i] = q[i]
  OBVIOUS
<1> QED
  BY <1>1 DEF Elements

PendingIsIn == \A i : Pending(i) <=> \E f \in InQueue : f.job = i /\ f.what \in Ends

LEMMA PendingInQueue == PendingIsIn
BY DEF PendingIsIn, Pending, InQueue, Elements

\* A handler takes only the event it handles out of the queue.
BusyKept ==
    \A j \in Jobs : /\ Busy(j) /\ (Head(queue).what \in Ends => Head(queue).job # j)
                    /\ j <= started
                    => Busy(j)'

LEMMA NothingLive ==
    ASSUME TypeOK, EventInv, queue # <<>>, StartNothing
    PROVE  EventInv' /\ BusyKept /\ job' = job
<1>1. job' = job /\ started' = started /\ queue' = Tail(queue)
  BY StartNothingFacts
<1>2. InQueue = InQueue' \cup {Head(queue)}
  BY <1>1, TailElements DEF TypeOK, InQueue
<1>3. PendingIsIn'
  BY PendingInQueue, PTL
<1> QED
  BY <1>1, <1>2, <1>3, PendingInQueue DEF PendingIsIn, EventInv, BusyKept, Busy

LEMMA StartedLive ==
    ASSUME TypeOK, EventInv, queue # <<>>, NEW a \in Agents \cup {NoAgent},
           NEW t \in Tasks \cup {NoTask}, NEW why \in {"none", "turn", "presentation"},
           NEW state \in {"running", "failed"}, StartJob(a, t, why, state)
    PROVE  EventInv' /\ BusyKept /\ job'[started + 1].state = state
<1> DEFINE e == Event(started + 1, state)
<1>1. /\ started + 1 \in Jobs /\ started' = started + 1
      /\ \A j \in Jobs : j # started + 1 => job'[j] = job[j]
      /\ job'[started + 1].state = state
      /\ queue' = Append(Tail(queue), e) /\ Tail(queue) \in Seq(Items) /\ e \in Items
  <2>1. /\ started + 1 \in Jobs /\ started' = started + 1
        /\ \A j \in Jobs : j # started + 1 => job'[j] = job[j]
        /\ job'[started + 1].state = state
        /\ queue' = Append(Tail(queue), Event(started + 1, state))
    <3> DEFINE new == [agent |-> a, task |-> t, why |-> why, state |-> state]
    <3>1. started + 1 \in Jobs /\ started' = started + 1
      BY HubAssumption DEF StartJob, TypeOK, Jobs
    <3>2. job' = [job EXCEPT ![started + 1] = new] /\ job \in [Jobs -> JobRecords]
      BY DEF StartJob, TypeOK
    <3>3. new.state = state /\ queue' = Append(Tail(queue), Event(started + 1, state))
      BY DEF StartJob, Waiting
    <3> HIDE DEF new
    <3> QED
      BY <3>1, <3>2, <3>3
  <2>2. e \in Items
    BY <2>1, EventType DEF Ends
  <2> QED
    BY <2>1, <2>2, HeadTypes
<1>2. e.job = started + 1 /\ e.what = state
  BY DEF Event
<1> HIDE DEF e
<1>3. InQueue = Elements(Tail(queue)) \cup {Head(queue)}
  BY TailElements DEF TypeOK, InQueue
<1>4. InQueue' = Elements(Tail(queue)) \cup {e}
  <2>1. ASSUME NEW q \in Seq(Items) PROVE Elements(Append(q, e)) = Elements(q) \cup {e}
    BY <1>1, AppendElements
  <2> QED
    BY <1>1, <2>1 DEF InQueue
<1>5. InQueue' \subseteq InQueue \cup {e} /\ InQueue \subseteq InQueue' \cup {Head(queue)}
  BY <1>3, <1>4
<1>6. PendingIsIn'
  BY PendingInQueue, PTL
<1>7. \A f \in InQueue : f.what # "turn" => f.job \in Jobs
  BY DEF InQueue, Elements, TypeOK, Items
<1>8. EventInv'
  <2>1. \A j \in Jobs : j > started' => job'[j].state = "none"
    BY <1>1, JobNumbers DEF EventInv
  <2>2. ASSUME NEW f \in InQueue', f.what # "turn"
        PROVE  f.job <= started' /\ (f.what = "cancelled" => job'[f.job].state = "cancelled")
    <3>1. CASE f = e
      BY <1>1, <1>2, <3>1, JobNumbers
    <3>2. CASE f \in InQueue
      <4>1. f.job \in Jobs /\ f.job <= started /\ (f.what = "cancelled" => job[f.job].state = "cancelled")
        BY <1>7, <2>2, <3>2 DEF EventInv
      <4>2. f.job # started + 1 /\ f.job <= started'
        BY <1>1, <4>1, JobNumbers
      <4> QED
        BY <1>1, <4>1, <4>2
    <3> QED
      BY <1>5, <3>1, <3>2
  <2> QED
    BY <2>1, <2>2 DEF EventInv
<1>9. BusyKept
  <2>1. \A j \in Jobs : j <= started => job'[j] = job[j]
    BY <1>1, JobNumbers
  <2> QED
    BY <1>5, <1>6, <2>1, PendingInQueue DEF PendingIsIn, BusyKept, Busy
<1> QED
  BY <1>1, <1>8, <1>9

LEMMA FailsLive ==
    ASSUME TypeOK, EventInv, queue # <<>>, NEW a \in Agents \cup {NoAgent}, StartFails(a)
    PROVE  EventInv' /\ BusyKept
<1>1. CASE StartJob(a, NoTask, "none", "failed")
  BY <1>1, StartedLive
<1>2. CASE StartNothing
  BY <1>2, NothingLive
<1> QED
  BY <1>1, <1>2 DEF StartFails

\* Outside the handlers, events only join the queue.
LEMMA DeliverLive ==
    ASSUME TypeOK, EventInv, NEW j \in Jobs, NEW what \in {"running"} \cup Ends, Deliver(j, what),
           started' = started, j <= started, what = "cancelled" => job'[j].state = "cancelled",
           \A i \in Jobs : i # j => job'[i] = job[i],
           job'[j] = job[j] \/ (job[j].state = "running" /\ what \in Ends)
    PROVE  EventInv' /\ \A i \in Jobs : Busy(i) => Busy(i)'
<1> DEFINE e == Event(j, what)
<1>1. e \in Items /\ e.job = j /\ e.what = what /\ queue' = Append(queue, e)
  BY EventType DEF Event, Deliver
<1> HIDE DEF e
<1>2. InQueue' = InQueue \cup {e}
  BY <1>1, AppendElements DEF TypeOK, InQueue
<1>3. PendingIsIn'
  BY PendingInQueue, PTL
<1>4. \A f \in InQueue : f.what # "turn" => f.job \in Jobs
  BY DEF InQueue, Elements, TypeOK, Items
<1>6. \A f \in InQueue : f.what = "cancelled" => job'[f.job].state = "cancelled"
  BY <1>4 DEF EventInv
<1>7. \A i \in Jobs : i > started => job'[i].state = "none"
  BY JobNumbers DEF EventInv
<1>8. EventInv'
  BY <1>1, <1>2, <1>6, <1>7 DEF EventInv
<1>9. \A i \in Jobs : Busy(i) => Busy(i)'
  BY <1>1, <1>2, <1>3, PendingInQueue DEF PendingIsIn, Busy
<1> QED
  BY <1>8, <1>9

LEMMA OtherLive ==
    ASSUME TypeOK, EventInv, [Next]_vars, ~HandleTurn, ~HandleJobEvent, ~Restart
    PROVE  /\ EventInv' /\ task' = task
           /\ \A i \in Jobs : Busy(i) => Busy(i)'
<1> DEFINE Good == /\ EventInv' /\ task' = task
                   /\ \A i \in Jobs : Busy(i) => Busy(i)'
<1>1. CASE UserTurn
  <2> DEFINE e == [what |-> "turn", job |-> NoJob]
  <2>1. e \in Items /\ e.what = "turn"
    BY DEF Items
  <2>2. queue' = Append(queue, e) /\ UNCHANGED <<task, job, started>>
    BY <1>1 DEF UserTurn, durable
  <2> HIDE DEF e
  <2>3. InQueue' = InQueue \cup {e}
    BY <2>1, <2>2, AppendElements DEF TypeOK, InQueue
  <2>4. PendingIsIn'
    BY PendingInQueue, PTL
  <2> QED
    BY <2>1, <2>2, <2>3, <2>4, PendingInQueue DEF PendingIsIn, EventInv, Busy
<1>2. ASSUME NEW j \in Jobs, JobProgresses(j) PROVE Good
  <2>1. /\ UNCHANGED <<task, job, started>> /\ job[j].state = "running"
        /\ \E what \in {"running", "done", "failed"} : Deliver(j, what)
    BY <1>2 DEF JobProgresses, durable, TerminalStatuses
  <2>2. j <= started
    BY <2>1, JobNumbers DEF EventInv
  <2> QED
    BY <2>1, <2>2, DeliverLive DEF Ends
<1>3. ASSUME NEW j \in Jobs, JobEnds(j) PROVE Good
  <2>1. PICK what \in Ends : job' = [job EXCEPT ![j].state = what] /\ Deliver(j, what)
    BY <1>3 DEF JobEnds
  <2>2. UNCHANGED <<task, started>> /\ job[j].state = "running"
    BY <1>3 DEF JobEnds, durable
  <2>3. j <= started
    BY <2>2, JobNumbers DEF EventInv
  <2> QED
    BY <2>1, <2>2, <2>3, DeliverLive, JobStateFacts
<1>4. ASSUME NEW j \in Jobs, Redeliver(j) PROVE Good
  <2>1. Deliver(j, job[j].state) /\ UNCHANGED <<task, job, started>> /\ job[j].state \in Ends
    BY <1>4 DEF Redeliver, durable
  <2>2. j <= started
    BY <2>1, JobNumbers DEF EventInv, Ends
  <2> QED
    BY <2>1, <2>2, DeliverLive
<1>5. ASSUME UNCHANGED <<task, job, started, queue>> PROVE Good
  BY <1>5 DEF EventInv, Busy, Pending, InQueue
<1>6. ASSUME NEW j \in Jobs, Announce(j) PROVE Good
  BY <1>5, <1>6 DEF Announce, durable
<1>7. ASSUME NEW a \in Agents, NewChapter(a) PROVE Good
  BY <1>5, <1>7 DEF NewChapter
<1>8. CASE UNCHANGED vars
  BY <1>5, <1>8 DEF vars, durable
<1> QED
  BY <1>1, <1>2, <1>3, <1>4, <1>6, <1>7, <1>8 DEF Next

\* A settled task never changes again, so it goes on bearing its job's id.
LEMMA BorneStep ==
    ASSUME TypeOK, AttemptInv, StepKinds, NEW t \in Tasks, task[t].status = "active",
           task'[t].attempt = task[t].attempt, Borne(t)
    PROVE  Borne(t)'
<1>1. PICK u \in Tasks : u < t /\ task[u].attempt = task[t].attempt
  BY DEF Borne
<1>2. task[u].attempt \in Jobs /\ task[u].attempt # NoJob /\ u # t
  BY <1>1, JobNumbers DEF AttemptInv, Tasks
<1>3. task[u].status # "active"
  BY <1>1, <1>2 DEF AttemptInv
<1>4. task[u].status # "none"
  BY <1>2, <1>3 DEF AttemptInv, TerminalStatuses
<1>5. ASSUME NEW j \in Jobs, Accepted(j) PROVE TaskOf(j) # u
  BY <1>3, <1>5, AcceptedIsActive
<1>6. task'[u] = task[u]
  BY <1>3, <1>4, <1>5 DEF StepKinds, Quiet, Binds, Reactivates, Presents, Records, Closes, OnlyTask
<1> QED
  BY <1>1, <1>6 DEF Borne

\* A task whose job's last event is not the one that is handled stays awaited.
LEMMA AwaitOne ==
    ASSUME TypeOK, AttemptInv, AwaitInv, StepKinds, BusyKept, NEW t \in Tasks,
           task[t].status = "active", task'[t].attempt = task[t].attempt,
           Head(queue).what \in Ends => Head(queue).job # task[t].attempt
    PROVE  Busy(task[t].attempt)' \/ Borne(t)'
<1>1. PICK k \in Jobs : k = task[t].attempt /\ k <= started
  BY DEF AttemptInv
<1>2. CASE Borne(t)
  BY <1>2, BorneStep
<1>3. CASE Busy(k)
  <2>1. Busy(k)'
    BY <1>1, <1>3 DEF BusyKept
  <2> QED
    BY <1>1, <2>1 DEF Busy, Pending
<1> QED
  BY <1>1, <1>2, <1>3 DEF AwaitInv

\* So does one that was given a new job.
LEMMA NewJobAwaited ==
    ASSUME NEW t \in Tasks, task'[t].attempt = started + 1, job'[started + 1].state = "running"
    PROVE  Busy(task[t].attempt)'
BY DEF Busy

LEMMA TurnAwait ==
    ASSUME TypeOK, AttemptInv, EventInv, AwaitInv, HandleTurn
    PROVE  EventInv' /\ AwaitInv'
<1>1. queue # <<>> /\ Head(queue).what \notin Ends /\ StepKinds
  BY HandleTurnKind DEF HandleTurn, Ends
<1>2. ASSUME task' = task, EventInv', BusyKept PROVE EventInv' /\ AwaitInv'
  BY <1>1, <1>2, AwaitOne DEF AwaitInv
<1>3. ASSUME NEW d \in Decisions, Dispatch(d) PROVE EventInv' /\ AwaitInv'
  <2>1. d.agent \in Agents
    BY DecisionTypes
  <2>2. PICK t \in Tasks : Binds(t, d.agent) /\ StartJob(d.agent, t, "turn", "running")
    BY <1>1, <1>3, DispatchBinds
  <2>3. EventInv' /\ BusyKept /\ job'[started + 1].state = "running"
    BY <1>1, <2>1, <2>2, StartedLive
  <2>4. /\ task'[t].attempt = started + 1
        /\ \A u \in Tasks : u # t => task'[u] = task[u]
    BY <2>2 DEF Binds, OnlyTask
  <2>5. Busy(task[t].attempt)'
    BY <2>3, <2>4, NewJobAwaited
  <2>6. ASSUME NEW u \in Tasks, u # t, task'[u].status = "active"
        PROVE  Busy(task[u].attempt)' \/ Borne(u)'
    BY <1>1, <2>3, <2>4, <2>6, AwaitOne
  <2> QED
    BY <2>3, <2>5, <2>6 DEF AwaitInv
<1>4. ASSUME NEW d \in Decisions, DispatchFails(d) PROVE EventInv' /\ AwaitInv'
  <2>1. StartFails(d.agent) /\ task' = task /\ d.agent \in Agents
    BY <1>4, DecisionTypes DEF DispatchFails
  <2>2. EventInv' /\ BusyKept
    BY <1>1, <2>1, FailsLive
  <2> QED
    BY <1>2, <2>1, <2>2
<1>5. CASE Respond
  <2>1. StartNothing /\ task' = task
    BY <1>5 DEF Respond
  <2>2. EventInv' /\ BusyKept
    BY <1>1, <2>1, NothingLive
  <2> QED
    BY <1>2, <2>1, <2>2
<1> QED
  BY <1>3, <1>4, <1>5 DEF HandleTurn

LEMMA OutcomeLive ==
    ASSUME TypeOK, EventInv, queue # <<>>, NEW j \in Jobs, NEW what \in {"running"} \cup Ends,
           Accepted(j), HandleOutcome(j, what), UNCHANGED run
    PROVE  /\ EventInv' /\ BusyKept
           /\ \/ what = "running" /\ Reactivates(j)
              \/ what = "cancelled" /\ UNCHANGED <<task, job>>
              \/ Presents(j) /\ job'[started + 1].state = "running"
              \/ Records(j)
<1> DEFINE t == TaskOf(j)
<1>1. t \in Tasks /\ task[t].agent \in Agents \cup {NoAgent}
  BY AcceptedFacts, TaskTypes
<1>2. CASE what = "running" /\ StartNothing
           /\ task' = [task EXCEPT ![t].status = "active"] /\ UNCHANGED <<owner, floor, turns, listed>>
  <2>1. Reactivates(j)
    BY <1>1, <1>2, StatusFacts, StartNothingFacts DEF Reactivates, Statuses
  <2> QED
    BY <1>2, <2>1, NothingLive
<1>3. CASE what = "cancelled" /\ StartNothing /\ UNCHANGED durable
  BY <1>3, NothingLive DEF durable
<1>4. CASE what \in TerminalStatuses /\ StartNothing /\ Record(j, what)
  BY <1>4, NothingKeeps, RecordRecords, NothingLive
<1>5. CASE HandleFallback(j)
  <2>1. CASE ~task[t].presented /\ Present(j)
    <3>1. Presents(j)
      BY <2>1, PresentPresents
    <3>2. StartJob(task[t].agent, t, "presentation", "running")
      BY <2>1 DEF Present
    <3> QED
      BY <1>1, <3>1, <3>2, StartedLive
  <2>2. CASE StartFails(task[t].agent) /\ Record(j, "failed")
    BY <1>1, <2>2, FailedKeeps, RecordRecords, FailsLive DEF TerminalStatuses
  <2>3. CASE StartNothing /\ Record(j, "failed")
    BY <2>3, NothingKeeps, RecordRecords, NothingLive DEF TerminalStatuses
  <2> QED
    BY <1>5, <2>1, <2>2, <2>3 DEF HandleFallback, PresentationFails
<1> QED
  BY <1>2, <1>3, <1>4, <1>5 DEF HandleOutcome

LEMMA JobEventAwait ==
    ASSUME TypeOK, AttemptInv, EventInv, AwaitInv, HandleJobEvent
    PROVE  EventInv' /\ AwaitInv'
<1> DEFINE j == Head(queue).job
           what == Head(queue).what
<1>1. /\ queue # <<>> /\ j \in Jobs /\ what \in {"running"} \cup Ends /\ UNCHANGED run
      /\ StepKinds /\ what # "turn"
  BY HeadTypes, HandleJobEventKind DEF HandleJobEvent
<1>2. CASE Accepted(j) /\ HandleOutcome(j, what)
  <2>1. PICK t \in Tasks : /\ t = TaskOf(j) /\ task[t].status = "active" /\ task[t].attempt = j
                           /\ job[j].task = t
    BY <1>1, <1>2, AcceptedIsActive
  <2>2. \A u \in Tasks : u # t /\ task[u].status = "active" => task[u].attempt # j
    BY <2>1 DEF AttemptInv
  <2>3. /\ EventInv' /\ BusyKept
        /\ \/ what = "running" /\ Reactivates(j)
           \/ what = "cancelled" /\ UNCHANGED <<task, job>>
           \/ Presents(j) /\ job'[started + 1].state = "running"
           \/ Records(j)
    BY <1>1, <1>2, OutcomeLive
  <2>4. \A u \in Tasks : u # t => task'[u] = task[u]
    BY <2>1, <2>3 DEF Reactivates, Presents, Records, OnlyTask
  <2>5. ASSUME NEW u \in Tasks, u # t, task'[u].status = "active"
        PROVE  Busy(task[u].attempt)' \/ Borne(u)'
    BY <1>1, <2>2, <2>3, <2>4, <2>5, AwaitOne
  <2>6. ASSUME task'[t].status = "active"
        PROVE  Busy(task[t].attempt)' \/ Borne(t)'
    <3>1. CASE what = "running" /\ Reactivates(j)
      <4>1. task'[t].attempt = task[t].attempt /\ what \notin Ends
        BY <2>1, <3>1 DEF Reactivates, Ends
      <4> QED
        BY <1>1, <2>1, <2>3, <4>1, AwaitOne
    <3>2. CASE what = "cancelled" /\ UNCHANGED <<task, job>>
      <4>1. Head(queue) \in InQueue
        BY <1>1, TailElements DEF InQueue, TypeOK
      <4>2. job[j].state = "cancelled"
        BY <1>1, <3>2, <4>1 DEF EventInv, Ends
      <4> QED
        BY <2>1, <3>2, <4>2 DEF Busy
    <3>3. CASE Presents(j) /\ job'[started + 1].state = "running"
      <4>1. task'[t].attempt = started + 1
        BY <2>1, <3>3 DEF Presents
      <4> QED
        BY <3>3, <4>1, NewJobAwaited
    <3>4. CASE Records(j)
      BY <2>1, <2>6, <3>4 DEF Records, TerminalStatuses
    <3> QED
      BY <2>3, <3>1, <3>2, <3>3, <3>4
  <2> QED
    BY <2>3, <2>5, <2>6 DEF AwaitInv
<1>3. CASE ~Accepted(j) /\ StartNothing /\ UNCHANGED durable
  <2>1. EventInv' /\ BusyKept /\ task' = task
    BY <1>1, <1>3, NothingLive DEF durable
  <2>2. ASSUME NEW u \in Tasks, task[u].status = "active", task[u].attempt = j
        PROVE  Borne(u)'
    <3>1. u \in Attempts(j) /\ task[u].agent = job[j].agent /\ task[u].status \notin TerminalStatuses
      BY <2>2 DEF Attempts, AttemptInv, TerminalStatuses
    <3>2. TaskOf(j) \in Tasks /\ task[TaskOf(j)].attempt = j /\ TaskOf(j) <= u
      BY <3>1, TaskOfType
    <3>3. TaskOf(j) # u
      BY <1>3, <3>1 DEF Accepted
    <3> QED
      BY <2>1, <2>2, <3>2, <3>3 DEF Borne, Tasks
  <2>3. ASSUME NEW u \in Tasks, task'[u].status = "active"
        PROVE  Busy(task[u].attempt)' \/ Borne(u)'
    BY <1>1, <2>1, <2>2, <2>3, AwaitOne
  <2> QED
    BY <2>1, <2>3 DEF AwaitInv
<1>4. (Accepted(j) /\ HandleOutcome(j, what)) \/ (~Accepted(j) /\ StartNothing /\ UNCHANGED durable)
  BY DEF HandleJobEvent
<1> QED
  BY <1>2, <1>3, <1>4

LEMMA AwaitStep ==
    ASSUME TypeOK, AttemptInv, EventInv, AwaitInv, [Next]_vars
    PROVE  EventInv' /\ AwaitInv'
<1>1. CASE ~HandleTurn /\ ~HandleJobEvent /\ ~Restart
  <2>1. /\ EventInv' /\ task' = task
        /\ \A j \in Jobs : Busy(j) => Busy(j)'
    BY <1>1, OtherLive
  <2>2. ASSUME NEW t \in Tasks, task[t].status = "active"
        PROVE  Busy(task[t].attempt)' \/ Borne(t)'
    <3>1. PICK k \in Jobs : k = task[t].attempt
      BY <2>2 DEF AttemptInv
    <3>2. CASE Busy(k)
      <4>1. Busy(k)'
        BY <2>1, <3>2
      <4> QED
        BY <2>1, <3>1, <4>1 DEF Busy, Pending
    <3>3. CASE Borne(t)
      BY <2>1, <3>3 DEF Borne
    <3> QED
      BY <2>2, <3>1, <3>2, <3>3 DEF AwaitInv
  <2> QED
    BY <2>1, <2>2 DEF AwaitInv
<1>2. CASE Restart
  <2>1. \A j \in Jobs : job'[j].state = "none"
    BY <1>2 DEF Restart, NewJob
  <2>2. InQueue' = {}
    BY <1>2 DEF Restart, InQueue, Elements
  <2>3. ASSUME NEW t \in Tasks PROVE task'[t].status # "active"
    <3>1. task'[t] = Interrupted(t)
      BY <1>2 DEF Restart
    <3> QED
      BY <3>1, InterruptedFacts
  <2> QED
    BY <2>1, <2>2, <2>3 DEF EventInv, AwaitInv
<1> QED
  BY <1>1, <1>2, TurnAwait, JobEventAwait

-----------------------------------------------------------------------------
(* The inductive invariant and what follows from it.                        *)

IInv == /\ TypeOK /\ AttemptInv /\ OwnersAgree /\ ListedIsLive /\ TurnInv
        /\ FreshInv /\ CountInv /\ EventInv /\ AwaitInv

LEMMA InitIInv ==
    ASSUME Init
    PROVE  IInv
<1>1. \A t \in Tasks : task[t].status = "none" /\ task[t].attempt = NoJob
  BY NewTypes DEF Init
<1>2. AttemptInv /\ OwnersAgree
  BY <1>1 DEF AttemptInv, OwnersAgree, ActiveTasks
<1>3. ListedIsLive /\ TurnInv
  BY DEF Init, ListedIsLive, TurnInv
<1>4. \A j \in Jobs : job[j].task = NoTask
  BY NewTypes DEF Init
<1>5. \A t \in Tasks, why \in Reasons : JobsFor(t, why) = {}
  BY <1>4, HubAssumption DEF JobsFor, Tasks, NoTask
<1>6. \A t \in Tasks : task[t].status # "active"
  BY <1>1
<1>7. \A t \in Tasks, why \in Reasons : Cardinality(JobsFor(t, why)) = 0
  BY <1>5, FS_EmptySet
<1>8. FreshInv /\ CountInv
  BY <1>4, <1>6, <1>7 DEF FreshInv, CountInv, Reasons
<1>9. EventInv /\ AwaitInv
  BY <1>6 DEF Init, EventInv, AwaitInv, NewJob, InQueue, Elements
<1> QED
  BY <1>2, <1>3, <1>8, <1>9, TypeInit DEF IInv

LEMMA StepIInv ==
    ASSUME IInv, [Next]_vars
    PROVE  IInv'
<1>1. TypeOK /\ (StepKinds \/ Restart) /\ TypeOK'
  BY Kinds, TypeStep DEF IInv
<1> QED
  BY <1>1, AttemptStep, OwnersStep, ListsStep, TurnStep, CountStep, AwaitStep DEF IInv

LEMMA Invariance == Spec => []IInv
<1>1. Init => IInv
  BY InitIInv
<1>2. IInv /\ [Next]_vars => IInv'
  BY StepIInv
<1> QED
  BY <1>1, <1>2, PTL DEF Spec

\* task_owner_by_id, which routes a turn, and the task, which takes the events
\* of its job, name the same agent of every task at work (service.py:403-427).
THEOREM OwnersNeverDiffer == Spec => []OwnersAgree
<1>1. IInv => OwnersAgree
  BY DEF IInv
<1> QED
  BY <1>1, Invariance, PTL

\* No agent's channel lists a task that is over, save one that was moved to
\* another agent, across restarts and new chapters (service.py:772).
THEOREM ListsAreLive == Spec => []ListedIsLive
<1>1. IInv => ListedIsLive
  BY DEF IInv
<1> QED
  BY <1>1, Invariance, PTL

\* Each attempt has at most one outcome in the transcript, under the task its job
\* was started for, with any number of repeated events, restarts that reuse the
\* ids of jobs, and moves between agents (service.py:636-647).
THEOREM OutcomesAreOwned == Spec => []OutcomeOwned
<1>1. IInv => OutcomeOwned
  BY DEF IInv, TurnInv, OutcomeOwned
<1> QED
  BY <1>1, Invariance, PTL

\* A result is presented at most once for each user turn on its task: an agent
\* that answers with machine output every time is not asked forever.
THEOREM NotAskedForever == Spec => []PresentedOnce
<1>1. IInv => PresentedOnce
  BY DEF IInv, CountInv, JobsFor, PresentedOnce
<1> QED
  BY <1>1, Invariance, PTL

\* A task at work has a job that runs or was cancelled, or its last event on the
\* way, or an older task bears its job's id: no other way loses an outcome, for
\* any order of turns, events, new chapters and restarts (service.py:646-660).
THEOREM ActiveIsNeverForgotten == Spec => []ActiveIsAwaited
<1>1. ASSUME IInv, NEW t \in ActiveTasks
      PROVE  \/ /\ task[t].attempt # NoJob
                /\ \/ job[task[t].attempt].state \in {"running", "cancelled"}
                   \/ Pending(task[t].attempt)
             \/ Shadowed(t)
  <2>1. t \in Tasks /\ task[t].status = "active" /\ task[t].attempt \in Jobs /\ TypeOK
    BY <1>1 DEF IInv, ActiveTasks, AttemptInv
  <2>2. task[t].attempt # NoJob
    BY <2>1, JobNumbers
  <2>3. CASE Busy(task[t].attempt)
    BY <2>2, <2>3 DEF Busy
  <2>4. CASE Borne(t)
    <3>1. PICK u \in Tasks : u < t /\ task[u].attempt = task[t].attempt
      BY <2>4 DEF Borne
    <3>2. u \in Attempts(task[t].attempt)
      BY <3>1 DEF Attempts
    <3>3. TaskOf(task[t].attempt) <= u /\ TaskOf(task[t].attempt) \in Tasks
      BY <3>2, TaskOfType
    <3> QED
      BY <2>1, <3>1, <3>3 DEF Shadowed, Tasks
  <2> QED
    BY <1>1, <2>1, <2>3, <2>4 DEF IInv, AwaitInv
<1>2. IInv => ActiveIsAwaited
  BY <1>1 DEF ActiveIsAwaited
<1> QED
  BY <1>2, Invariance, PTL

-----------------------------------------------------------------------------
(* What is shown as settled was told, and why an outcome may be dropped.    *)

\* A task that is shown as done or failed has the outcome of its attempt in the
\* transcript.
SettledIsRecorded ==
    \A t \in Tasks :
       task[t].status \in TerminalStatuses =>
         \E i \in DOMAIN turns : turns[i].task = t /\ turns[i].job = task[t].attempt

\* Steps that settle no task and tell nothing.
LEMMA NothingSettles ==
    ASSUME SettledIsRecorded, turns' = turns,
           \A t \in Tasks : task'[t].status \in TerminalStatuses =>
              task[t].status \in TerminalStatuses /\ task'[t].attempt = task[t].attempt
    PROVE  SettledIsRecorded'
BY DEF SettledIsRecorded

LEMMA SettledStep ==
    ASSUME TypeOK, AttemptInv, SettledIsRecorded, StepKinds \/ Restart
    PROVE  SettledIsRecorded'
<1>1. CASE Quiet
  BY <1>1, NothingSettles DEF Quiet
<1>2. ASSUME NEW t \in Tasks, NEW a \in Agents, Binds(t, a) PROVE SettledIsRecorded'
  BY <1>2, NothingSettles DEF Binds, OnlyTask, TerminalStatuses
<1>3. ASSUME NEW j \in Jobs, Reactivates(j) \/ Presents(j) PROVE SettledIsRecorded'
  <2>1. turns' = turns /\ OnlyTask(TaskOf(j)) /\ task'[TaskOf(j)].status = "active"
    BY <1>3 DEF Reactivates, Presents
  <2> QED
    BY <2>1, NothingSettles DEF OnlyTask, TerminalStatuses
<1>4. ASSUME NEW j \in Jobs, Records(j) PROVE SettledIsRecorded'
  <2> DEFINE t == TaskOf(j)
             turn == [task |-> t, run |-> run, job |-> j]
  <2>1. task[t].attempt = j
    BY <1>4, AcceptedIsActive DEF Records
  <2>2. turns' = Append(turns, turn) /\ turn.task = t /\ turn.job = j
    BY <1>4 DEF Records
  <2>3. task'[t].attempt = j /\ \A u \in Tasks : u # t => task'[u] = task[u]
    BY <1>4, <2>1 DEF Records, OnlyTask
  <2> HIDE DEF turn
  <2>4. /\ Len(turns) + 1 \in DOMAIN turns' /\ turns'[Len(turns) + 1] = turn
        /\ \A i \in DOMAIN turns : i \in DOMAIN turns' /\ turns'[i] = turns[i]
    BY <2>2 DEF TypeOK
  <2> QED
    BY <2>2, <2>3, <2>4 DEF SettledIsRecorded
<1>5. ASSUME NEW a \in Agents, Closes(a) PROVE SettledIsRecorded'
  BY <1>5, NothingSettles DEF Closes
<1>6. CASE Restart
  <2>1. turns' = turns /\ task' = [t \in Tasks |-> Interrupted(t)]
    BY <1>6 DEF Restart
  <2>2. ASSUME NEW t \in Tasks, task'[t].status \in TerminalStatuses
        PROVE  task'[t] = task[t]
    BY <2>1, <2>2, InterruptedFacts DEF TerminalStatuses, Interrupted
  <2> QED
    BY <2>1, <2>2, NothingSettles
<1> QED
  BY <1>1, <1>2, <1>3, <1>4, <1>5, <1>6 DEF StepKinds

\* A task with an outcome is settled, and none of this process' jobs is for one
\* that had its outcome before.
PastInv ==
    \A i \in DOMAIN turns :
      /\ task[turns[i].task].status \in TerminalStatuses
      /\ turns[i].run < run => \A j \in Jobs : job[j].task # turns[i].task

\* Steps that tell nothing and do not work on what is settled.
LEMMA NothingPast ==
    ASSUME TypeOK, PastInv, turns' = turns, run' = run,
           \A t \in Tasks : task[t].status \in TerminalStatuses => task'[t] = task[t],
           \A j \in Jobs : \/ job'[j].task = job[j].task
                           \/ job'[j].task \notin Tasks
                           \/ task[job'[j].task].status \notin TerminalStatuses
    PROVE  PastInv'
BY TurnTypes DEF PastInv

LEMMA PastStep ==
    ASSUME TypeOK, AttemptInv, PastInv, StepKinds \/ Restart
    PROVE  PastInv'
<1>1. \A t \in Tasks : t # NoTask
  BY HubAssumption DEF Tasks, NoTask
<1>2. ASSUME JobsKept
      PROVE  \A j \in Jobs : job'[j].task = job[j].task \/ job'[j].task \notin Tasks
  BY <1>1, <1>2 DEF JobsKept
<1>3. ASSUME NEW t \in Tasks, NEW a, NEW why, JobAdded(a, t, why), OnlyTask(t),
             task[t].status \notin TerminalStatuses, turns' = turns, run' = run
      PROVE  PastInv'
  <2>1. \A j \in Jobs : job'[j].task = job[j].task \/ job'[j].task = t
    BY <1>3 DEF JobAdded
  <2>2. \A u \in Tasks : task[u].status \in TerminalStatuses => task'[u] = task[u]
    BY <1>3 DEF OnlyTask
  <2> QED
    BY <1>3, <2>1, <2>2, NothingPast
<1>4. CASE Quiet
  BY <1>2, <1>4, NothingPast DEF Quiet
<1>5. ASSUME NEW t \in Tasks, NEW a \in Agents, Binds(t, a) PROVE PastInv'
  BY <1>3, <1>5 DEF Binds, TerminalStatuses
<1>6. ASSUME NEW j \in Jobs, Reactivates(j) PROVE PastInv'
  <2>1. UNCHANGED <<turns, run, job>> /\ OnlyTask(TaskOf(j)) /\ Accepted(j)
    BY <1>6 DEF Reactivates
  <2>2. \A u \in Tasks : task[u].status \in TerminalStatuses => task'[u] = task[u]
    BY <2>1, AcceptedFacts DEF OnlyTask
  <2> QED
    BY <2>1, <2>2, NothingPast
<1>7. ASSUME NEW j \in Jobs, Presents(j) PROVE PastInv'
  <2>1. PICK t \in Tasks : t = TaskOf(j) /\ task[t].status \notin TerminalStatuses
    BY <1>7, AcceptedFacts DEF Presents
  <2> QED
    BY <1>3, <1>7, <2>1 DEF Presents
<1>8. ASSUME NEW j \in Jobs, Records(j) PROVE PastInv'
  <2>1. PICK t \in Tasks : t = TaskOf(j) /\ task[t].status \notin TerminalStatuses
    BY <1>8, AcceptedFacts DEF Records
  <2> DEFINE turn == [task |-> t, run |-> run, job |-> j]
  <2>2. turns' = Append(turns, turn) /\ turn.task = t /\ turn.run = run
    BY <1>8, <2>1 DEF Records
  <2> HIDE DEF turn
  <2>3. /\ DOMAIN turns' = DOMAIN turns \cup {Len(turns) + 1}
        /\ turns'[Len(turns) + 1] = turn
        /\ \A i \in DOMAIN turns : turns'[i] = turns[i]
    BY <2>2 DEF TypeOK
  <2>4. /\ JobsKept /\ run' = run /\ task'[t].status \in TerminalStatuses
        /\ \A u \in Tasks : u # t => task'[u] = task[u]
    BY <1>8, <2>1 DEF Records, OnlyTask
  <2>5. ~ (run < run)
    BY JobNumbers
  <2>6. ASSUME NEW i \in DOMAIN turns
        PROVE  /\ task'[turns[i].task].status \in TerminalStatuses
               /\ turns[i].run < run => \A k \in Jobs : job'[k].task # turns[i].task
    BY <1>2, <2>1, <2>4, TurnTypes DEF PastInv
  <2> QED
    BY <2>1, <2>2, <2>3, <2>4, <2>5, <2>6 DEF PastInv
<1>9. ASSUME NEW a \in Agents, Closes(a) PROVE PastInv'
  BY <1>9, NothingPast DEF Closes
<1>10. CASE Restart
  <2>1. turns' = turns /\ task' = [t \in Tasks |-> Interrupted(t)] /\ job' = [j \in Jobs |-> NewJob]
    BY <1>10 DEF Restart
  <2>2. ASSUME NEW t \in Tasks, task[t].status \in TerminalStatuses PROVE task'[t] = task[t]
    BY <2>1, <2>2 DEF TerminalStatuses, Interrupted
  <2>3. \A j \in Jobs : job'[j].task = NoTask
    BY <2>1, NewTypes
  <2> QED
    BY <1>1, <2>1, <2>2, <2>3, TurnTypes DEF PastInv
<1> QED
  BY <1>4, <1>5, <1>6, <1>7, <1>8, <1>9, <1>10 DEF StepKinds

LEMMA SettledInvariance == Spec => [](IInv /\ SettledIsRecorded /\ PastInv)
<1>1. Init => IInv /\ SettledIsRecorded /\ PastInv
  BY InitIInv, NewTypes DEF Init, SettledIsRecorded, PastInv, TerminalStatuses
<1>2. IInv /\ SettledIsRecorded /\ PastInv /\ [Next]_vars
        => IInv' /\ SettledIsRecorded' /\ PastInv'
  BY StepIInv, Kinds, SettledStep, PastStep DEF IInv
<1> QED
  BY <1>1, <1>2, PTL DEF Spec

\* No task is shown as done or failed whose outcome is not in the transcript,
\* whatever events repeat and wherever the process dies (service.py:772-786).
THEOREM SettledIsTold == Spec => []SettledIsRecorded
BY SettledInvariance, PTL

\* The handler drops the outcome of a job the hub dispatched, because the task
\* it finds under the job's id is settled.
DropsOutcome ==
    LET e == Head(queue) IN
      /\ queue # <<>> /\ queue' = Tail(queue) /\ e.what \in TerminalStatuses
      /\ job[e.job].task # NoTask
      /\ Attempts(e.job) # {} /\ task[TaskOf(e.job)].status \in TerminalStatuses

\* The outcome this process recorded of job j, for the task j is for.
ToldBefore(j) ==
    \E i \in DOMAIN turns : turns[i].run = run /\ turns[i].job = j /\ turns[i].task = job[j].task

\* The outcome an earlier process recorded, under the id of j, for another task.
ToldOfAnother(j) ==
    \E i \in DOMAIN turns : turns[i].run < run /\ turns[i].job = j /\ turns[i].task # job[j].task

DroppedIsKnown ==
    [][DropsOutcome => ToldBefore(Head(queue).job) \/ ToldOfAnother(Head(queue).job)]_vars

LEMMA DroppedFacts ==
    ASSUME IInv, SettledIsRecorded, PastInv, DropsOutcome
    PROVE  ToldBefore(Head(queue).job) \/ ToldOfAnother(Head(queue).job)
<1> DEFINE j == Head(queue).job
<1>1. /\ TypeOK /\ TurnInv /\ Attempts(j) # {} /\ task[TaskOf(j)].status \in TerminalStatuses
      /\ j \in Jobs
  BY HeadTypes DEF IInv, DropsOutcome, TerminalStatuses
<1>2. TaskOf(j) \in Tasks /\ task[TaskOf(j)].attempt = j
  BY <1>1, TaskOfType DEF Attempts
<1>3. PICK i \in DOMAIN turns : turns[i].task = TaskOf(j) /\ turns[i].job = j
  BY <1>1, <1>2 DEF SettledIsRecorded
<1>4. turns[i].run <= run /\ turns[i].run \in Nat /\ run \in Nat
  BY <1>1, TurnTypes, JobNumbers DEF TurnInv
<1>5. CASE turns[i].run = run
  BY <1>1, <1>3, <1>5 DEF TurnInv, ToldBefore
<1>6. CASE turns[i].run < run
  BY <1>1, <1>3, <1>6 DEF PastInv, ToldOfAnother
<1> QED
  BY <1>4, <1>5, <1>6

\* When an outcome of a job that the hub dispatched is dropped as settled, a turn of the
\* transcript has the job's id: this process wrote it for the same job and task, or an
\* earlier one for another task.  The first says that the task has an outcome, not
\* that this is it: the event may be a replay (service.py:636-645), but also the
\* end of a job whose marker settled the task before a failover went on.
THEOREM DropsAreExplained == Spec => DroppedIsKnown
<1>1. IInv /\ SettledIsRecorded /\ PastInv =>
        (DropsOutcome => ToldBefore(Head(queue).job) \/ ToldOfAnother(Head(queue).job))
  BY DroppedFacts
<1> QED
  BY <1>1, SettledInvariance, PTL DEF DroppedIsKnown

\* An active task without a job or an event to settle it is the work of an earlier
\* process: that has recorded an outcome of an older task under the job's id.
LostToAnEarlierRun ==
    \A t \in ActiveTasks :
      LET j == task[t].attempt IN
        \/ job[j].state \in {"running", "cancelled"} \/ Pending(j)
        \/ \E i \in DOMAIN turns : /\ turns[i].run < run
                                   /\ turns[i].job = j /\ turns[i].task < t

LEMMA LostFacts ==
    ASSUME IInv, SettledIsRecorded
    PROVE  LostToAnEarlierRun
<1> SUFFICES ASSUME NEW t \in Tasks, task[t].status = "active", ~Busy(task[t].attempt)
             PROVE  \E i \in DOMAIN turns : /\ turns[i].run < run
                                            /\ turns[i].job = task[t].attempt
                                            /\ turns[i].task < t
  BY DEF LostToAnEarlierRun, ActiveTasks, Busy
<1>1. TypeOK /\ AttemptInv /\ TurnInv
  BY DEF IInv
<1>2. PICK u \in Tasks : u < t /\ task[u].attempt = task[t].attempt
  BY DEF IInv, AwaitInv, Borne
<1>3. task[t].attempt \in Jobs /\ job[task[t].attempt].task = t /\ task[t].attempt # NoJob
  BY <1>1, JobNumbers DEF AttemptInv
<1>4. task[u].status # "active"
  BY <1>1, <1>2, <1>3 DEF AttemptInv, Tasks
<1>5. task[u].status \in TerminalStatuses
  BY <1>1, <1>2, <1>3, <1>4 DEF AttemptInv
<1>6. PICK i \in DOMAIN turns : turns[i].task = u /\ turns[i].job = task[t].attempt
  BY <1>2, <1>5 DEF SettledIsRecorded
<1>7. turns[i].run <= run /\ turns[i].run # run
  BY <1>1, <1>6 DEF TurnInv
<1>8. turns[i].run \in Nat /\ run \in Nat
  BY <1>1, TurnTypes, JobNumbers
<1> QED
  BY <1>2, <1>6, <1>7, <1>8

\* What the exception in ActiveIsAwaited stands for: only an outcome that an earlier
\* process recorded for an older task, under an id that was given out again, can
\* keep a task from settling (service.py:646-660).
THEOREM LossesAreFromBefore == Spec => []LostToAnEarlierRun
<1>1. IInv /\ SettledIsRecorded => LostToAnEarlierRun
  BY LostFacts
<1> QED
  BY <1>1, SettledInvariance, PTL

-----------------------------------------------------------------------------
(* The hub implements TaskContract.                                         *)

Status == [t \in Tasks |-> task[t].status]
Outcomes == [i \in DOMAIN turns |-> turns[i].task]
OutcomeRecords == [task : Tasks, run : 1 .. MaxRuns, job : Jobs]

LEMMA OutcomesGrow ==
    ASSUME TypeOK, NEW t \in Tasks, NEW j \in Jobs,
           turns' = Append(turns, [task |-> t, run |-> run, job |-> j])
    PROVE  Outcomes' = Append(Outcomes, t)
<1> DEFINE e == [task |-> t, run |-> run, job |-> j]
<1>1. turns \in Seq(OutcomeRecords) /\ e \in OutcomeRecords /\ e.task = t
  BY DEF TypeOK, OutcomeRecords
<1>2. turns' = Append(turns, e)
  OBVIOUS
<1> HIDE DEF e
<1>3. /\ Len(turns) \in Nat /\ DOMAIN turns = 1 .. Len(turns)
      /\ DOMAIN Append(turns, e) = 1 .. Len(turns) + 1
      /\ Append(turns, e)[Len(turns) + 1] = e
      /\ \A i \in 1 .. Len(turns) : Append(turns, e)[i] = turns[i] /\ turns[i] \in OutcomeRecords
  BY <1>1
<1>4. \A r \in OutcomeRecords : r.task \in Tasks
  BY DEF OutcomeRecords
<1>5. Outcomes \in Seq(Tasks) /\ Len(Outcomes) = Len(turns)
  BY <1>3, <1>4 DEF Outcomes
<1>6. /\ DOMAIN Append(Outcomes, t) = 1 .. Len(turns) + 1
      /\ Append(Outcomes, t)[Len(turns) + 1] = t
      /\ \A i \in 1 .. Len(turns) : Append(Outcomes, t)[i] = Outcomes[i]
  BY <1>3, <1>5
<1>7. Append(Outcomes, t) = [i \in 1 .. Len(turns) + 1 |-> Append(Outcomes, t)[i]]
  <2>1. Append(Outcomes, t) \in Seq(Tasks) /\ Len(Append(Outcomes, t)) = Len(turns) + 1
    BY <1>5
  <2>2. ASSUME NEW q \in Seq(Tasks)
        PROVE  q = [i \in 1 .. Len(q) |-> q[i]]
    OBVIOUS
  <2> QED
    BY <2>1, <2>2
<1>8. Outcomes' = [i \in 1 .. Len(turns) + 1 |-> Append(turns, e)[i].task]
  BY <1>2, <1>3 DEF Outcomes
<1>9. ASSUME NEW i \in 1 .. Len(turns) + 1
      PROVE  Append(turns, e)[i].task = Append(Outcomes, t)[i]
  <2>1. CASE i = Len(turns) + 1
    BY <1>1, <1>3, <1>6, <2>1
  <2>2. CASE i \in 1 .. Len(turns)
    BY <1>3, <1>6, <2>2 DEF Outcomes
  <2>3. i = Len(turns) + 1 \/ i \in 1 .. Len(turns)
    BY <1>3
  <2> QED
    BY <2>1, <2>2, <2>3
<1> QED
  BY <1>7, <1>8, <1>9

\* A task that a step sets apart from the others changes its status alone.
LEMMA StatusMoves ==
    ASSUME NEW t \in Tasks, OnlyTask(t)
    PROVE  Status' = [Status EXCEPT ![t] = task'[t].status]
BY DEF OnlyTask, Status

LEMMA StatusSame ==
    ASSUME NEW t \in Tasks, OnlyTask(t), task'[t].status = task[t].status
    PROVE  Status' = Status
BY DEF OnlyTask, Status

\* The floor moves only in a turn.
LEMMA FloorKept ==
    ASSUME TypeOK, [Next]_vars, ~HandleTurn
    PROVE  floor' = floor
BY HandleJobEventType, OtherTypes DEF Restart

LEMMA TurnIsContract ==
    ASSUME TypeOK, HandleTurn
    PROVE  [Contract!Next]_<<Status, owner, floor, Outcomes>>
<1> DEFINE Good == [Contract!Next]_<<Status, owner, floor, Outcomes>>
<1>1. queue # <<>>
  BY DEF HandleTurn
<1>2. ASSUME NEW d \in Decisions, Dispatch(d) PROVE Good
  <2>1. PICK t \in Tasks : Binds(t, d.agent)
    BY <1>1, <1>2, DispatchBinds
  <2>2. d.agent \in Agents /\ floor' = d.agent
    BY <1>1, <1>2, DispatchBinds, DecisionTypes
  <2>3. Status' = [Status EXCEPT ![t] = "active"] /\ Status[t] \in {"none", "active"}
    BY <2>1, StatusMoves DEF Binds, Status
  <2>4. owner' = [owner EXCEPT ![t] = d.agent] /\ Outcomes' = Outcomes
    BY <2>1 DEF Binds, Outcomes
  <2>5. Contract!Work(t, d.agent)
    BY <2>2, <2>3, <2>4 DEF Contract!Work, Status, Outcomes
  <2> QED
    BY <2>2, <2>5 DEF Contract!Next
<1>3. ASSUME UNCHANGED <<task, owner, turns>>, floor' \in {Butler, floor} PROVE Good
  <2>1. UNCHANGED <<Status, owner, Outcomes>>
    BY <1>3 DEF Status, Outcomes
  <2>2. CASE floor' = Butler
    <3>1. Contract!Yield
      BY <2>1, <2>2 DEF Contract!Yield, Status, Outcomes
    <3> QED
      BY <3>1 DEF Contract!Next
  <2> QED
    BY <1>3, <2>1, <2>2
<1>4. ASSUME NEW d \in Decisions, DispatchFails(d) PROVE Good
  BY <1>3, <1>4 DEF DispatchFails
<1>5. CASE Respond
  BY <1>3, <1>5 DEF Respond
<1> QED
  BY <1>2, <1>4, <1>5 DEF HandleTurn

\* A step that is neither a turn nor a restart settles a task or leaves the
\* contract's state alone.
LEMMA OtherIsContract ==
    ASSUME TypeOK, AttemptInv, [Next]_vars, ~HandleTurn, ~Restart
    PROVE  [Contract!Next]_<<Status, owner, floor, Outcomes>>
<1> DEFINE Good == [Contract!Next]_<<Status, owner, floor, Outcomes>>
<1>1. floor' = floor
  BY FloorKept
<1>2. ASSUME UNCHANGED <<task, owner, turns>> PROVE Good
  BY <1>1, <1>2 DEF Status, Outcomes
<1>3. ASSUME NEW j \in Jobs, Reactivates(j) \/ Presents(j) PROVE Good
  <2>1. /\ Accepted(j) /\ OnlyTask(TaskOf(j)) /\ UNCHANGED <<owner, turns>>
        /\ task'[TaskOf(j)].status = "active"
    BY <1>3 DEF Reactivates, Presents
  <2>2. TaskOf(j) \in Tasks /\ task[TaskOf(j)].status = "active"
    BY <2>1, AcceptedIsActive
  <2>3. Status' = Status
    BY <2>1, <2>2, StatusSame
  <2> QED
    BY <1>1, <2>1, <2>3 DEF Outcomes
<1>4. ASSUME NEW j \in Jobs, Records(j) PROVE Good
  <2>1. PICK t \in Tasks : t = TaskOf(j) /\ task[t].status = "active"
    BY <1>4, AcceptedIsActive DEF Records
  <2>2. PICK end : end = task'[t].status /\ end \in TerminalStatuses
    BY <1>4, <2>1 DEF Records
  <2>3. Status[t] = "active" /\ Status' = [Status EXCEPT ![t] = end]
    BY <1>4, <2>1, <2>2, StatusMoves DEF Records, Status
  <2>4. owner' = owner /\ Outcomes' = Append(Outcomes, t)
    BY <1>4, <2>1, OutcomesGrow DEF Records
  <2>5. Contract!Settle(t, end)
    BY <1>1, <2>3, <2>4 DEF Contract!Settle, Status, Outcomes
  <2> QED
    BY <2>2, <2>5 DEF Contract!Next, Contract!Settled, TerminalStatuses
<1>5. ASSUME NEW a \in Agents, Closes(a) PROVE Good
  BY <1>2, <1>5 DEF Closes
<1>6. CASE Quiet
  BY <1>2, <1>6 DEF Quiet
<1> QED
  BY <1>3, <1>4, <1>5, <1>6, HandleJobEventDoes, OtherDoes

LEMMA RestartIsContract ==
    ASSUME TypeOK, Restart
    PROVE  Contract!Interrupt
<1>1. Status' = [t \in Tasks |-> IF Status[t] = "active" THEN "interrupted" ELSE Status[t]]
  <2>1. ASSUME NEW t \in Tasks
        PROVE  task'[t].status = IF task[t].status = "active" THEN "interrupted" ELSE task[t].status
    <3>1. task'[t] = Interrupted(t)
      BY DEF Restart
    <3> QED
      BY <3>1, InterruptedFacts
  <2> QED
    BY <2>1 DEF Status
<1>2. owner' = [t \in Tasks |-> IF Status[t] = "active" THEN NoAgent ELSE owner[t]]
  BY DEF Restart, Status
<1>3. floor' = floor /\ Outcomes' = Outcomes
  BY DEF Restart, Outcomes
<1> QED
  BY <1>1, <1>2, <1>3 DEF Contract!Interrupt, Status, Outcomes

\* Whatever is asked, repeated, lost, moved or restarted, the hub keeps the
\* contract: a task at work has an owner and one outcome at most, in its whole
\* life, and no result, restart or new chapter moves the floor.
THEOREM HubKeepsTaskContract == Spec => KeepsTaskContract
<1>1. Init => Contract!Init
  <2>1. ASSUME Init
        PROVE  Contract!Init
    <3>1. Status = [t \in Tasks |-> "none"]
      BY <2>1, NewTypes DEF Init, Status
    <3>2. owner = [t \in Tasks |-> NoAgent] /\ floor = Butler /\ turns = <<>>
      BY <2>1 DEF Init
    <3>3. Outcomes = <<>>
      BY <3>2 DEF Outcomes
    <3> QED
      BY <3>1, <3>2, <3>3 DEF Contract!Init, Status, Outcomes
  <2> QED
    BY <2>1
<1>2. IInv /\ [Next]_vars => [Contract!Next]_<<Status, owner, floor, Outcomes>>
  <2>1. ASSUME IInv, [Next]_vars
        PROVE  [Contract!Next]_<<Status, owner, floor, Outcomes>>
    BY <2>1, TurnIsContract, OtherIsContract, RestartIsContract DEF IInv, Contract!Next
  <2> QED
    BY <2>1
<1>3. IInv /\ [Next]_vars => [Contract!Next]_Contract!tvars
  BY <1>2 DEF Contract!tvars, Status, Outcomes
<1> QED
  BY <1>1, <1>3, Invariance, PTL DEF Spec, KeepsTaskContract, Contract!Spec
=============================================================================
