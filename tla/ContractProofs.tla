--------------------------- MODULE ContractProofs ---------------------------
(***************************************************************************)
(* What follows from the contracts alone, and so holds of every program    *)
(* that keeps them: of the bridge, the hub and its bindings, the control   *)
(* plane, the confirmation gate and the remote job, for any values of      *)
(* their constants.                                                        *)
(***************************************************************************)
EXTENDS Integers, Sequences, TLAPS

CONSTANTS
    Jobs, Lanes, NoLane, Outcomes, NoOutcome,  \* of JobContract
    Tokens, Work,                              \* of ApprovalContract
    Callers, Checks,                           \* of SelfCheckContract
    Butler, NoAgent,                           \* of TaskContract
    Channels, Ids,                             \* of SessionContract
    Agents, Tasks

VARIABLES
    phase, outcome, running, lane,             \* of JobContract
    verdict, prompts, runs,                    \* of ApprovalContract
    asking, checking, registered, waiting,     \* of SelfCheckContract
    status, owner, floor, outcomes,            \* of TaskContract
    there, code, held,                         \* of ProcessContract
    inUse, named, gone, unsure                 \* of SessionContract

Job == INSTANCE JobContract
Approval == INSTANCE ApprovalContract
Check == INSTANCE SelfCheckContract WITH running <- checking
Task == INSTANCE TaskContract
Process == INSTANCE ProcessContract
Session == INSTANCE SessionContract

-----------------------------------------------------------------------------
(* Jobs.                                                                    *)

JobTyped ==
    /\ phase \in [Jobs -> {"absent", "open", "reported", "abandoned"}]
    /\ outcome \in [Jobs -> Outcomes \cup {NoOutcome}]
    /\ lane \in [Jobs -> Lanes \cup {NoLane}]
    /\ running \subseteq Jobs

\* A lane is given to a job when it is accepted, which is before it first runs.
JobInv ==
    /\ JobTyped
    /\ \A j \in running : phase[j] \in {"open", "abandoned"}
    /\ \A j \in Jobs : phase[j] = "reported" => outcome[j] \in Outcomes
    /\ Job!OneInLane

LEMMA JobInit == Job!Init => JobInv
BY DEF Job!Init, JobInv, JobTyped, Job!OneInLane

LEMMA JobStep ==
    ASSUME JobInv, [Job!Next]_Job!cvars
    PROVE  JobInv' /\ \A j \in Jobs : phase[j] = "reported" =>
                                     phase'[j] = "reported" /\ outcome'[j] = outcome[j]
<1> DEFINE Stands == \A j \in Jobs : phase[j] = "reported" =>
                                       phase'[j] = "reported" /\ outcome'[j] = outcome[j]
<1> USE DEF JobInv, JobTyped, Job!OneInLane
<1>1. ASSUME NEW j \in Jobs, Job!Accept(j) PROVE JobInv' /\ Stands
  <2>1. j \notin running
    BY <1>1 DEF Job!Accept
  <2>2. PICK l \in Lanes \cup {NoLane} : lane' = [lane EXCEPT ![j] = l]
    BY <1>1 DEF Job!Accept
  <2>3. CASE phase' = [phase EXCEPT ![j] = "open"] /\ UNCHANGED outcome
    BY <1>1, <2>1, <2>2, <2>3 DEF Job!Accept
  <2>4. ASSUME NEW o \in Outcomes, phase' = [phase EXCEPT ![j] = "reported"],
               outcome' = [outcome EXCEPT ![j] = o]
        PROVE  JobInv' /\ Stands
    BY <1>1, <2>1, <2>2, <2>4 DEF Job!Accept
  <2> QED
    BY <1>1, <2>3, <2>4 DEF Job!Accept
<1>2. ASSUME NEW j \in Jobs, Job!Launch(j) PROVE JobInv' /\ Stands
  BY <1>2 DEF Job!Launch
<1>3. ASSUME NEW j \in Jobs, Job!Exit(j) PROVE JobInv' /\ Stands
  BY <1>3 DEF Job!Exit
<1>4. ASSUME NEW j \in Jobs, NEW o \in Outcomes, Job!Report(j, o) PROVE JobInv' /\ Stands
  BY <1>4 DEF Job!Report
<1>5. ASSUME NEW j \in Jobs, Job!Abandon(j) PROVE JobInv' /\ Stands
  BY <1>5 DEF Job!Abandon
<1>6. CASE UNCHANGED Job!cvars
  BY <1>6 DEF Job!cvars
<1> QED
  BY <1>1, <1>2, <1>3, <1>4, <1>5, <1>6 DEF Job!Next

\* Two jobs of one lane never have a process at the same time.
THEOREM ContractIsExclusive == Job!Spec => []Job!OneInLane
BY JobInit, JobStep, PTL DEF Job!Spec, JobInv

\* What was reported has an outcome and no process, then and ever after, and the
\* outcome stays what it was.
THEOREM ContractReportsStand == Job!Spec => Job!ReportStands
<1>1. JobInv => \A j \in Jobs : phase[j] = "reported" => outcome[j] \in Outcomes /\ j \notin running
  BY DEF JobInv
<1>2. JobInv /\ [Job!Next]_Job!cvars
        => [\A j \in Jobs : phase[j] = "reported" =>
                              phase'[j] = "reported" /\ outcome'[j] = outcome[j]]_Job!cvars
  BY JobStep
<1> QED
  BY <1>1, <1>2, JobInit, JobStep, PTL DEF Job!Spec, Job!ReportStands

-----------------------------------------------------------------------------
(* Approvals.                                                               *)

\* A token that is held has its prompt; one that ran was approved.
ApprovalInv ==
    /\ verdict \in [Tokens -> {"nothing", "held", "approve", "deny"}]
    /\ prompts \subseteq [token : Tokens, wish : Approval!Wishes]
    /\ runs \subseteq [token : Tokens, work : Work, wish : Approval!Wishes]
    /\ Approval!OnePrompt
    /\ \A r \in runs : verdict[r.token] = "approve"
    /\ \A r, s \in runs : r.token = s.token \/ r.work = s.work => r = s

LEMMA ApprovalInit == Approval!Init => ApprovalInv
BY DEF Approval!Init, ApprovalInv, Approval!OnePrompt

LEMMA ApprovalStep ==
    ASSUME ApprovalInv, [Approval!Next]_Approval!avars
    PROVE  ApprovalInv' /\ runs \subseteq runs'
<1> USE DEF ApprovalInv, Approval!OnePrompt
<1>1. ASSUME NEW k \in Tokens, NEW wish \in Approval!Wishes, Approval!Ask(k, wish)
      PROVE  ApprovalInv' /\ runs \subseteq runs'
  <2> DEFINE p == [token |-> k, wish |-> wish]
  <2>1. p \in [token : Tokens, wish : Approval!Wishes] /\ p.token = k /\ prompts' = prompts \cup {p}
    BY <1>1 DEF Approval!Ask
  <2> HIDE DEF p
  <2>2. verdict[k] = "nothing" /\ verdict' = [verdict EXCEPT ![k] = "held"] /\ runs' = runs
    BY <1>1 DEF Approval!Ask
  <2>3. \A q \in prompts : q.token \in Tokens /\ q.token # k
    BY <2>2
  <2>4. Approval!OnePrompt'
    BY <2>1, <2>2, <2>3
  <2> QED
    BY <2>1, <2>2, <2>4
<1>2. ASSUME NEW p \in prompts, NEW d \in {"approve", "deny"}, Approval!Resolve(p, d)
      PROVE  /\ verdict' \in [Tokens -> {"nothing", "held", "approve", "deny"}]
             /\ prompts' \subseteq [token : Tokens, wish : Approval!Wishes]
             /\ Approval!OnePrompt'
             /\ \A r \in runs : r.token # p.token /\ verdict'[r.token] = "approve"
             /\ p.token \in Tokens /\ p.wish \in Approval!Wishes /\ verdict'[p.token] = d
  <2>1. /\ verdict[p.token] = "held" /\ verdict' = [verdict EXCEPT ![p.token] = d]
        /\ prompts' = prompts \ {p} /\ p.token \in Tokens /\ p.wish \in Approval!Wishes
    BY <1>2 DEF Approval!Resolve
  <2>2. Approval!OnePrompt'
    BY <2>1
  <2> QED
    BY <2>1, <2>2
<1>3. ASSUME NEW p \in prompts, Approval!Approve(p)
      PROVE  ApprovalInv' /\ runs \subseteq runs'
  <2>1. Approval!Resolve(p, "approve")
    BY <1>3 DEF Approval!Approve
  <2>2. CASE UNCHANGED runs
    BY <1>2, <2>1, <2>2
  <2>3. ASSUME NEW w \in Work, \A r \in runs : r.work # w,
               runs' = runs \cup {[token |-> p.token, work |-> w, wish |-> p.wish]}
        PROVE  ApprovalInv' /\ runs \subseteq runs'
    <3> DEFINE n == [token |-> p.token, work |-> w, wish |-> p.wish]
    <3>1. /\ n \in [token : Tokens, work : Work, wish : Approval!Wishes]
          /\ n.token = p.token /\ n.work = w /\ runs' = runs \cup {n}
      BY <1>2, <2>1, <2>3
    <3> HIDE DEF n
    <3> QED
      BY <1>2, <2>1, <2>3, <3>1
  <2> QED
    BY <1>3, <2>2, <2>3 DEF Approval!Approve
<1>4. ASSUME NEW p \in prompts, Approval!Deny(p)
      PROVE  ApprovalInv' /\ runs \subseteq runs'
  BY <1>2, <1>4 DEF Approval!Deny
<1>5. CASE UNCHANGED Approval!avars
  BY <1>5 DEF Approval!avars
<1> QED
  BY <1>1, <1>3, <1>4, <1>5 DEF Approval!Next

\* While a token is held there is one prompt that bears it, and no other time.
THEOREM ContractPromptsOnce == Approval!Spec => []Approval!OnePrompt
BY ApprovalInit, ApprovalStep, PTL DEF Approval!Spec, ApprovalInv

\* What runs in the name of a token was approved, is the only run of that token,
\* and is never taken back.
THEOREM ContractRunsStand == Approval!Spec => Approval!RunsStand
<1>1. ApprovalInv => /\ \A r \in runs : verdict[r.token] = "approve"
                     /\ \A r, s \in runs : r.token = s.token \/ r.work = s.work => r = s
  BY DEF ApprovalInv
<1>2. ApprovalInv /\ [Approval!Next]_Approval!avars => [runs \subseteq runs']_Approval!avars
  BY ApprovalStep
<1> QED
  BY <1>1, <1>2, ApprovalInit, ApprovalStep, PTL DEF Approval!Spec, Approval!RunsStand

-----------------------------------------------------------------------------
(* Tasks.                                                                   *)

TaskInv ==
    /\ status \in [Tasks -> {"none", "active", "interrupted"} \cup Task!Settled]
    /\ owner \in [Tasks -> Agents \cup {NoAgent}]
    /\ outcomes \in Seq(Tasks)
    /\ Task!ToldOnce
    /\ Task!InHand

TaskKept == \A t \in Tasks : status[t] \in Task!Over =>
                               status'[t] = status[t] /\ owner'[t] = owner[t]

LEMMA TaskInit == Task!Init => TaskInv
BY DEF Task!Init, TaskInv, Task!ToldOnce, Task!InHand, Task!Settled

LEMMA TaskStep ==
    ASSUME TaskInv, [Task!Next]_Task!tvars
    PROVE  TaskInv' /\ TaskKept
<1> USE DEF TaskInv, TaskKept, Task!ToldOnce, Task!InHand, Task!Settled, Task!Over
<1>1. ASSUME NEW t \in Tasks, NEW a \in Agents, Task!Work(t, a) PROVE TaskInv' /\ TaskKept
  BY <1>1 DEF Task!Work
<1>2. CASE Task!Yield
  BY <1>2 DEF Task!Yield
<1>3. ASSUME NEW t \in Tasks, NEW end \in Task!Settled, Task!Settle(t, end)
      PROVE  TaskInv' /\ TaskKept
  <2>1. /\ status[t] = "active" /\ status' = [status EXCEPT ![t] = end]
        /\ outcomes' = Append(outcomes, t) /\ owner' = owner
    BY <1>3 DEF Task!Settle
  <2>2. \A i \in DOMAIN outcomes : outcomes[i] \in Tasks /\ outcomes[i] # t
    BY <2>1
  <2>3. /\ outcomes' \in Seq(Tasks)
        /\ DOMAIN outcomes' = DOMAIN outcomes \cup {Len(outcomes) + 1}
        /\ outcomes'[Len(outcomes) + 1] = t
        /\ \A i \in DOMAIN outcomes : outcomes'[i] = outcomes[i]
    BY <2>1
  <2>4. Task!ToldOnce'
    BY <2>1, <2>2, <2>3
  <2> QED
    BY <2>1, <2>3, <2>4
<1>4. CASE Task!Interrupt
  BY <1>4 DEF Task!Interrupt
<1>5. CASE UNCHANGED Task!tvars
  BY <1>5 DEF Task!tvars
<1> QED
  BY <1>1, <1>2, <1>3, <1>4, <1>5 DEF Task!Next

\* Every task that settles is told once, no other is told, and what is at work has
\* an owner.
THEOREM ContractTellsOnce == Task!Spec => []Task!ToldOnce /\ []Task!InHand
BY TaskInit, TaskStep, PTL DEF Task!Spec, TaskInv

\* What is over stays over, as it was.
THEOREM ContractOverStands == Task!Spec => Task!OverStands
<1>1. TaskInv /\ [Task!Next]_Task!tvars => [TaskKept]_Task!tvars
  BY TaskStep
<1> QED
  BY <1>1, TaskInit, TaskStep, PTL DEF Task!Spec, Task!OverStands, TaskKept

-----------------------------------------------------------------------------
(* Self-checks.                                                             *)

Requests == [caller : Callers, agent : Agents]
Pings == [check : Checks, agent : Agents]
Waits == [caller : Callers, check : Checks, answer : {"open", "responded", "failed"}]

\* A check is known by its number, and a caller asks or waits once.
CheckInv ==
    /\ asking \subseteq Requests /\ registered \subseteq Pings /\ waiting \subseteq Waits
    /\ Check!OnePerAgent
    /\ \A x, y \in registered : x.check = y.check => x = y
    /\ Check!AnswersAreTrue
    /\ \A r, q \in asking : r.caller = q.caller => r = q
    /\ \A r \in asking, w \in waiting : r.caller # w.caller

LEMMA CheckInit == Check!Init => CheckInv
BY DEF Check!Init, CheckInv, Check!OnePerAgent, Check!AnswersAreTrue

LEMMA PingIsNoRequest ==
    ASSUME NEW r \in Requests, NEW x \in Pings
    PROVE  r # x
<1>1. "caller" \in DOMAIN r /\ "caller" \notin DOMAIN x
  BY DEF Requests, Pings
<1> QED
  BY <1>1

LEMMA CheckStarts ==
    ASSUME CheckInv, NEW r \in asking, NEW k \in Checks, Check!Start(r, k)
    PROVE  CheckInv'
<1> DEFINE x == [check |-> k, agent |-> r.agent]
           w == [caller |-> r.caller, check |-> k, answer |-> "open"]
<1>1. /\ r \in Requests /\ r.caller \in Callers /\ r.agent \in Agents
      /\ \A y \in checking \cup registered \cup waiting : y.check # k
      /\ asking' = asking \ {r} /\ checking' = checking \cup {x}
      /\ registered' = registered \cup {x} /\ waiting' = waiting \cup {w}
  BY DEF CheckInv, Check!Start, Requests
<1>2. /\ x \in Pings /\ x.check = k /\ x.agent = r.agent
      /\ w \in Waits /\ w.caller = r.caller /\ w.check = k /\ w.answer = "open"
  BY <1>1 DEF Pings, Waits
<1> HIDE DEF x, w
<1>3. asking' \subseteq Requests /\ registered' \subseteq Pings /\ waiting' \subseteq Waits
  BY <1>1, <1>2 DEF CheckInv
<1>4. Check!OnePerAgent'
  <2>1. \A y \in (asking \ {r}) \cup registered : y.agent # r.agent
    BY <1>1, PingIsNoRequest DEF CheckInv, Check!OnePerAgent
  <2> QED
    BY <1>1, <1>2, <2>1 DEF CheckInv, Check!OnePerAgent
<1>5. Check!AnswersAreTrue'
  BY <1>1, <1>2 DEF CheckInv, Check!AnswersAreTrue
<1> QED
  BY <1>1, <1>2, <1>3, <1>4, <1>5 DEF CheckInv

LEMMA CheckDecided ==
    ASSUME CheckInv, NEW k \in registered, NEW o \in {"responded", "failed"}, Check!Decide(k, o)
    PROVE  CheckInv'
<1>1. /\ k \notin checking /\ registered' = registered \ {k}
      /\ waiting' = {Check!Answered(w, k, o) : w \in waiting} /\ UNCHANGED <<asking, checking>>
  BY DEF Check!Decide
<1>2. ASSUME NEW w \in waiting
      PROVE  /\ Check!Answered(w, k, o) \in Waits
             /\ Check!Answered(w, k, o).caller = w.caller
             /\ Check!Answered(w, k, o).check = w.check
             /\ Check!Answered(w, k, o).answer = IF w.check = k.check THEN o ELSE w.answer
  BY DEF Check!Answered, CheckInv, Waits
<1>3. ASSUME NEW v \in waiting'
      PROVE  \E w \in waiting : /\ v = Check!Answered(w, k, o) /\ v \in Waits
                                /\ v.caller = w.caller /\ v.check = w.check
                                /\ v.answer = IF w.check = k.check THEN o ELSE w.answer
  BY <1>1, <1>2
<1>4. asking' \subseteq Requests /\ registered' \subseteq Pings /\ waiting' \subseteq Waits
  BY <1>1, <1>3 DEF CheckInv
<1>5. Check!OnePerAgent'
  BY <1>1 DEF CheckInv, Check!OnePerAgent
<1>6. Check!AnswersAreTrue'
  <2>1. ASSUME NEW u \in waiting', NEW v \in waiting', u.check = v.check \/ u.caller = v.caller
        PROVE  u = v
    BY <1>3, <2>1 DEF CheckInv, Check!AnswersAreTrue
  <2>2. ASSUME NEW v \in waiting'
        PROVE  v.answer = "open" <=> \E y \in registered' : y.check = v.check
    BY <1>1, <1>3 DEF CheckInv, Check!AnswersAreTrue
  <2> QED
    BY <2>1, <2>2 DEF Check!AnswersAreTrue
<1>7. \A r \in asking', v \in waiting' : r.caller # v.caller
  BY <1>1, <1>3 DEF CheckInv
<1> QED
  BY <1>1, <1>4, <1>5, <1>6, <1>7 DEF CheckInv

LEMMA CheckStep ==
    ASSUME CheckInv, [Check!Next]_Check!svars
    PROVE  CheckInv'
<1>1. ASSUME NEW c \in Callers, NEW a \in Agents, Check!Ask(c, a) PROVE CheckInv'
  <2> DEFINE r == [caller |-> c, agent |-> a]
  <2>1. /\ r \in Requests /\ r.caller = c /\ r.agent = a /\ asking' = asking \cup {r}
        /\ UNCHANGED <<checking, registered, waiting>>
    BY <1>1 DEF Check!Ask, Requests
  <2> HIDE DEF r
  <2>2. \A q \in asking \cup registered : q.agent # a
    BY <1>1 DEF Check!Ask, Check!Reserved
  <2>3. \A q \in asking \cup waiting : q.caller # c
    BY <1>1 DEF Check!Ask, Check!Busy
  <2> QED
    BY <2>1, <2>2, <2>3 DEF CheckInv, Check!OnePerAgent, Check!AnswersAreTrue
<1>2. ASSUME NEW r \in asking, Check!GiveUp(r) PROVE CheckInv'
  BY <1>2 DEF Check!GiveUp, CheckInv, Check!OnePerAgent, Check!AnswersAreTrue
<1>3. ASSUME NEW k \in checking, Check!Stop(k) PROVE CheckInv'
  BY <1>3 DEF Check!Stop, CheckInv, Check!OnePerAgent, Check!AnswersAreTrue
<1>4. ASSUME NEW w \in waiting, Check!Collect(w) PROVE CheckInv'
  BY <1>4 DEF Check!Collect, CheckInv, Check!OnePerAgent, Check!AnswersAreTrue
<1>5. CASE Check!Crash
  BY <1>5 DEF Check!Crash, CheckInv, Check!OnePerAgent, Check!AnswersAreTrue
<1>6. CASE UNCHANGED Check!svars
  BY <1>6 DEF Check!svars, CheckInv, Check!OnePerAgent, Check!AnswersAreTrue
<1> QED
  BY <1>1, <1>2, <1>3, <1>4, <1>5, <1>6, CheckStarts, CheckDecided DEF Check!Next

\* One request or check has an agent at a time, and a check that runs has no outcome.
THEOREM ContractChecksOnce == Check!Spec => []Check!OnePerAgent
BY CheckInit, CheckStep, PTL DEF Check!Spec, CheckInv

\* Nobody waits for the check of another, nor in vain for one that has its outcome.
THEOREM ContractAnswersAreTrue == Check!Spec => []Check!AnswersAreTrue
BY CheckInit, CheckStep, PTL DEF Check!Spec, CheckInv

-----------------------------------------------------------------------------
(* Processes.                                                               *)

ProcessInv ==
    /\ code = "exited" => there # "running"
    /\ code = "refused" => there = "none"
    /\ ~held => code # "none"

LEMMA ProcessInit == Process!Init => ProcessInv
BY DEF Process!Init, ProcessInv

LEMMA ProcessStep ==
    ASSUME ProcessInv, [Process!Next]_Process!pvars
    PROVE  ProcessInv' /\ (code # "none" => code' = code)
<1> USE DEF ProcessInv
<1>1. CASE Process!Start
  BY <1>1 DEF Process!Start, Process!Final
<1>2. CASE Process!End
  BY <1>2 DEF Process!End
<1>3. ASSUME NEW c \in Process!Silent \cup Process!Final, Process!Settle(c)
      PROVE  ProcessInv' /\ (code # "none" => code' = code)
  BY <1>3 DEF Process!Settle, Process!Silent, Process!Final
<1>4. CASE Process!LetGo
  BY <1>4 DEF Process!LetGo
<1>5. CASE UNCHANGED Process!pvars
  BY <1>5 DEF Process!pvars
<1> QED
  BY <1>1, <1>2, <1>3, <1>4, <1>5 DEF Process!Next

\* After an exit code nothing runs nor will; after a refusal nothing ever did.
THEOREM ContractFinalIsTrue == Process!Spec => Process!FinalIsTrue
<1>1. ProcessInv => (code = "exited" => there # "running") /\ (code = "refused" => there = "none")
  BY DEF ProcessInv
<1>2. ProcessInv /\ [Process!Next]_Process!pvars => ProcessInv'
  BY ProcessStep
<1> QED
  BY <1>1, <1>2, ProcessInit, PTL DEF Process!Spec, Process!FinalIsTrue

\* The first code stands, and a handle is let go only with one.
THEOREM ContractCodeStands == Process!Spec => Process!CodeStands
<1>1. ProcessInv => (~held => code # "none")
  BY DEF ProcessInv
<1>2. ProcessInv /\ [Process!Next]_Process!pvars
        => ProcessInv' /\ [code # "none" => code' = code]_Process!pvars
  BY ProcessStep
<1> QED
  BY <1>1, <1>2, ProcessInit, PTL DEF Process!Spec, Process!CodeStands

-----------------------------------------------------------------------------
(* Sessions.                                                                *)

SessionInv ==
    /\ inUse \in [Channels -> SUBSET Ids]
    /\ Session!OneUser
    /\ \A c \in Channels : inUse[c] \cap (gone \cup unsure) = {}

LEMMA SessionInit == Session!Init => SessionInv
BY DEF Session!Init, SessionInv, Session!OneUser

\* Requests that end disturb nothing, however many do.
LEMMA LessInUse ==
    ASSUME SessionInv, Session!StaysNamed, inUse' \in [Channels -> SUBSET Ids],
           \A c \in Channels : inUse'[c] \in {{}, inUse[c]},
           \A c \in Channels : inUse'[c] \cap (gone' \cup unsure') = {}
    PROVE  SessionInv'
<1> USE DEF SessionInv, Session!OneUser
<1>1. \A c \in Channels : inUse'[c] # {} => named'[c] = inUse'[c]
  BY DEF Session!StaysNamed
<1>2. ASSUME NEW c \in Channels, NEW d \in Channels, c # d
      PROVE  inUse'[c] \cap inUse'[d] = {}
  BY <1>2
<1> QED
  BY <1>1, <1>2

LEMMA SessionStep ==
    ASSUME SessionInv, [Session!Next]_Session!svars
    PROVE  SessionInv' /\ gone \subseteq gone'
<1> DEFINE Good == SessionInv' /\ gone \subseteq gone'
<1> USE DEF SessionInv, Session!OneUser
<1>1. ASSUME NEW c \in Channels, NEW S \in SUBSET Ids, Session!Use(c, S) PROVE Good
  <2>1. /\ inUse'[c] = S /\ inUse' \in [Channels -> SUBSET Ids]
        /\ \A d \in Channels \ {c} : inUse'[d] = inUse[d] /\ inUse[d] \cap S = {}
        /\ UNCHANGED <<gone, unsure>> /\ S \cap (gone \cup unsure) = {}
    BY <1>1 DEF Session!Use
  <2>2. \A d \in Channels : inUse'[d] # {} => named'[d] = inUse'[d]
    BY <1>1 DEF Session!Use, Session!StaysNamed
  <2>3. ASSUME NEW d \in Channels, NEW e \in Channels, d # e
        PROVE  inUse'[d] \cap inUse'[e] = {}
    BY <2>1, <2>3
  <2> QED
    BY <2>1, <2>2, <2>3
<1>2. ASSUME NEW c \in Channels, Session!Leave(c) PROVE Good
  BY <1>2, LessInUse DEF Session!Leave
<1>3. ASSUME NEW S \in SUBSET Ids, Session!GiveUp(S) PROVE Good
  <2>1. /\ inUse' \in [Channels -> SUBSET Ids] /\ Session!StaysNamed
        /\ \A c \in Channels : inUse'[c] = IF inUse[c] \cap S = {} THEN inUse[c] ELSE {}
        /\ gone' \cup unsure' = gone \cup unsure \cup S /\ gone \subseteq gone'
    BY <1>3 DEF Session!GiveUp
  <2>2. \A c \in Channels : inUse'[c] \cap (gone' \cup unsure') = {}
    BY <2>1
  <2> QED
    BY <2>1, <2>2, LessInUse
<1>4. CASE Session!Write
  BY <1>4, LessInUse DEF Session!Write
<1>5. CASE Session!Crash
  BY <1>5 DEF Session!Crash
<1>6. CASE UNCHANGED Session!svars
  BY <1>6 DEF Session!svars
<1> QED
  BY <1>1, <1>2, <1>3, <1>4, <1>5, <1>6 DEF Session!Next

\* No session is in use by two channels, nor without the store naming it.
THEOREM ContractSessionsAreApart == Session!Spec => []Session!OneUser
BY SessionInit, SessionStep, PTL DEF Session!Spec, SessionInv

\* What was given up is not used, and what is written of that stands.
THEOREM ContractGoneStands == Session!Spec => Session!GoneStands
<1>1. SessionInv => \A c \in Channels : inUse[c] \cap (gone \cup unsure) = {}
  BY DEF SessionInv
<1>2. SessionInv /\ [Session!Next]_Session!svars
        => SessionInv' /\ [gone \subseteq gone']_Session!svars
  BY SessionStep
<1> QED
  BY <1>1, <1>2, SessionInit, PTL DEF Session!Spec, Session!GoneStands
=============================================================================
